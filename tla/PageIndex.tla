----------------------------- MODULE PageIndex -----------------------------
(***************************************************************************)
(* Lookups by page in CPDF_Document                                        *)
(* (core/fpdfapi/parser/cpdf_document.cpp), beside the operations of       *)
(* PageTree: GetPageIndex searches page_list_ and then the tree, from the  *)
(* first page that is not cached, and caches what it finds.                *)
(***************************************************************************)
EXTENDS PageTree

(* FindPageIndex.  A search s is [pages to skip, index so far, result].    *)

RECURSIVE FindPageIndex(_, _, _, _), FindInKids(_, _, _, _, _)
FindPageIndex(d, node, target, s) ==
    IF node \in Page
    THEN IF node = target THEN [s EXCEPT !.result = s.index]
         ELSE [s EXCEPT !.skip = IF @ # 0 THEN @ - 1 ELSE @, !.index = @ + 1]
    ELSE LET n == d.count[node] IN
         IF n <= s.skip
         THEN [s EXCEPT !.skip = @ - n, !.index = @ + n]
         ELSE IF n # 0 /\ n = Len(d.kids[node]) /\ Contains(d.kids[node], target)
              THEN [s EXCEPT !.result = s.index - 1 +
                      SelectInSeq(d.kids[node], LAMBDA kid : kid = target)]
              ELSE FindInKids(d, node, 1, target, s)

FindInKids(d, node, k, target, s) ==
    IF s.result >= 0 \/ k > Len(d.kids[node]) THEN s
    ELSE FindInKids(d, node, k + 1, target,
                    FindPageIndex(d, d.kids[node][k], target, s))

(* The number of pages cached before the first that is not, if any.        *)
SkipCount(d) ==
    LET hole == SelectInSeq(d.list, LAMBDA p : p = None)
    IN  IF hole = 0 THEN 0 ELSE hole - 1

(* GetPageIndex: the cache first, then the tree from the first page that   *)
(* is not cached; what is found is cached.                                 *)
GetPageIndex(d, page) ==
    IF Contains(d.list, page)
    THEN [doc |-> d, found |-> SelectInSeq(d.list, LAMBDA p : p = page) - 1]
    ELSE LET s == FindPageIndex(d, Root, page,
                    [skip |-> SkipCount(d), index |-> 0, result |-> -1])
         IN  IF s.result \in 0 .. Len(d.list) - 1
             THEN [doc |-> [d EXCEPT !.list[s.result + 1] = page],
                   found |-> s.result]
             ELSE [doc |-> d, found |-> -1]

-----------------------------------------------------------------------------
(* FPDFDest_GetDestPageIndex and every other lookup by page.               *)
LookUpIndex(page) ==
    /\ page \in ToSet(pages)
    /\ LET r == GetPageIndex(doc, page)
       IN  doc' = r.doc /\ answer' = Seqs!IndexIs(r.found)
    /\ UNCHANGED <<free, edits>>

IndexNext == (Operation \/ \E page \in Page : LookUpIndex(page)) /\ pages' = ThePages(doc')

IndexSpec == Init /\ [][IndexNext]_vars

-----------------------------------------------------------------------------
(* FPDFDest_GetDestPageIndex returns the index of the page it is given.    *)
IndexIsThatOfThePage ==
    [][\A p \in Page : LookUpIndex(p) =>
         /\ answer'.index \in Seqs!Index(pages)
         /\ pages[answer'.index + 1] = p]_vars
=============================================================================
