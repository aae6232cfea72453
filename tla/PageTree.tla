------------------------------ MODULE PageTree ------------------------------
(***************************************************************************)
(* The pages of CPDF_Document (core/fpdfapi/parser/cpdf_document.cpp)      *)
(* under the operations of the public interface.  The document's truth is  *)
(* a tree of page nodes; page_list_ and the traversal (see PageTraversal)  *)
(* are caches, and every operation that changes the tree has to keep them  *)
(* right.                                                                  *)
(*                                                                         *)
(* The documents are those whose page tree obeys the format: a tree, every *)
(* node with the Kids and the /Count it should have.  All of the file can  *)
(* be read.                                                                *)
(***************************************************************************)
EXTENDS PageTraversal

CONSTANTS
    Files,        \* the Kids of the files that may be opened
    Linearized,   \* BOOLEAN: the file may name its first page
    MaxPages,     \* bound on the document's length
    MoveMax,      \* bound on the pages moved at once
    MaxEdits      \* bound on the number of edits

ASSUME PageTreeAssumption ==
    /\ \A kids \in Files : IsTree(kids)
    /\ MaxPages \in Nat /\ MoveMax \in Nat /\ MaxEdits \in Nat

VARIABLES
    doc,          \* the document, see PageTraversal
    pages,        \* its pages in order: the leaves of the tree (derived)
    free,         \* pages not created yet
    edits,        \* number of edits so far
    answer        \* what the last operation returned

vars == <<doc, pages, free, edits, answer>>

(* The abstract specification, and its operators on sequences.             *)
Seqs == INSTANCE PageSeq

ThePages(d) == Leaves(d.kids, Root)

-----------------------------------------------------------------------------
(* InsertDeletePDFPage: page is the page to insert before the leaf to go   *)
(* to, or None to delete that leaf.  The search for the leaf keeps a path  *)
(* of nodes, each at the child it went into, which is the stack of calls   *)
(* as well, and the number of pages still to go.                           *)

Pass(search, n) ==
    [search EXCEPT !.path = AdvanceAt(@, Len(@)), !.togo = @ - n]
Descend(search, kid) ==
    [search EXCEPT !.path = Append(@, [node |-> kid, child |-> 1])]

SearchStep(d, search) ==
    LET at   == Last(search.path)
        list == d.kids[at.node]
        kid  == list[at.child]
        size == IF kid \in Page THEN 1 ELSE d.count[kid]
    IN  CASE at.child <= Len(list) /\ search.togo >= size -> Pass(search, size)
          [] at.child <= Len(list) /\ search.togo < size /\ kid \in Branch ->
               Descend(search, kid)
          [] OTHER -> search

PathTo(d, i) ==
    LET after[n \in 0 .. MaxTurns] ==
          IF n = 0 THEN [path |-> <<[node |-> Root, child |-> 1]>>, togo |-> i]
          ELSE SearchStep(d, after[n - 1])
    IN  after[MaxTurns].path

AddToCountOnInsert(d, ofNodes, page) ==   \* fault: not on deletion
    [d EXCEPT !.count = [b \in Branch |->
        IF b \in ofNodes THEN @[b] + (IF page = None THEN 0 ELSE 1) ELSE @[b]]]
AddToCountDown(d, ofNodes, page) ==       \* fault: an insertion counts down too
    [d EXCEPT !.count = [b \in Branch |-> IF b \in ofNodes THEN @[b] - 1 ELSE @[b]]]
AddToCount(d, ofNodes, page) ==
    [d EXCEPT !.count = [b \in Branch |->
        IF b \in ofNodes THEN @[b] + (IF page = None THEN -1 ELSE 1) ELSE @[b]]]

EditAtWithoutParent(d, at, page) ==   \* fault: /Parent not set
    ResetTraversal(AddToCount(
        [d EXCEPT !.kids[at.node] = IF page = None THEN RemoveAt(@, at.child)
                                    ELSE InsertAt(@, at.child, page)],
        {at.node}, page))
EditAt(d, at, page) ==
    ResetTraversal(AddToCount(
        IF page = None
        THEN [d EXCEPT !.kids[at.node] = RemoveAt(@, at.child)]
        ELSE [d EXCEPT !.kids[at.node] = InsertAt(@, at.child, page),
                       !.parent[page] = at.node],
        {at.node}, page))

InsertDelete(d, i, page) ==
    LET path    == PathTo(d, i)
        at      == Last(path)
        edited  == IF at.child <= Len(d.kids[at.node]) THEN EditAt(d, at, page) ELSE d
        callers == {path[n].node : n \in 1 .. Len(path) - 1}
    IN  AddToCount(edited, callers, page)

(* InsertNewPage, i in range.                                              *)
InsertNewPage(d, i, page) ==
    LET tree == IF i = Len(d.list)
                THEN ResetTraversal(
                       [d EXCEPT !.kids[Root] = Append(@, page),
                                 !.count[Root] = Len(d.list) + 1,
                                 !.parent[page] = Root])
                ELSE InsertDelete(d, i, page)
    IN  [tree EXCEPT !.list = InsertAt(@, i + 1, page)]

(* DeletePage, i in range; the page is looked up first.                    *)
DeletePage(d, i) ==
    LET tree == InsertDelete(Lookup(d, i).doc, i, None)
    IN  [tree EXCEPT !.list = RemoveAt(@, i + 1)]

(* Pages looked up one after the other.                                    *)
LookedUp(d, indices) ==
    LET after[n \in 0 .. Len(indices)] ==
          IF n = 0 THEN d ELSE Lookup(after[n - 1], indices[n]).doc
    IN  after[Len(indices)]

(* SetPageToNullObject looks every remaining page up.                      *)
LoadEveryPage(d) == LookedUp(d, [i \in DOMAIN d.list |-> i - 1])

(* MovePages: look the pages up, delete from the last to the first, insert *)
(* in the order given.                                                     *)
DeletionOrderGiven(indices) == indices   \* fault: not sorted
DeletionOrder(indices) ==
    [n \in DOMAIN indices |-> Seqs!Nth(ToSet(indices), Len(indices) - n + 1)]

DeletePages(d, indices) ==
    LET after[n \in 0 .. Len(indices)] ==
          IF n = 0 THEN d ELSE DeletePage(after[n - 1], indices[n])
    IN  after[Len(indices)]

InsertPages(d, dest, newPages) ==
    LET after[n \in 0 .. Len(newPages)] ==
          IF n = 0 THEN d
          ELSE InsertNewPage(after[n - 1], n - 1 + dest, newPages[n])
    IN  after[Len(newPages)]

MovePages(d, indices, dest) ==
    LET looked == LookedUp(d, indices)
        moved  == [k \in DOMAIN indices |-> looked.list[indices[k] + 1]]
    IN  InsertPages(DeletePages(looked, DeletionOrder(indices)), dest, moved)
-----------------------------------------------------------------------------
Init ==
    /\ \E kids \in Files, first \in 0 .. MaxPages :
         /\ first <= (IF Linearized THEN Len(Leaves(kids, Root)) ELSE 0)
         /\ doc = LoadPages(kids, first)
         /\ pages = Leaves(kids, Root)
         /\ free = Page \ ToSet(pages)
    /\ edits = 0
    /\ answer = Seqs!Done(TRUE)

Edit == edits < MaxEdits /\ edits' = edits + 1

(* FPDFPage_New / CreateNewPage.                                           *)
CreateNewPage(i, page) ==
    /\ Edit /\ page \in free /\ Len(doc.list) < MaxPages
    /\ i \in 0 .. Len(doc.list)
    /\ doc' = InsertNewPage(doc, i, page)
    /\ free' = free \ {page}
    /\ answer' = Seqs!PageIs(page)

(* FPDFPage_Delete.                                                        *)
FPDFPage_Delete(i) ==
    /\ Edit /\ i \in Seqs!Index(doc.list)
    /\ doc' = LoadEveryPage(DeletePage(doc, i))
    /\ answer' = Seqs!Done(TRUE)
    /\ UNCHANGED free

(* FPDF_MovePages; the lookups of a refused call may already have filled   *)
(* the cache.                                                              *)
FPDF_MovePages(indices, dest) ==
    /\ Edit /\ UNCHANGED free
    /\ indices # <<>> /\ Len(indices) <= Len(doc.list)
    /\ dest \in 0 .. Len(doc.list) - Len(indices)
    /\ IF IsInjective(indices)
       THEN /\ doc' = MovePages(doc, indices, dest)
            /\ answer' = Seqs!Done(TRUE)
       ELSE /\ LET first == CHOOSE n \in DOMAIN indices :
                     /\ \E m \in 1 .. n - 1 : indices[m] = indices[n]
                     /\ IsInjective(SubSeq(indices, 1, n - 1))
               IN  doc' = LookedUp(doc, SubSeq(indices, 1, first - 1))
            /\ answer' = Seqs!Done(FALSE)

(* FPDF_LoadPage and every other lookup by index.                          *)
LookUpPage(i) ==
    /\ i \in Seqs!Index(doc.list)
    /\ LET r == Lookup(doc, i)
       IN  doc' = r.doc /\ answer' = Seqs!PageIs(r.found)
    /\ UNCHANGED <<free, edits>>

Operation ==
    LET n == Len(doc.list) IN
    \/ \E i \in 0..n, page \in free : CreateNewPage(i, page)
    \/ \E i \in Seqs!Index(doc.list) : FPDFPage_Delete(i) \/ LookUpPage(i)
    \/ \E k \in 1..MoveMax, dest \in 0..n :
         \E indices \in [1..k -> Seqs!Index(doc.list)] : FPDF_MovePages(indices, dest)

Next == Operation /\ pages' = ThePages(doc')

Spec == Init /\ [][Next]_vars

-----------------------------------------------------------------------------
TypeOK ==
    /\ doc \in DocType
    /\ free \subseteq Page
    /\ edits \in 0..MaxEdits

(* The cache agrees with the tree: page_list_ is as long as the document   *)
(* and each object number in it is that of the page at its place.          *)
CacheMatchesTree ==
    /\ Len(doc.list) = Len(pages)
    /\ \A i \in DOMAIN doc.list : doc.list[i] \in {None, pages[i]}

(* Each node's /Count is the number of pages below it: the searches that   *)
(* skip whole subtrees, and the file if it is saved, depend on it.         *)
CountsAreRight ==
    \A b \in Branch : doc.count[b] = Len(Leaves(doc.kids, b))

(* A page of the document names the node it hangs from as its /Parent, the *)
(* node it inherits its attributes from.                                   *)
ParentsAreRight ==
    \A p \in ToSet(pages) :
        doc.parent[p] \in Branch /\ p \in ToSet(doc.kids[doc.parent[p]])

(* An interrupted walk will go on where it stopped: what lies to the left  *)
(* of its stack is the first next_page_to_traverse_ pages, all cached.     *)
TraversalIsInStep ==
    doc.trav # <<>> =>
      LET passed == FlattenSeq([n \in DOMAIN doc.trav |->
                      LET at == doc.trav[n] IN FlattenSeq([k \in 1 .. at.child - 1 |->
                        Leaves(doc.kids, doc.kids[at.node][k])])])
      IN  /\ passed = SubSeq(pages, 1, doc.next)
          /\ passed = SubSeq(doc.list, 1, doc.next)

(* The tree with its caches implements the sequence of pages: every lookup *)
(* answers, and every edit does, what it would on the sequence.            *)
ImplementsPageSeq == Seqs!Spec
=============================================================================
