--------------------------- MODULE PageTraversal ---------------------------
(***************************************************************************)
(* Looking a page up by its index in CPDF_Document                         *)
(* (core/fpdfapi/parser/cpdf_document.cpp): page_list_ caches the object   *)
(* number of each page, tree_traversal_ remembers where the last lookup    *)
(* stopped in a walk of the page tree that fills the cache from left to    *)
(* right, and next_page_to_traverse_ is the page the walk stands before.   *)
(*                                                                         *)
(* A document d is a record of the tree (Kids, /Count, /Parent) and these  *)
(* three.  Some of the tree may be unread: not downloaded yet.             *)
(***************************************************************************)
EXTENDS Integers, Sequences, SequencesExt, FiniteSets

CONSTANTS
    Root,         \* the page tree's root node
    Branch,       \* page tree nodes, Root among them
    Page,         \* pages, in the file or created later
    None          \* object number 0

ASSUME NodesAssumption ==
    /\ Root \in Branch /\ Branch \cap Page = {}
    /\ None \notin Branch \cup Page
    /\ IsFiniteSet(Branch) /\ IsFiniteSet(Page)

(* The pages below a node, from left to right.                             *)
Leaves(kids, node) ==
    LET leaves[n \in Branch \cup Page] ==
          IF n \in Page THEN <<n>>
          ELSE FlattenSeq([k \in DOMAIN kids[n] |-> leaves[kids[n][k]]])
    IN  leaves[node]

ParentOf(kids, page) ==
    IF \E b \in Branch : page \in ToSet(kids[b])
    THEN CHOOSE b \in Branch : page \in ToSet(kids[b]) ELSE None

(* Nodes become deeper on the way down.                                    *)
Descends(kids) ==
    /\ kids \in [Branch -> Seq(Branch \cup Page)]
    /\ \E depth \in [Branch -> 0 .. Cardinality(Branch)] :
         \A b \in Branch : \A kid \in ToSet(kids[b]) \cap Branch : depth[b] < depth[kid]

(* The Kids of a page tree: what is below a node is there once and nowhere *)
(* else, nothing is above the root, and the pages below any node are pages *)
(* of the document, each once.                                             *)
IsTree(kids) ==
    /\ Descends(kids)
    /\ \A b, c \in Branch : \A j \in DOMAIN kids[b], k \in DOMAIN kids[c] :
         kids[b][j] = kids[c][k] => b = c /\ j = k
    /\ \A b \in Branch : Root \notin ToSet(kids[b])
    /\ \A b \in Branch : ToSet(kids[b]) \cap Page \subseteq ToSet(Leaves(kids, Root))
    /\ IsInjective(Leaves(kids, Root))

-----------------------------------------------------------------------------
DocType ==
    [ kids : [Branch -> Seq(Branch \cup Page)], count : [Branch -> Nat],
      parent : [Page -> Branch \cup {None}], list : Seq(Page \cup {None}),
      trav : Seq([node : Branch, child : Nat \ {0}]), next : Nat ]

(* LoadPages: the page list gets its length; a linearized file also names  *)
(* the page to show first, any of them (0: it names none).                 *)
LoadPages(kids, first) ==
    LET n == Len(Leaves(kids, Root))
    IN  [ kids   |-> kids,
          count  |-> [b \in Branch |-> Len(Leaves(kids, b))],
          parent |-> [p \in Page |-> ParentOf(kids, p)],
          list   |-> [i \in 1..n |-> IF i = first
                                     THEN Leaves(kids, Root)[i] ELSE None],
          trav   |-> <<>>,
          next   |-> 0 ]

(* ResetTraversal.                                                         *)
ResetTraversalForgotten(d) == d                       \* fault: not reset
ResetTraversalStackOnly(d) == [d EXCEPT !.trav = <<>>]   \* fault: next kept
ResetTraversal(d) == [d EXCEPT !.trav = <<>>, !.next = 0]

-----------------------------------------------------------------------------
(* TraversePDFPages.  A walk w is [doc, unread, page index wanted, pages   *)
(* to go, page found]; children are counted from 1.  The stack is that of  *)
(* the calls as well: the innermost goes on at its child, and those around *)
(* it stand at the child they went into.                                   *)

AdvanceAt(trav, level) == [trav EXCEPT ![level].child = @ + 1]
NextChild(w) == [w EXCEPT !.doc.trav = AdvanceAt(@, Len(@))]

(* A child that cannot be read is a null pointer, and counts as one page.  *)
PassNull(w) == NextChild([w EXCEPT !.togo = @ - 1])

(* A leaf takes its place in page_list_.                                   *)
CountLeaf(w, leaf) ==
    NextChild([w EXCEPT !.doc.list[w.wanted - w.togo + 2] = leaf,
                        !.togo = @ - 1,
                        !.found = IF w.togo = 1 THEN leaf ELSE None])

Enter(w, kid) ==
    [w EXCEPT !.doc.trav = Append(@, [node |-> kid, child |-> 1])]

(* A node whose children have all been passed is left; the call around it  *)
(* goes on behind it.                                                      *)
Leave(w) ==
    [w EXCEPT !.doc.trav = IF Len(@) = 1 THEN <<>>
                           ELSE AdvanceAt(Front(@), Len(@) - 1)]

Turn(w) ==
    IF w.doc.trav = <<>> THEN w
    ELSE LET top  == Last(w.doc.trav)
             list == w.doc.kids[top.node]
         IN  IF top.child > Len(list) THEN Leave(w)
             ELSE IF w.togo = 0 THEN w
             ELSE LET kid == list[top.child]
                  IN  CASE kid \in w.unread -> PassNull(w)
                        [] kid \in Page \ w.unread -> CountLeaf(w, kid)
                        [] OTHER -> Enter(w, kid)

(* As many turns as there are nodes to enter and to leave or to pass.      *)
MaxTurns == 2 * Cardinality(Branch) + Cardinality(Page)

TraversePDFPages(w) ==
    LET after[n \in 0 .. MaxTurns] ==
          IF n = 0 THEN w ELSE Turn(after[n - 1])
    IN  IF w.togo < 0 THEN w ELSE after[MaxTurns]

(* GetPageDictionary(i): the document afterwards and the page found.       *)
GetPageDictionary(d, i, unread) ==
    IF d.list[i + 1] \notin {None} \cup unread
    THEN [doc |-> d, found |-> d.list[i + 1]]
    ELSE IF Root \in unread THEN [doc |-> d, found |-> None]
    ELSE LET ready == IF d.trav = <<>>
                      THEN [ResetTraversal(d) EXCEPT
                              !.trav = <<[node |-> Root, child |-> 1]>>]
                      ELSE d
             walk  == TraversePDFPages([doc |-> ready, unread |-> unread,
                                        wanted |-> i,
                                        togo |-> i - ready.next + 1,
                                        found |-> None])
         IN  [doc |-> [walk.doc EXCEPT !.next = i + 1], found |-> walk.found]

(* The same when everything can be read.                                   *)
Lookup(d, i) == GetPageDictionary(d, i, {})
=============================================================================
