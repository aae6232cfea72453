------------------------------ MODULE PageSeq ------------------------------
(***************************************************************************)
(* What the page operations of the public interface promise: a document is *)
(* a sequence of pages.  FPDFPage_New inserts, FPDFPage_Delete removes,    *)
(* FPDF_MovePages takes some pages out and puts them back, in the given    *)
(* order, at a new index; FPDF_LoadPage and FPDFDest_GetDestPageIndex look *)
(* pages up by index and indices up by page.  Indices start at 0.          *)
(***************************************************************************)
EXTENDS Integers, Sequences, SequencesExt, FiniteSets

CONSTANTS Page,     \* every page there can ever be
          MoveMax   \* bound on the pages moved at once
VARIABLES pages,    \* the document
          answer    \* what the last operation returned

vars == <<pages, answer>>

Done(ok)   == [op |-> "done", ok |-> ok]
PageIs(p)  == [op |-> "page", page |-> p]
IndexIs(i) == [op |-> "index", index |-> i]

Index(s) == 0 .. Len(s) - 1

(* The nth smallest number of a set.                                       *)
Nth(S, n) == CHOOSE x \in S : Cardinality({y \in S : y < x}) = n - 1

(* s without the pages at the given indices.                               *)
Without(s, indices) ==
    LET kept == Index(s) \ indices
    IN  [k \in 1 .. Cardinality(kept) |-> s[Nth(kept, k) + 1]]

(* The pages at these indices, in this order, moved to index dest of what  *)
(* remains.                                                                *)
Moved(s, indices, dest) ==
    LET rest == Without(s, ToSet(indices))
    IN  SubSeq(rest, 1, dest)
        \o [k \in DOMAIN indices |-> s[indices[k] + 1]]
        \o SubSeq(rest, dest + 1, Len(rest))

CanMove(s, indices, dest) ==
    /\ indices # <<>> /\ ToSet(indices) \subseteq Index(s)
    /\ IsInjective(indices)
    /\ dest \in 0 .. Len(s) - Len(indices)

Insert(i, p) ==
    /\ i \in 0 .. Len(pages) /\ p \notin ToSet(pages)
    /\ answer' = PageIs(p)
    /\ pages' = InsertAt(pages, i + 1, p)

Delete(i) ==
    /\ i \in Index(pages)
    /\ answer' = Done(TRUE)
    /\ pages' = RemoveAt(pages, i + 1)

Move(indices, dest) ==
    /\ answer' = Done(CanMove(pages, indices, dest))
    /\ pages' = IF CanMove(pages, indices, dest)
                THEN Moved(pages, indices, dest) ELSE pages

PageAt(i) ==
    /\ i \in Index(pages)
    /\ answer' = PageIs(pages[i + 1])
    /\ UNCHANGED pages

IndexOf(p) ==
    /\ \E i \in Index(pages) : pages[i + 1] = p /\ answer' = IndexIs(i)
    /\ UNCHANGED pages

Init == pages \in Seq(Page) /\ IsInjective(pages) /\ answer = Done(TRUE)

Next ==
    \/ \E i \in 0 .. Len(pages), p \in Page : Insert(i, p)
    \/ \E i \in Index(pages) : Delete(i) \/ PageAt(i)
    \/ \E indices \in UNION {[1..n -> Index(pages)] : n \in 1..MoveMax},
         dest \in 0 .. Len(pages) : Move(indices, dest)
    \/ \E p \in Page : IndexOf(p)

Spec == Init /\ [][Next]_vars
=============================================================================
