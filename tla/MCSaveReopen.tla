---------------------------- MODULE MCSaveReopen ----------------------------
(***************************************************************************)
(* Small files for SaveReopen, each with one of the ways a file's          *)
(* cross-reference sections may be laid out or be damaged.                 *)
(***************************************************************************)
EXTENDS SaveReopen, TLC

CONSTANTS a, b
MCData == {a, b}
MCPaged == {a}
MCObjNums == 1..9

Cat(p, s)    == [pages |-> p, uses |-> s]
O(n, v)      == [kind |-> "obj", num |-> n, gen |-> 0, val |-> v, locked |-> FALSE]
Gen(o, g)    == [o EXCEPT !.gen = g]
Locked(o)    == [o EXCEPT !.locked = TRUE]
Stm(n, m)    == [kind |-> "objstm", num |-> n, gen |-> 0, members |-> m,
                 locked |-> FALSE]
N(p)         == [type |-> "normal", gen |-> 0, pos |-> p, archive |-> 0]
C(s)         == [type |-> "compressed", gen |-> 0, pos |-> 0, archive |-> s]
F(g)         == [type |-> "free", gen |-> g, pos |-> 0, archive |-> 0]
Tr(r, s, p)  == [root |-> r, size |-> s, prev |-> p, xrefstm |-> 0, enc |-> 0,
                 num |-> 0]
T(e, tr)     == [kind |-> "table", entries |-> e, trailer |-> tr]
X(n, e, tr)  == [kind |-> "stream", num |-> n, gen |-> 0, ok |-> TRUE, typed |-> TRUE,
                 entries |-> e, trailer |-> [tr EXCEPT !.num = n]]
End(p)       == [kind |-> "startxref", pos |-> p]

PlainTable ==
    << O(1, Cat(2, {2, 3})), O(2, a), O(3, b),
       T((1 :> N(1)) @@ (2 :> N(2)) @@ (3 :> N(3)), Tr(1, 4, 0)), End(4) >>

PlainStream ==
    << O(1, Cat(2, {2, 3})), Stm(4, (2 :> a) @@ (3 :> b)),
       X(5, (1 :> N(1)) @@ (2 :> C(4)) @@ (3 :> C(4)) @@ (4 :> N(2)),
         Tr(1, 6, 0)), End(3) >>

(* An update that hides object 3 from readers without streams.             *)
Hybrid ==
    << O(1, Cat(2, {2, 3})), O(2, a),
       T((1 :> N(1)) @@ (2 :> N(2)) @@ (3 :> F(0)), Tr(1, 4, 0)), End(3),
       Stm(4, 3 :> b), X(5, 3 :> C(4), Tr(0, 5, 0)),
       T((3 :> F(0)) @@ (4 :> N(5)), [Tr(1, 6, 3) EXCEPT !.xrefstm = 6]),
       End(7) >>

(* A stream after a table; object 2 is freed, and then used again.         *)
Reused ==
    << O(1, Cat(3, {2, 3})), O(2, b), O(3, a),
       T((1 :> N(1)) @@ (2 :> N(2)) @@ (3 :> N(3)), Tr(1, 4, 0)), End(4),
       O(1, Cat(3, {3})), X(4, (1 :> N(6)) @@ (2 :> F(1)), Tr(1, 5, 4)), End(7),
       O(1, Cat(3, {2, 3})), Gen(O(2, a), 1),
       X(4, (1 :> N(9)) @@ (2 :> [N(10) EXCEPT !.gen = 1]), Tr(1, 5, 7)),
       End(11) >>

(* Two updates with streams: a member becomes an object and an object a    *)
(* member.                                                                 *)
Streams ==
    << O(1, Cat(2, {2, 3})), Stm(4, 2 :> b), O(3, b),
       X(5, (1 :> N(1)) @@ (2 :> C(4)) @@ (3 :> N(3)) @@ (4 :> N(2)),
         Tr(1, 7, 0)), End(4),
       O(2, a), Stm(6, 3 :> a),
       X(5, (2 :> N(6)) @@ (3 :> C(6)) @@ (5 :> F(0)) @@ (6 :> N(7)),
         Tr(1, 7, 4)), End(8) >>

WrongPositions ==
    << O(1, Cat(2, {2, 3})), O(2, a), O(3, b),
       T((1 :> N(2)) @@ (2 :> N(3)) @@ (3 :> N(1)), Tr(1, 4, 0)), End(4) >>

(* The catalog is not where the newest section says it is.                 *)
WrongCatalog ==
    << O(3, Cat(1, {1, 2})), O(1, a), O(2, b),
       T((1 :> N(2)) @@ (2 :> N(3)) @@ (3 :> N(2)), Tr(3, 4, 0)), End(4) >>

(* The number of the catalog leads to what it was before the catalog.      *)
OlderCatalog ==
    << O(1, a), O(1, Cat(2, {2})), O(2, a),
       T((1 :> N(1)) @@ (2 :> N(3)), Tr(1, 3, 0)), End(4) >>

(* A catalog that refers to itself.                                        *)
SelfCatalog ==
    << O(1, Cat(2, {1, 2})), O(2, a), T((1 :> N(1)) @@ (2 :> N(2)), Tr(1, 3, 0)), End(3) >>

CircularPrev ==
    << O(1, Cat(2, {2})), O(2, a),
       T((1 :> N(1)) @@ (2 :> N(2)), Tr(1, 3, 5)), End(3),
       T(1 :> N(1), Tr(1, 3, 3)), End(5) >>

BadStream ==
    << O(1, Cat(2, {2})), Stm(3, 2 :> a), [X(4, 1 :> N(1), Tr(1, 5, 0)) EXCEPT !.ok = FALSE],
       End(3) >>

BadOlderStream ==
    << O(1, Cat(2, {2})), [X(4, 1 :> N(1), Tr(1, 5, 0)) EXCEPT !.ok = FALSE], O(2, a),
       T((1 :> N(1)) @@ (2 :> N(3)), Tr(1, 5, 2)), End(4) >>

BadPrev ==
    << O(1, Cat(2, {2})), O(2, a), T((1 :> N(1)) @@ (2 :> N(2)), Tr(1, 3, 1)), End(3) >>

NoSection == << O(1, Cat(2, {2})), O(2, a), T(1 :> N(1), Tr(1, 3, 0)) >>
BadStart  == << O(1, Cat(2, {2})), O(2, a), T(1 :> N(1), Tr(1, 3, 0)), End(1) >>
NoTrailerAtAll == << O(1, Cat(2, {2})), O(2, a) >>
BadXRefStm == << O(1, Cat(2, {2})), O(2, a), T((1 :> N(1)) @@ (2 :> N(2)), Tr(1, 3, 0)),
                 End(3), T(2 :> N(2), [Tr(1, 3, 3) EXCEPT !.xrefstm = 1]), End(5) >>

BadXRefStmEntries ==
    << O(1, Cat(2, {2})), O(2, a), T((1 :> N(1)) @@ (2 :> N(2)), Tr(1, 3, 0)), End(3),
       [X(4, 1 :> N(1), Tr(0, 5, 0)) EXCEPT !.ok = FALSE],
       T(2 :> N(2), [Tr(1, 5, 3) EXCEPT !.xrefstm = 5]), End(6) >>

(* The root of the page tree has no pages: the table is rebuilt; then the  *)
(* file is refused if it had been rebuilt before.                          *)
NoPages ==
    << O(1, Cat(2, {2, 3})), O(2, b), O(3, a),
       T((1 :> N(1)) @@ (2 :> N(2)) @@ (3 :> N(3)), Tr(1, 4, 0)), End(4) >>
NoPagesLeft ==
    << O(1, Cat(2, {2})), O(2, a), O(2, b), T(1 :> N(1), Tr(1, 3, 0)) >>

(* Streams that list themselves: they are objects of the document.         *)
OwnStream ==
    << O(1, Cat(2, {2})), O(2, a),
       X(3, (1 :> N(1)) @@ (2 :> N(2)) @@ (3 :> N(3)), Tr(1, 4, 0)), End(3) >>
OwnEncryptedStream ==
    << O(1, Cat(2, {2, 3})), O(2, a), Locked(O(3, b)),
       X(4, (1 :> N(1)) @@ (2 :> N(2)) @@ (3 :> N(3)) @@ (4 :> N(4)),
         [Tr(1, 5, 0) EXCEPT !.enc = -1]), End(4) >>

(* The encryption dictionary is in the trailer.                            *)
Encrypted ==
    << O(1, Cat(2, {2, 3})), Locked(O(2, a)), Locked(O(3, b)),
       T((1 :> N(1)) @@ (2 :> N(2)) @@ (3 :> N(3)), [Tr(1, 4, 0) EXCEPT !.enc = -1]),
       End(4) >>
EncryptedByObject ==
    << O(1, Cat(2, {2, 4})), Locked(O(2, a)), O(3, EncDict), Locked(O(4, b)),
       T((1 :> N(1)) @@ (2 :> N(2)) @@ (3 :> N(3)) @@ (4 :> N(4)),
         [Tr(1, 5, 0) EXCEPT !.enc = 3]), End(5) >>
EncryptedStream ==
    << O(1, Cat(2, {2})), [Stm(3, 2 :> a) EXCEPT !.locked = TRUE],
       X(4, (1 :> N(1)) @@ (2 :> C(3)) @@ (3 :> N(2)),
         [Tr(1, 5, 0) EXCEPT !.enc = -1]), End(3) >>

(* Two objects suffice where a copy is saved and opened a second time.     *)
SmallTable ==
    << O(1, Cat(2, {2})), O(2, a), T((1 :> N(1)) @@ (2 :> N(2)), Tr(1, 3, 0)), End(3) >>

MCFiles == { SmallTable, Encrypted }

MCOnceFiles == { PlainTable, PlainStream, Hybrid, Reused, WrongPositions, WrongCatalog,
                 OlderCatalog, EncryptedByObject, SelfCatalog,
                 CircularPrev, BadStream, BadOlderStream, BadPrev, NoSection,
                 BadStart, NoTrailerAtAll, BadXRefStm, BadXRefStmEntries,
                 EncryptedStream, Streams, NoPages, NoPagesLeft, OwnStream,
                 OwnEncryptedStream }

MCGenerationFile == { Reused }
MCNoFile == {}
=============================================================================
