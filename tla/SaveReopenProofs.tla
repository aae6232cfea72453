-------------------------- MODULE SaveReopenProofs --------------------------
(***************************************************************************)
(* What opening, editing, saving and opening again comes to, whatever the  *)
(* first file is: every copy is a file that the parser takes, so that what *)
(* is proved of the loading of a file holds for every copy of it as well,  *)
(* and an open document changes only by its edits. Then the round trip: a  *)
(* document opened from a full copy shows what the one that was saved did, *)
(* whatever was read, edited and saved before.                             *)
(***************************************************************************)
EXTENDS SaveReopen, CrossRefLoadProofs, SequenceTheorems

-----------------------------------------------------------------------------
(* What makes a sequence of items a file.                                  *)
LEMMA SequenceIsFile ==
    ASSUME NEW S, NEW b \in Seq(S), \A p \in DOMAIN b : IsItem(b[p])
    PROVE  IsFile(b)
<1>1. b \in Seq({b[p] : p \in DOMAIN b})
  <2>1. /\ Len(b) \in Nat /\ DOMAIN b = 1 .. Len(b)
        /\ \A i \in 1 .. Len(b) : b[i] \in {b[p] : p \in DOMAIN b}
        /\ b = [i \in 1 .. Len(b) |-> b[i]]
    OBVIOUS
  <2>2. b \in [1 .. Len(b) -> {b[p] : p \in DOMAIN b}]
    BY <2>1
  <2> QED BY <2>1, <2>2, SeqDef
<1> QED BY <1>1 DEF IsFile

LEMMA FunctionIsFile ==
    ASSUME NEW k \in Nat, NEW f, f = [i \in 1 .. k |-> f[i]],
           \A i \in 1 .. k : IsItem(f[i])
    PROVE  IsFile(f) /\ Len(f) = k /\ DOMAIN f = 1 .. k
<1>1. DOMAIN f = 1 .. k
  OBVIOUS
<1>2. f \in Seq({f[i] : i \in 1 .. k})
  <2>1. f \in [1 .. k -> {f[i] : i \in 1 .. k}]
    OBVIOUS
  <2> QED BY <2>1, SeqDef
<1>3. Len(f) = k
  BY <1>1, <1>2
<1> QED BY <1>1, <1>2, <1>3, SequenceIsFile

LEMMA ConcatIsFile ==
    ASSUME NEW b, IsFile(b), NEW c, IsFile(c)
    PROVE  IsFile(b \o c) /\ Len(b \o c) = Len(b) + Len(c) /\ Len(b) \in Nat
<1> DEFINE S == {b[p] : p \in DOMAIN b} \cup {c[p] : p \in DOMAIN c}
<1>1. b \in Seq(S) /\ c \in Seq(S)
  <2>1. b \in Seq({b[p] : p \in DOMAIN b}) /\ c \in Seq({c[p] : p \in DOMAIN c})
    BY DEF IsFile
  <2> QED BY <2>1
<1>2. \A s \in S : IsItem(s)
  BY DEF IsFile
<1> HIDE DEF S
<1>3. b \o c \in Seq(S) /\ Len(b \o c) = Len(b) + Len(c) /\ Len(b) \in Nat
  BY <1>1
<1>4. \A p \in DOMAIN (b \o c) : (b \o c)[p] \in S
  BY <1>3
<1> QED BY <1>2, <1>3, <1>4, SequenceIsFile

LEMMA PartIsFile ==
    ASSUME NEW b, IsFile(b), NEW k \in 0 .. Len(b)
    PROVE  IsFile(SubSeq(b, 1, k))
<1> DEFINE S == {b[p] : p \in DOMAIN b}
<1>1. b \in Seq(S) /\ \A s \in S : IsItem(s)
  BY DEF IsFile
<1> HIDE DEF S
<1>2. SubSeq(b, 1, k) \in Seq(S)
  BY <1>1
<1>3. \A p \in DOMAIN SubSeq(b, 1, k) : SubSeq(b, 1, k)[p] \in S
  BY <1>2
<1> QED BY <1>1, <1>2, <1>3, SequenceIsFile

LEMMA ShortFiles ==
    /\ IsFile(<<>>)
    /\ \A x : IsItem(x) => IsFile(<<x>>)
    /\ \A x, y : IsItem(x) /\ IsItem(y) => IsFile(<<x, y>>)
<1>1. IsFile(<<>>)
  <2>1. <<>> \in Seq({}) /\ DOMAIN <<>> = {}
    OBVIOUS
  <2> QED BY <2>1, SequenceIsFile
<1>2. ASSUME NEW x, IsItem(x)
      PROVE  IsFile(<<x>>)
  <2>1. <<x>> \in Seq({x}) /\ \A p \in DOMAIN <<x>> : <<x>>[p] = x
    OBVIOUS
  <2> QED BY <1>2, <2>1, SequenceIsFile
<1>3. ASSUME NEW x, NEW y, IsItem(x), IsItem(y)
      PROVE  IsFile(<<x, y>>)
  <2>1. /\ <<x, y>> \in Seq({x, y})
        /\ \A p \in DOMAIN <<x, y>> : <<x, y>>[p] \in {x, y}
    OBVIOUS
  <2> QED BY <1>3, <2>1, SequenceIsFile
<1> QED BY <1>1, <1>2, <1>3

-----------------------------------------------------------------------------
(* The numbers of a finite set in their order.                             *)
LEMMA RankFacts ==
    ASSUME NEW S \in SUBSET Nat, IsFiniteSet(S), NEW i \in 1 .. Cardinality(S)
    PROVE  \E n \in S : Cardinality({m \in S : m < n}) = i - 1
<1> DEFINE Below(n) == {m \in S : m < n}
           T == 0 .. (Cardinality(S) - 1)
           rank == [n \in S |-> Cardinality(Below(n))]
<1>0. Cardinality(S) \in Nat /\ Cardinality(S) > 0
  BY FS_CardinalityType
<1>1. \A n \in S : /\ IsFiniteSet(Below(n)) /\ Cardinality(Below(n)) \in Nat
                   /\ Cardinality(Below(n)) < Cardinality(S)
  <2> SUFFICES ASSUME NEW n \in S
               PROVE  /\ IsFiniteSet(Below(n)) /\ Cardinality(Below(n)) \in Nat
                      /\ Cardinality(Below(n)) < Cardinality(S)
    OBVIOUS
  <2>1. Below(n) \subseteq S /\ Below(n) # S
    OBVIOUS
  <2> HIDE DEF Below
  <2>2. /\ IsFiniteSet(Below(n)) /\ Cardinality(Below(n)) <= Cardinality(S)
        /\ Cardinality(Below(n)) = Cardinality(S) => Below(n) = S
    BY <2>1, FS_Subset
  <2> QED BY <2>1, <2>2, FS_CardinalityType
<1>2. \A m, n \in S : m < n => Cardinality(Below(m)) < Cardinality(Below(n))
  <2> SUFFICES ASSUME NEW m \in S, NEW n \in S, m < n
               PROVE  Cardinality(Below(m)) < Cardinality(Below(n))
    OBVIOUS
  <2>0. S \subseteq Nat /\ m \in Nat /\ n \in Nat
    OBVIOUS
  <2>1. Below(m) \subseteq Below(n) /\ m \in Below(n) /\ m \notin Below(m)
    <3>1. \A x \in Nat : x < m => x < n
      BY <2>0
    <3>2. ~(m < m)
      BY <2>0
    <3> QED BY <2>0, <3>1, <3>2, Zenon
  <2>2. IsFiniteSet(Below(n)) /\ Cardinality(Below(m)) \in Nat
        /\ Cardinality(Below(n)) \in Nat
    BY <1>1
  <2> HIDE DEF Below
  <2>3. /\ Cardinality(Below(m)) <= Cardinality(Below(n))
        /\ Cardinality(Below(m)) = Cardinality(Below(n)) => Below(m) = Below(n)
    BY <2>1, <2>2, FS_Subset
  <2> QED BY <2>1, <2>2, <2>3
<1> HIDE DEF Below
<1>3. IsFiniteSet(T) /\ Cardinality(T) = Cardinality(S)
  <2>1. PICK k \in Int : k = Cardinality(S) - 1
    BY <1>0
  <2>2. IsFiniteSet(0 .. k) /\ Cardinality(0 .. k) = k - 0 + 1
    BY <1>0, <2>1, FS_Interval
  <2> QED BY <1>0, <2>1, <2>2
<1>4. rank \in [S -> T]
  BY <1>0, <1>1
<1>5. \A m, n \in S : rank[m] = rank[n] => m = n
  <2> SUFFICES ASSUME NEW m \in S, NEW n \in S, m # n
               PROVE  rank[m] # rank[n]
    OBVIOUS
  <2>1. m < n \/ n < m
    OBVIOUS
  <2>2. Cardinality(Below(m)) \in Nat /\ Cardinality(Below(n)) \in Nat
    BY <1>1
  <2> QED BY <1>2, <2>1, <2>2
<1>6. rank \in Injection(S, T)
  BY <1>4, <1>5 DEF Injection, IsInjective
<1> HIDE DEF T, rank
<1>7. rank \in Surjection(S, T)
  BY <1>3, <1>6, FS_Injection
<1>8. i - 1 \in T
  BY <1>0 DEF T
<1>9. \E n \in S : rank[n] = i - 1
  BY <1>7, <1>8 DEF Surjection
<1> QED BY <1>9 DEF rank, Below

LEMMA SortedFacts ==
    ASSUME NEW S \in SUBSET Nat, IsFiniteSet(S)
    PROVE  /\ Sorted(S) \in Seq(S) /\ DOMAIN Sorted(S) = 1 .. Len(Sorted(S))
           /\ Len(Sorted(S)) \in Nat
           /\ \A i \in DOMAIN Sorted(S) : Sorted(S)[i] \in S
<1> DEFINE k == Cardinality(S)
<1>1. k \in Nat
  BY FS_CardinalityType
<1>2. \A i \in 1 .. k :
        (CHOOSE n \in S : Cardinality({m \in S : m < n}) = i - 1) \in S
  BY RankFacts
<1> HIDE DEF k
<1>3. Sorted(S) \in [1 .. k -> S]
  BY <1>2 DEF Sorted, k
<1>4. Sorted(S) \in Seq(S)
  BY <1>1, <1>3, SeqDef
<1> QED BY <1>4

LEMMA MaxOfFacts ==
    ASSUME NEW S \in SUBSET Nat, IsFiniteSet(S)
    PROVE  MaxOf(S) \in Nat /\ \A m \in S : m <= MaxOf(S)
BY LastNumber DEF MaxOf

-----------------------------------------------------------------------------
(* What a copy is made of.                                                 *)
LEMMA OffsetsFacts ==
    ASSUME NEW S \in SUBSET Nat, IsFiniteSet(S), NEW ns \in Seq(S), NEW len \in Nat
    PROVE  /\ DOMAIN Offsets(ns, len) \in SUBSET S
           /\ \A n \in DOMAIN Offsets(ns, len) : Offsets(ns, len)[n] \in Nat
<1>1. DOMAIN Offsets(ns, len) = {ns[i] : i \in DOMAIN ns}
  BY DEF Offsets
<1>2. \A i \in DOMAIN ns : ns[i] \in S /\ i \in Nat
  OBVIOUS
<1>3. ASSUME NEW n \in DOMAIN Offsets(ns, len)
      PROVE  Offsets(ns, len)[n] \in Nat
  <2>1. \E i \in DOMAIN ns : ns[i] = n
    BY <1>1, <1>3
  <2>2. (CHOOSE i \in DOMAIN ns : ns[i] = n) \in DOMAIN ns
    BY <2>1
  <2>3. Offsets(ns, len)[n] = len + CHOOSE i \in DOMAIN ns : ns[i] = n
    BY <1>1, <1>3 DEF Offsets
  <2> QED BY <1>2, <2>2, <2>3
<1> QED BY <1>1, <1>2, <1>3

(* Where objects are, as a section of a file gives it.                     *)
IsOffsets(off) ==
    /\ DOMAIN off \in SUBSET Nat /\ IsFiniteSet(DOMAIN off)
    /\ \A n \in DOMAIN off : off[n] \in Nat

LEMMA EntriesFacts ==
    ASSUME NEW off, IsOffsets(off)
    PROVE  /\ DOMAIN Entries(off) \subseteq Nat /\ IsFiniteSet(DOMAIN Entries(off))
           /\ \A n \in DOMAIN Entries(off) : /\ Entries(off)[n] \in Entry
                                            /\ Entries(off)[n].type # "compressed"
BY DEF Entries, NormalEntry, Entry, IsOffsets

LEMMA SectionIsItem ==
    ASSUME NEW off, IsOffsets(off), NEW tr \in Trailer, NEW num \in Nat,
           NEW kind \in {"table", "stream"},
           tr.num = IF kind = "stream" THEN num ELSE 0
    PROVE  /\ kind = "table" =>
                IsItem([kind |-> "table", entries |-> Entries(off), trailer |-> tr])
           /\ IsItem([kind |-> kind, num |-> num, gen |-> 0, ok |-> TRUE,
                      typed |-> FALSE, entries |-> Entries(off), trailer |-> tr])
BY EntriesFacts DEF IsItem, Numbered

LEMMA ObjectIsItem ==
    ASSUME NEW n \in Nat, NEW val \in Value, NEW locked \in BOOLEAN
    PROVE  IsItem([kind |-> "obj", num |-> n, gen |-> 0, val |-> val,
                   locked |-> locked])
BY DEF IsItem, Numbered

LEMMA WrittenIsItem ==
    ASSUME NEW n \in Nat, Got(n) \in Value, NEW crypt \in BOOLEAN
    PROVE  IsItem(Written(n, crypt))
BY ObjectIsItem DEF Written

(* An old section is an item of the file still.                            *)
LEMMA OldSectionIsItem ==
    ASSUME FileOK, NEW n, IsOldSection(n)
    PROVE  IsItem([At(table[n].pos) EXCEPT !.gen = 0])
<1>1. IsItem(At(table[n].pos))
  BY ItemFacts DEF IsOldSection, Is
<1> QED BY <1>1 DEF IsItem, Numbered, IsOldSection, Is

LEMMA OthersAreItems ==
    /\ \A n \in Nat : IsItem(EncItem(n)) /\ IsItem(StartXRefItem(n))
    /\ \A n \in Nat : IsItem([kind |-> "torn", num |-> n, gen |-> 0])
BY ObjectIsItem DEF EncItem, StartXRefItem, IsItem, Numbered, Value

-----------------------------------------------------------------------------
(* A document is in memory in part, and its numbers go up to lastObj.      *)
DocInv ==
    /\ IsFile(copy) /\ lastObj \in Nat
    /\ edits \in 0 .. MaxEdits /\ saves \in 0 .. MaxSaves
    /\ pc \notin {"encrypt", "root", "scan", "open", "failed"} => DOMAIN mem = {}
    /\ pc # "open" => DOMAIN mem \subseteq DOMAIN table
    /\ pc = "open" => /\ trailer.root \in DOMAIN mem /\ IsCatalog(mem[trailer.root])
                      /\ \A n \in DOMAIN mem \cup DOMAIN table : n <= lastObj

(* A full copy is a file.                                                  *)
LEMMA FullCopyIsFile ==
    ASSUME LoadInv, DocInv, pc = "open", NEW crypt \in BOOLEAN
    PROVE  IsFile(FullCopy(crypt))
<1> DEFINE ns == Sorted(OldWritten) \o Sorted(NewObjs)
           withEnc == IF InlineEnc(crypt) THEN Append(ns, FullLast + 1) ELSE ns
           last == IF InlineEnc(crypt) THEN FullLast + 1 ELSE FullLast
           objs == [i \in DOMAIN withEnc |->
                      IF i \in DOMAIN ns THEN WrittenAgain(ns[i], crypt)
                      ELSE EncItem(withEnc[i])]
           offsets == Offsets(withEnc, 0)
           listed == [n \in {m \in DOMAIN offsets : m <= last} |-> offsets[n]]
           tr == [root |-> trailer.root, size |-> last + 1, prev |-> 0,
                  xrefstm |-> 0, enc |-> EncNumber(crypt), num |-> 0]
           xref == [kind |-> "table", entries |-> Entries(listed), trailer |-> tr]
           D == ObjNums \cup {trailer.num}
<1>1. /\ FileOK /\ StreamsTyped /\ MemTyped /\ trailer \in Trailer /\ lastObj \in Nat
  BY DEF LoadInv, Typed, DocInv
<1>2. \A n \in OldWritten \cup NewObjs :
        \/ Got(n) \in Value
        \/ n \in OldWritten /\ Got(n) = Null /\ IsOldSection(n)
  BY <1>1, GotFacts DEF OldWritten, NewObjs, MemTyped, Got
<1>3. D \in SUBSET Nat /\ IsFiniteSet(D)
  BY <1>1, FS_AddElement, SaveAssumption, LoadAssumption DEF Trailer
<1>4. OldObjs \in SUBSET D /\ OldWritten \in SUBSET D /\ NewObjs \in SUBSET D
  BY <1>1, GotFacts DEF OldObjs, OldWritten, Referenced, Present, NewObjs, MemTyped
<1> HIDE DEF D
<1>5. /\ IsFiniteSet(OldObjs) /\ IsFiniteSet(OldWritten) /\ IsFiniteSet(NewObjs)
      /\ OldObjs \in SUBSET Nat /\ OldWritten \in SUBSET Nat
      /\ NewObjs \in SUBSET Nat
  BY <1>3, <1>4, FS_Subset
<1>6. FullLast \in Nat
  BY <1>1, <1>5, MaxOfFacts DEF FullLast
<1>7. /\ ns \in Seq(OldWritten \cup NewObjs) /\ ns \in Seq(D) /\ Len(ns) \in Nat
      /\ DOMAIN ns = 1 .. Len(ns) /\ \A i \in DOMAIN ns : ns[i] \in OldWritten \cup NewObjs
  <2>1. Sorted(OldWritten) \in Seq(OldWritten) /\ Sorted(NewObjs) \in Seq(NewObjs)
    BY <1>5, SortedFacts
  <2> DEFINE W == OldWritten \cup NewObjs
  <2>2. Sorted(OldWritten) \in Seq(W) /\ Sorted(NewObjs) \in Seq(W)
    BY <2>1, SeqMonotonic
  <2>3. W \in SUBSET D
    BY <1>4
  <2> HIDE DEF W
  <2>4. ns \in Seq(W) /\ Len(ns) \in Nat /\ DOMAIN ns = 1 .. Len(ns)
        /\ \A i \in DOMAIN ns : ns[i] \in W
    BY <2>2
  <2>5. ns \in Seq(D)
    BY <2>3, <2>4, SeqMonotonic
  <2> QED BY <2>4, <2>5 DEF W
<1> HIDE DEF ns
<1> DEFINE S == D \cup {FullLast + 1}
<1>8. S \in SUBSET Nat /\ IsFiniteSet(S)
  BY <1>3, <1>6, FS_AddElement
<1>9. /\ withEnc \in Seq(S) /\ Len(withEnc) \in Nat
      /\ DOMAIN withEnc = 1 .. Len(withEnc)
      /\ \A i \in DOMAIN withEnc : withEnc[i] \in S
  <2>1. ns \in Seq(S) /\ FullLast + 1 \in S
    BY <1>7
  <2> HIDE DEF S
  <2>2. withEnc \in Seq(S)
    BY <2>1
  <2> QED BY <2>2
<1> HIDE DEF withEnc, S
<1>10. IsFile(objs) /\ Len(objs) \in Nat
  <2>1. \A i \in DOMAIN withEnc : IsItem(objs[i])
    <3> SUFFICES ASSUME NEW i \in DOMAIN withEnc
                 PROVE  IsItem(objs[i])
      OBVIOUS
    <3>1. CASE i \in DOMAIN ns
      <4>1. ns[i] \in OldWritten \cup NewObjs /\ ns[i] \in Nat
        BY <1>5, <1>7, <3>1
      <4>2. CASE Got(ns[i]) \in Value
        <5>1. WrittenAgain(ns[i], crypt) = Written(ns[i], crypt)
          BY <4>2, LoadAssumption, CatalogAssumption DEF WrittenAgain, Value
        <5> QED BY <3>1, <4>1, <4>2, <5>1, WrittenIsItem
      <4>3. CASE Got(ns[i]) = Null /\ IsOldSection(ns[i])
        <5>1. WrittenAgain(ns[i], crypt) = [At(table[ns[i]].pos) EXCEPT !.gen = 0]
          BY <4>3 DEF WrittenAgain
        <5> QED BY <1>1, <3>1, <4>3, <5>1, OldSectionIsItem
      <4> QED BY <1>2, <4>1, <4>2, <4>3
    <3>2. CASE i \notin DOMAIN ns
      <4>1. withEnc[i] \in Nat
        BY <1>8, <1>9
      <4> QED BY <3>2, <4>1, OthersAreItems
    <3> QED BY <3>1, <3>2
  <2>2. objs = [i \in 1 .. Len(withEnc) |-> objs[i]]
    BY <1>9
  <2> HIDE DEF objs
  <2> QED BY <1>9, <2>1, <2>2, FunctionIsFile
<1> HIDE DEF objs
<1>11. IsOffsets(listed)
  <2>1. /\ DOMAIN offsets \in SUBSET S
        /\ \A n \in DOMAIN offsets : offsets[n] \in Nat
    BY <1>8, <1>9, OffsetsFacts
  <2> HIDE DEF offsets
  <2>2. DOMAIN listed \in SUBSET S
    BY <2>1
  <2>3. IsFiniteSet(DOMAIN listed)
    BY <1>8, <2>2, FS_Subset
  <2> QED BY <1>8, <2>1, <2>2, <2>3 DEF IsOffsets
<1> HIDE DEF listed
<1>12. last \in Nat
  BY <1>6
<1> HIDE DEF last
<1>13. EncNumber(crypt) \in Int
  BY <1>1 DEF EncNumber, Trailer
<1>14. tr \in Trailer /\ tr.num = 0
  BY <1>1, <1>12, <1>13 DEF Trailer
<1> HIDE DEF tr
<1>15. IsItem(xref)
  BY <1>11, <1>14, SectionIsItem
<1> HIDE DEF xref
<1>16. IsFile(<<xref, StartXRefItem(Len(objs) + 1)>>)
  BY <1>10, <1>15, OthersAreItems, ShortFiles
<1>17. IsFile(objs \o <<xref, StartXRefItem(Len(objs) + 1)>>)
  BY <1>10, <1>16, ConcatIsFile
<1> QED BY <1>17 DEF FullCopy, objs, xref, listed, last, withEnc, ns, tr

(* So is what is appended to a file, behind what was there.                *)
LEMMA IncrementalCopyIsFile ==
    ASSUME LoadInv, DocInv, pc = "open"
    PROVE  /\ IsFile(IncrementalCopy) /\ Len(file) \in Nat
           /\ Len(IncrementalCopy) \in Nat
<1> DEFINE crypt == handler
           ns == Sorted(DOMAIN mem)
           withEnc == IF InlineEnc(crypt) THEN Append(ns, lastObj + 1) ELSE ns
           last == IF InlineEnc(crypt) THEN lastObj + 1 ELSE lastObj
           objs == [i \in DOMAIN withEnc |->
                      IF i \in DOMAIN ns THEN Written(ns[i], crypt)
                      ELSE EncItem(withEnc[i])]
           new == Offsets(withEnc, Len(file))
           all == [n \in DOMAIN OldOffsets \cup DOMAIN new |->
                     IF n \in DOMAIN new THEN new[n] ELSE OldOffsets[n]]
           listed == IF lastXRef # 0 THEN new
                     ELSE [n \in {m \in DOMAIN all :
                             IF xrefStream THEN m < last ELSE m <= last} |-> all[n]]
           tr == [root |-> trailer.root,
                  size |-> last + (IF xrefStream THEN 2 ELSE 1),
                  prev |-> lastXRef, xrefstm |-> 0, enc |-> EncNumber(crypt),
                  num |-> IF xrefStream THEN lastObj + 1 ELSE 0]
           xref == [kind |-> IF xrefStream THEN "stream" ELSE "table",
                    num |-> lastObj + 1, gen |-> 0, ok |-> TRUE, typed |-> FALSE,
                    entries |-> Entries(listed), trailer |-> tr]
           end == StartXRefItem(Len(file) + Len(objs) + 1)
<1>1. /\ FileOK /\ MemTyped /\ trailer \in Trailer /\ lastObj \in Nat
      /\ handler \in BOOLEAN /\ lastXRef \in Nat /\ IsTable(table)
  BY DEF LoadInv, Typed, DocInv
<1>2. IsFile(file) /\ Len(file) \in Nat
  BY <1>1 DEF FileOK, IsFile
<1>3. DOMAIN mem \in SUBSET Nat /\ IsFiniteSet(DOMAIN mem)
  <2>1. DOMAIN mem \in SUBSET ObjNums
    BY <1>1 DEF MemTyped
  <2> QED BY <2>1, FS_Subset, SaveAssumption, LoadAssumption
<1>4. /\ ns \in Seq(DOMAIN mem) /\ Len(ns) \in Nat /\ DOMAIN ns = 1 .. Len(ns)
      /\ \A i \in DOMAIN ns : ns[i] \in DOMAIN mem
  BY <1>3, SortedFacts
<1> HIDE DEF ns
<1> DEFINE S == DOMAIN mem \cup {lastObj + 1}
<1>5. S \in SUBSET Nat /\ IsFiniteSet(S)
  BY <1>1, <1>3, FS_AddElement
<1>6. /\ withEnc \in Seq(S) /\ Len(withEnc) \in Nat
      /\ DOMAIN withEnc = 1 .. Len(withEnc)
      /\ \A i \in DOMAIN withEnc : withEnc[i] \in S
  <2>1. ns \in Seq(S) /\ lastObj + 1 \in S
    BY <1>4, SeqMonotonic
  <2> HIDE DEF S
  <2>2. withEnc \in Seq(S)
    BY <2>1
  <2> QED BY <2>2
<1> HIDE DEF withEnc, S
<1>7. IsFile(objs) /\ Len(objs) \in Nat
  <2>1. \A i \in DOMAIN withEnc : IsItem(objs[i])
    <3> SUFFICES ASSUME NEW i \in DOMAIN withEnc
                 PROVE  IsItem(objs[i])
      OBVIOUS
    <3>1. CASE i \in DOMAIN ns
      <4>1. ns[i] \in Nat /\ Got(ns[i]) \in Value
        BY <1>1, <1>3, <1>4, <3>1 DEF MemTyped, Got
      <4> QED BY <1>1, <3>1, <4>1, WrittenIsItem
    <3>2. CASE i \notin DOMAIN ns
      <4>1. withEnc[i] \in Nat
        BY <1>5, <1>6
      <4> QED BY <3>2, <4>1, OthersAreItems
    <3> QED BY <3>1, <3>2
  <2>2. objs = [i \in 1 .. Len(withEnc) |-> objs[i]]
    BY <1>6
  <2> HIDE DEF objs
  <2> QED BY <1>6, <2>1, <2>2, FunctionIsFile
<1> HIDE DEF objs
<1>8. /\ DOMAIN new \in SUBSET S
      /\ \A n \in DOMAIN new : new[n] \in Nat
  BY <1>2, <1>5, <1>6, OffsetsFacts
<1> HIDE DEF new
<1>9. IsOffsets(new)
  BY <1>5, <1>8, FS_Subset DEF IsOffsets
<1>10. IsOffsets(all)
  <2>1. DOMAIN table \in SUBSET Nat /\ IsFiniteSet(DOMAIN table)
    BY <1>1 DEF IsTable
  <2>2. /\ DOMAIN OldOffsets \in SUBSET DOMAIN table
        /\ \A n \in DOMAIN OldOffsets : OldOffsets[n] \in Nat
    BY <1>1 DEF OldOffsets, IsTable, ObjectInfo
  <2>3. IsFiniteSet(DOMAIN OldOffsets)
    BY <2>1, <2>2, FS_Subset
  <2>4. IsFiniteSet(DOMAIN OldOffsets \cup DOMAIN new)
    BY <1>9, <2>3, FS_Union DEF IsOffsets
  <2>5. DOMAIN all = DOMAIN OldOffsets \cup DOMAIN new
    OBVIOUS
  <2>6. \A n \in DOMAIN all : all[n] \in Nat
    BY <1>9, <2>2 DEF IsOffsets
  <2> HIDE DEF all
  <2> QED BY <1>9, <2>1, <2>2, <2>4, <2>5, <2>6 DEF IsOffsets
<1> HIDE DEF all
<1>11. IsOffsets(listed)
  <2>1. CASE lastXRef # 0
    BY <1>9, <2>1
  <2>2. CASE lastXRef = 0
    <3>1. /\ DOMAIN listed \in SUBSET DOMAIN all
          /\ \A n \in DOMAIN listed : listed[n] = all[n]
      BY <2>2
    <3> HIDE DEF listed
    <3> QED BY <1>10, <3>1, FS_Subset DEF IsOffsets
  <2> QED BY <2>1, <2>2
<1> HIDE DEF listed
<1>12. last \in Nat
  BY <1>1
<1> HIDE DEF last
<1>13. EncNumber(crypt) \in Int
  BY <1>1 DEF EncNumber, Trailer
<1>14. tr \in Trailer /\ tr.num = IF xrefStream THEN lastObj + 1 ELSE 0
  BY <1>1, <1>12, <1>13 DEF Trailer
<1> HIDE DEF tr
<1>15. IsItem(xref)
  <2>1. PICK kind \in {"table", "stream"} :
          kind = IF xrefStream THEN "stream" ELSE "table"
    OBVIOUS
  <2>2. PICK num \in Nat : num = lastObj + 1
    BY <1>1
  <2>3. IsItem([kind |-> kind, num |-> num, gen |-> 0, ok |-> TRUE,
                typed |-> FALSE, entries |-> Entries(listed), trailer |-> tr])
    BY <1>11, <1>14, <2>1, <2>2, SectionIsItem
  <2> QED BY <2>1, <2>2, <2>3
<1> HIDE DEF xref
<1>16. IsItem(end)
  BY <1>2, <1>7, OthersAreItems
<1> HIDE DEF end
<1>17. IsFile(<<xref, end>>)
  BY <1>15, <1>16, ShortFiles
<1>18. IsFile(file \o objs)
  BY <1>2, <1>7, ConcatIsFile
<1>19. IsFile(file \o objs \o <<xref, end>>)
  BY <1>17, <1>18, ConcatIsFile
<1>20. IsFile(IncrementalCopy)
  BY <1>19 DEF IncrementalCopy, objs, xref, listed, last, withEnc, ns, tr, new, all, end
<1> QED BY <1>2, <1>20 DEF IsFile

LEMMA CutIsFile ==
    ASSUME LoadInv, DocInv, pc = "open",
           NEW k \in Len(file) .. (Len(IncrementalCopy) - 1), NEW torn \in BOOLEAN,
           torn => IncrementalCopy[k + 1].kind = "obj"
    PROVE  LET item == IncrementalCopy[k + 1]
               half == IF torn /\ item.kind = "obj"
                       THEN <<[kind |-> "torn", num |-> item.num, gen |-> 0]>>
                       ELSE <<>>
           IN  IsFile(SubSeq(IncrementalCopy, 1, k) \o half)
<1>1. /\ IsFile(IncrementalCopy) /\ Len(file) \in Nat /\ Len(IncrementalCopy) \in Nat
  BY IncrementalCopyIsFile
<1>2. k \in 0 .. Len(IncrementalCopy) /\ k + 1 \in DOMAIN IncrementalCopy
  BY <1>1 DEF IsFile
<1>3. IsFile(SubSeq(IncrementalCopy, 1, k))
  BY <1>1, <1>2, PartIsFile
<1>4. CASE torn
  <2>1. IsItem(IncrementalCopy[k + 1])
    BY <1>1, <1>2 DEF IsFile
  <2>2. IncrementalCopy[k + 1].num \in Nat
    BY <1>4, <2>1 DEF IsItem, Numbered
  <2>3. IsFile(<<[kind |-> "torn", num |-> IncrementalCopy[k + 1].num, gen |-> 0]>>)
    BY <2>2, OthersAreItems, ShortFiles
  <2> QED BY <1>3, <1>4, <2>3, ConcatIsFile
<1>5. CASE ~torn
  BY <1>3, <1>5, ShortFiles, ConcatIsFile
<1> QED BY <1>4, <1>5

-----------------------------------------------------------------------------
(* What has been loaded stays as it is while the document is open.         *)
LEMMA LoadedStays ==
    ASSUME LoadInv, RebuildInv, WinsInv, pc = "open",
           UNCHANGED <<file, pc, table, trailer, resultVars, handler, chainVars,
                       jobVars, scan, retried>>,
           StreamsTyped', MemTyped'
    PROVE  LoadInv' /\ RebuildInv' /\ WinsInv'
<1> USE DEF LoadInv
<1>1. UNCHANGED <<file, pc, table, trailer, lastXRef, xrefStream, rebuilt, handler,
                  xrefList, streamList, prev, seen, sec, todo, next, idx, scan,
                  retried, chainVars>>
  BY DEF resultVars, chainVars, jobVars
<1>2. Typed'
  BY <1>1 DEF Typed, FileOK, IsFile, IsItem, IsTable, IsScan
<1>3. IInv'
  <2>0. /\ UNCHANGED <<file, chainVars>> /\ lastXRef' \in {lastXRef, 0}
        /\ pc' \notin {"front", "verify", "second", "table"}
        /\ ChainType /\ ChainIsRight
    BY <1>1 DEF IInv
  <2>1. ChainType' /\ ChainIsRight'
    BY <2>0, ChainStays DEF chainVars
  <2> QED BY <1>1, <2>1 DEF IInv, Progress, Searching
<1>4. Place'
  BY <1>1 DEF Place, Is, At
<1>5. /\ RebuildFindsLast' = RebuildFindsLast /\ FindsRoot' = FindsRoot
      /\ Rebuilt' = Rebuilt
  BY <1>1, FileFixed DEF RebuildFindsLast, FindsRoot, Rebuilt
<1>6. RebuildInv'
  BY <1>1, <1>5 DEF RebuildInv, IntactOpens, LastKept
<1>7. WinsInv'
  <2>1. Level' = Level
    BY <1>1 DEF Level
  <2>2. \A n : LevelOf(n)' = LevelOf(n)
    BY <1>1, <2>1 DEF LevelOf
  <2>3. Loaded' = Loaded
    BY <1>1 DEF Loaded
  <2> QED BY <1>1, <2>2, <2>3, WinsAfter DEF WinsInv
<1> QED BY <1>2, <1>3, <1>4, <1>6, <1>7

(* Reading objects takes nothing away, and finds what the table has.       *)
LEMMA HeldInTable ==
    ASSUME NEW ns, mem' = Holding(ns)
    PROVE  /\ DOMAIN mem \subseteq DOMAIN mem'
           /\ DOMAIN mem' \subseteq DOMAIN mem \cup DOMAIN table
           /\ \A n \in DOMAIN mem : mem'[n] = mem[n]
<1>1. /\ DOMAIN mem' = DOMAIN mem \cup {m \in ns : Got(m) # Null}
      /\ \A n \in DOMAIN mem' : mem'[n] = Got(n)
  BY DEF Holding
<1>2. \A n : n \notin DOMAIN mem /\ Got(n) # Null => n \in DOMAIN table
  BY DEF Got, Parse
<1> QED BY <1>1, <1>2 DEF Got

(* The last number of the table.                                           *)
LEMMA ParserLastFacts ==
    ASSUME IsTable(table)
    PROVE  ParserLast \in Nat /\ \A n \in DOMAIN table : n <= ParserLast
BY LastNumber DEF ParserLast, IsTable

LEMMA FreshIsParser == NewParser <=> FreshParser'
BY DEF NewParser, FreshParser

(* A parser for a file that is one.                                        *)
LEMMA InitParser == FileOK /\ FreshParser => LoadInv /\ RebuildInv /\ WinsInv
BY InitLoad, InitWins

LEMMA ParserStarts ==
    ASSUME FileOK', NewParser
    PROVE  LoadInv' /\ RebuildInv' /\ WinsInv'
<1>1. FreshParser'
  BY FreshIsParser
<1> QED BY <1>1, InitParser, PTL

SInv == LoadInv /\ RebuildInv /\ WinsInv /\ DocInv

LEMMA InitDoc == Init => SInv
<1> SUFFICES ASSUME Init
             PROVE  SInv
  OBVIOUS
<1>1. FileOK
  BY SaveAssumption DEF Init, FileOK
<1>2. LoadInv /\ RebuildInv /\ WinsInv
  BY <1>1, InitLoad, InitWins DEF Init
<1>3. DocInv
  <2>1. IsFile(copy) /\ lastObj \in Nat
    BY ShortFiles DEF Init
  <2>2. edits \in 0 .. MaxEdits /\ saves \in 0 .. MaxSaves
    BY SaveAssumption DEF Init
  <2>3. pc = "start" /\ DOMAIN mem = {}
    BY DEF Init, FreshParser
  <2> QED BY <2>1, <2>2, <2>3 DEF DocInv
<1> QED BY <1>2, <1>3 DEF SInv

(* A step of the loading.                                                  *)
LEMMA LoadDoc ==
    ASSUME LoadInv, DocInv, Load
    PROVE  DocInv'
<1> USE DEF LoadInv
<1>1. /\ LoadStep /\ UNCHANGED <<copy, edits, saves>>
      /\ pc' = "open" => lastObj' = ParserLast
      /\ pc' # "open" => lastObj' = lastObj
  BY DEF Load
<1>2. /\ IsFile(copy)' /\ edits' \in 0 .. MaxEdits /\ saves' \in 0 .. MaxSaves
  BY <1>1 DEF DocInv, IsFile, IsItem
<1>4. ParserLast \in Nat /\ \A n \in DOMAIN table : n <= ParserLast
  BY ParserLastFacts DEF Typed
<1>5. lastObj' \in Nat
  BY <1>1, <1>4 DEF DocInv
<1>6. CASE FindRoot
  <2>1. /\ pc = "root" /\ mem' = Holding({trailer.root, PagesRoot})
        /\ UNCHANGED <<table, trailer>>
        /\ pc' \in {"open", "failed", "scan"}
        /\ pc' = "open" => IsCatalog(Root)
    BY <1>6 DEF FindRoot, StartRebuild, Hold, TryInit
  <2>2. DOMAIN mem' \subseteq DOMAIN table'
    BY <2>1, HeldInTable DEF DocInv
  <2>3. CASE pc' = "open"
    <3>1. IsCatalog(Root) /\ Root # Null
      BY <2>1, <2>3, CatalogAssumption DEF IsCatalog
    <3>2. trailer.root \in DOMAIN mem' /\ mem'[trailer.root] = Root
      BY <2>1, <3>1 DEF Holding, Root
    <3>3. IsCatalog(mem'[trailer'.root])
      BY <2>1, <3>1, <3>2
    <3>4. lastObj' = ParserLast
      BY <1>1, <2>3
    <3> QED BY <1>2, <1>4, <1>5, <2>1, <2>2, <2>3, <3>2, <3>3, <3>4 DEF DocInv, IsCatalog
  <2>4. CASE pc' # "open"
    BY <1>2, <1>5, <2>1, <2>2, <2>4 DEF DocInv
  <2> QED BY <2>3, <2>4
<1>7. CASE SetEncryptHandler
  <2>1. /\ pc = "encrypt" /\ mem' = Holding({trailer.enc}) /\ pc' = "root"
        /\ UNCHANGED table
    BY <1>7 DEF SetEncryptHandler, Hold
  <2>2. DOMAIN mem' \subseteq DOMAIN table'
    BY <2>1, HeldInTable DEF DocInv
  <2> QED BY <1>2, <1>5, <2>1, <2>2 DEF DocInv
<1>8. CASE ScanEnds
  <2>1. /\ pc = "scan" /\ pc' \in {"failed", "encrypt"} /\ UNCHANGED mem
        /\ table' = UpdateInfo(table, scan.table)
    BY <1>8 DEF ScanEnds, Scanning
  <2>2. IsTable(table) /\ IsTable(scan.table)
    BY DEF Typed, IsScan
  <2>3. DOMAIN table \subseteq DOMAIN table'
    <3>1. DOMAIN UpdateInfo(table, scan.table) = DOMAIN table \cup DOMAIN scan.table
      BY <2>2, UpdateInfoFacts
    <3> QED BY <2>1, <3>1
  <2>4. DOMAIN mem' \subseteq DOMAIN table'
    BY <2>1, <2>3 DEF DocInv
  <2>5. pc' # "open" /\ pc' \in {"encrypt", "root", "scan", "open", "failed"}
    BY <2>1
  <2> QED BY <1>2, <1>5, <2>4, <2>5 DEF DocInv
<1>9. CASE ScanObject \/ ScanMember \/ ScanStream \/ ScanOther
  <2>1. pc = "scan" /\ UNCHANGED <<pc, table, mem>>
    BY <1>9 DEF ScanObject, ScanMember, ScanStream, ScanOther, Scanning
  <2> QED BY <1>2, <1>5, <2>1 DEF DocInv
<1>10. CASE \/ StartParse \/ MainTable \/ MainStream \/ MainFails
            \/ FindTable \/ FindStream \/ FindFails \/ FindEnds
            \/ ReadEntry \/ EntriesRead \/ LoadFront \/ VerifyCrossRefTable
            \/ SecondStream \/ SecondTable \/ AllLoaded
  <2>1. /\ pc \notin {"encrypt", "root", "scan", "open", "failed"}
        /\ UNCHANGED mem
    BY <1>10 DEF StartParse, MainTable, MainStream, MainFails, FindTable,
           FindStream, FindFails, FindEnds, ReadEntry, EntriesRead, LoadFront,
           VerifyCrossRefTable, SecondStream, SecondTable, AllLoaded
  <2>2. pc' # "open"
    BY <1>10 DEF StartParse, MainTable, MainStream, MainFails, FindTable,
           FindStream, FindFails, FindEnds, ReadEntry, EntriesRead, LoadFront,
           VerifyCrossRefTable, SecondStream, SecondTable, AllLoaded,
           StartEntries, StartRebuild, IInv, Progress
  <2>3. DOMAIN mem' = {}
    BY <2>1 DEF DocInv
  <2> QED BY <1>2, <1>5, <2>2, <2>3 DEF DocInv
<1> QED BY <1>1, <1>6, <1>7, <1>8, <1>9, <1>10 DEF LoadStep

-----------------------------------------------------------------------------
(* Objects are read, and nothing else happens to the parser.               *)
LEMMA OpenReads ==
    ASSUME SInv, pc = "open", NEW ns, mem' = Holding(ns),
           NEW ms, streamMap' = StreamsAfter(ms),
           UNCHANGED <<file, pc, table, trailer, resultVars, handler, chainVars,
                       jobVars, scan, retried, lastObj, edits>>,
           IsFile(copy'), saves' \in 0 .. MaxSaves
    PROVE  SInv' /\ InUse' = InUse /\ PagesRoot' = PagesRoot
<1> USE DEF SInv
<1>1. StreamsTyped' /\ MemTyped'
  BY ReadFacts DEF LoadInv, Typed
<1>2. LoadInv' /\ RebuildInv' /\ WinsInv'
  BY <1>1, LoadedStays
<1>3. /\ DOMAIN mem \subseteq DOMAIN mem'
      /\ DOMAIN mem' \subseteq DOMAIN mem \cup DOMAIN table
      /\ \A n \in DOMAIN mem : mem'[n] = mem[n]
  BY HeldInTable
<1>4. InUse' = InUse /\ PagesRoot' = PagesRoot /\ trailer.root \in DOMAIN mem'
      /\ mem'[trailer.root] = mem[trailer.root]
  BY <1>3 DEF DocInv, InUse, PagesRoot, Root, Got, IsCatalog
<1>5. DocInv'
  BY <1>3, <1>4 DEF DocInv, IsCatalog
<1> QED BY <1>2, <1>4, <1>5

(* Objects change in memory.                                               *)
LEMMA OpenEdits ==
    ASSUME SInv, pc = "open", UNCHANGED <<file, loadVars>>,
           IsFile(copy'), edits' \in 0 .. MaxEdits, saves' \in 0 .. MaxSaves,
           MemTyped', trailer.root \in DOMAIN mem', IsCatalog(mem'[trailer.root]),
           lastObj' \in Nat, lastObj <= lastObj', \A n \in DOMAIN mem' : n <= lastObj'
    PROVE  SInv'
<1> USE DEF SInv
<1>0. /\ UNCHANGED <<file, pc, table, trailer, resultVars, handler, chainVars,
                     jobVars, scan, retried>>
      /\ UNCHANGED <<streamMap, pc, table, trailer>>
  BY DEF loadVars
<1>1. StreamsTyped'
  BY <1>0 DEF LoadInv, Typed, StreamsTyped, Is, At, Junk
<1>2. LoadInv' /\ RebuildInv' /\ WinsInv'
  BY <1>0, <1>1, LoadedStays
<1>3. IsCatalog(mem[trailer.root])'
  BY <1>0 DEF IsCatalog
<1>4. \A n \in DOMAIN table' : n <= lastObj'
  <2>1. \A n \in DOMAIN table : n \in Nat /\ n <= lastObj
    BY DEF DocInv, LoadInv, Typed, IsTable
  <2> QED BY <1>0, <2>1 DEF DocInv
<1>5. DocInv'
  BY <1>0, <1>3, <1>4 DEF DocInv
<1> QED BY <1>2, <1>5

(* What is known of an open document.                                      *)
LEMMA OpenFacts ==
    ASSUME SInv, pc = "open"
    PROVE  /\ IsFile(copy) /\ MemTyped /\ FileOK /\ StreamsTyped
           /\ edits \in 0 .. MaxEdits /\ saves \in 0 .. MaxSaves /\ lastObj \in Nat
           /\ trailer.root \in DOMAIN mem /\ mem[trailer.root] \in Catalog
           /\ InUse \in SUBSET ObjNums
           /\ Root = mem[trailer.root] /\ PagesRoot = mem[trailer.root].pages
           /\ \A n \in DOMAIN mem : n \in Nat /\ n <= lastObj
           /\ ObjNums \subseteq Nat /\ MaxEdits \in Nat /\ MaxSaves \in Nat
<1>1. \A n \in DOMAIN mem : n \in ObjNums /\ n <= lastObj
  BY DEF SInv, DocInv, LoadInv, Typed, MemTyped
<1>2. trailer.root \in DOMAIN mem /\ mem[trailer.root] \in Catalog
  BY DEF SInv, DocInv, IsCatalog
<1>3. Root = mem[trailer.root] /\ PagesRoot = mem[trailer.root].pages
  BY <1>2 DEF Root, Got, PagesRoot, IsCatalog
<1>4. InUse \in SUBSET ObjNums
  BY <1>2 DEF InUse, Catalog
<1> QED BY <1>1, <1>2, <1>3, <1>4, LoadAssumption, SaveAssumption
        DEF SInv, DocInv, LoadInv, Typed

(* What the document refers to may grow or shrink, but not lose its pages. *)
LEMMA CatalogGrows ==
    ASSUME NEW c \in Catalog, NEW uses \in SUBSET ObjNums, c.pages \in uses \cup {0}
    PROVE  [c EXCEPT !.uses = uses] \in Catalog
BY DEF Catalog

LEMMA EditsOpen ==
    ASSUME SInv, pc = "open",
           \/ \E n \in ObjNums : \/ Drop(n) \/ DeleteIndirectObject(n)
                                 \/ \E v \in Data : SetValue(n, v)
           \/ \E v \in Data : AddIndirectObject(v)
    PROVE  SInv'
<1>0. /\ IsFile(copy) /\ MemTyped
      /\ edits \in 0 .. MaxEdits /\ saves \in 0 .. MaxSaves /\ lastObj \in Nat
      /\ trailer.root \in DOMAIN mem /\ mem[trailer.root] \in Catalog
      /\ InUse \in SUBSET ObjNums /\ PagesRoot = mem[trailer.root].pages
      /\ \A n \in DOMAIN mem : n \in Nat /\ n <= lastObj
      /\ MaxEdits \in Nat
  BY OpenFacts
<1> DEFINE c == mem[trailer.root]
<1>1. ASSUME NEW newMem, Edited(newMem)
      PROVE  /\ UNCHANGED <<file, loadVars, copy, saves>> /\ mem' = newMem
             /\ IsFile(copy') /\ edits' \in 0 .. MaxEdits /\ saves' \in 0 .. MaxSaves
  BY <1>0, <1>1 DEF Edited
<1>2. Data \subseteq Value /\ Catalog \subseteq Value
  BY DEF Value
<1>3. ASSUME NEW n \in ObjNums, Drop(n)
      PROVE  SInv'
  <2> DEFINE fewer == [c EXCEPT !.uses = InUse \ {n}]
  <2>1. /\ Edited([mem EXCEPT ![trailer.root] = fewer])
        /\ mem' = [mem EXCEPT ![trailer.root] = fewer] /\ lastObj' = lastObj
        /\ n # c.pages
    BY <1>0, <1>3, <1>1 DEF Drop, InUse
  <2>2. /\ DOMAIN mem' = DOMAIN mem
        /\ mem'[trailer.root] = fewer
        /\ \A m \in DOMAIN mem \ {trailer.root} : mem'[m] = mem[m]
    BY <1>0, <2>1
  <2>3. fewer \in Catalog
    <3>1. c.pages \in InUse \cup {0} /\ c.pages # n
      BY <1>0, <2>1 DEF InUse, Catalog
    <3> QED BY <1>0, <3>1, CatalogGrows
  <2> HIDE DEF fewer
  <2>5. IsCatalog(mem'[trailer.root])
    BY <2>2, <2>3 DEF IsCatalog
  <2>4. MemTyped'
    BY <1>0, <1>2, <2>2, <2>3 DEF MemTyped
  <2> QED BY <1>0, <1>1, <2>1, <2>2, <2>4, <2>5, OpenEdits
<1>4. ASSUME NEW n \in ObjNums, DeleteIndirectObject(n)
      PROVE  SInv'
  <2>1. /\ Edited([m \in DOMAIN mem \ {n} |-> mem[m]])
        /\ mem' = [m \in DOMAIN mem \ {n} |-> mem[m]] /\ lastObj' = lastObj
        /\ n # trailer.root
    BY <1>4, <1>1 DEF DeleteIndirectObject
  <2>2. /\ DOMAIN mem' = DOMAIN mem \ {n}
        /\ \A m \in DOMAIN mem \ {n} : mem'[m] = mem[m]
    BY <2>1
  <2>3. trailer.root \in DOMAIN mem' /\ IsCatalog(mem'[trailer.root])
    BY <1>0, <2>1, <2>2 DEF IsCatalog
  <2>4. MemTyped'
    BY <1>0, <2>2 DEF MemTyped
  <2> QED BY <1>0, <1>1, <2>1, <2>2, <2>3, <2>4, OpenEdits
<1>5. ASSUME NEW n \in ObjNums, NEW v \in Data, SetValue(n, v)
      PROVE  SInv'
  <2>1. /\ Edited([mem EXCEPT ![n] = v])
        /\ mem' = [mem EXCEPT ![n] = v] /\ lastObj' = lastObj
        /\ n # trailer.root
    BY <1>5, <1>1 DEF SetValue
  <2>2. /\ DOMAIN mem' = DOMAIN mem
        /\ \A m \in DOMAIN mem : mem'[m] = IF m = n THEN v ELSE mem[m]
    BY <2>1
  <2>3. IsCatalog(mem'[trailer.root])
    BY <1>0, <2>1, <2>2 DEF IsCatalog
  <2>4. MemTyped'
    BY <1>0, <1>2, <2>2 DEF MemTyped
  <2> QED BY <1>0, <1>1, <2>1, <2>2, <2>3, <2>4, OpenEdits
<1>6. ASSUME NEW v \in Data, AddIndirectObject(v)
      PROVE  SInv'
  <2> DEFINE new == lastObj + 1
             more == [c EXCEPT !.uses = InUse \cup {new}]
             newMem == [m \in DOMAIN mem \cup {new} |->
                          IF m = new THEN v
                          ELSE IF m = trailer.root THEN more
                          ELSE mem[m]]
  <2>1. /\ Edited(newMem) /\ mem' = newMem /\ lastObj' = new /\ new \in ObjNums
    <3>1. newMem = [m \in DOMAIN mem \cup {lastObj + 1} |->
                      IF m = lastObj + 1 THEN v
                      ELSE IF m = trailer.root
                           THEN [mem[m] EXCEPT !.uses = @ \cup {lastObj + 1}]
                      ELSE mem[m]]
      BY DEF InUse
    <3> QED BY <1>6, <1>1, <3>1 DEF AddIndirectObject
  <2>2. trailer.root # new
    BY <1>0
  <2>3. /\ DOMAIN mem' = DOMAIN mem \cup {new} /\ mem'[new] = v
        /\ mem'[trailer.root] = more
        /\ \A m \in DOMAIN mem \ {trailer.root} : mem'[m] \in {mem[m], v}
    BY <1>0, <2>1, <2>2
  <2>7. more \in Catalog
    <3>1. InUse \cup {new} \in SUBSET ObjNums
      BY <1>0, <2>1
    <3>2. c.pages \in InUse \cup {0}
      BY <1>0 DEF InUse, Catalog
    <3> QED BY <1>0, <3>1, <3>2, CatalogGrows
  <2> HIDE DEF more
  <2>4. /\ IsCatalog(mem'[trailer.root])
        /\ lastObj' \in Nat /\ lastObj <= lastObj'
        /\ \A m \in DOMAIN mem' : m <= lastObj'
    BY <1>0, <2>1, <2>3, <2>7 DEF IsCatalog
  <2>5. MemTyped'
    <3> HIDE DEF new
    <3> QED BY <1>0, <1>2, <2>1, <2>3, <2>7 DEF MemTyped
  <2>6. /\ UNCHANGED <<file, loadVars>>
        /\ IsFile(copy') /\ edits' \in 0 .. MaxEdits /\ saves' \in 0 .. MaxSaves
    BY <1>1, <2>1
  <2> QED BY <1>0, <2>3, <2>4, <2>5, <2>6, OpenEdits
<1> QED BY <1>3, <1>4, <1>5, <1>6

LEMMA SavesOpen ==
    ASSUME SInv, pc = "open", SaveFull \/ SaveIncremental \/ SaveCut
    PROVE  SInv'
<1>0. /\ MemTyped /\ edits \in 0 .. MaxEdits /\ saves \in 0 .. MaxSaves
      /\ lastObj \in Nat /\ MaxSaves \in Nat
      /\ trailer.root \in DOMAIN mem /\ IsCatalog(mem[trailer.root])
      /\ \A n \in DOMAIN mem : n \in Nat /\ n <= lastObj
  BY OpenFacts DEF IsCatalog
<1>1. saves' \in 0 .. MaxSaves /\ UNCHANGED <<lastObj, edits>>
  <2>1. saves < MaxSaves /\ saves' = saves + 1 /\ UNCHANGED <<lastObj, edits>>
    BY DEF SaveFull, SaveIncremental, SaveCut
  <2> QED BY <1>0, <2>1
<1>2. CASE SaveFull
  <2>1. handler \in BOOLEAN
    BY DEF SInv, LoadInv, Typed
  <2>2. PICK crypt \in BOOLEAN : copy' = FullCopy(crypt)
    BY <1>2, <2>1 DEF SaveFull, Copied
  <2>3. IsFile(copy')
    BY <2>2, FullCopyIsFile DEF SInv
  <2> QED BY <1>1, <1>2, <2>3, OpenReads DEF SaveFull
<1>3. CASE SaveIncremental \/ SaveCut
  <2>1. UNCHANGED <<file, loadVars, mem>>
    BY <1>3 DEF SaveIncremental, SaveCut
  <2>2. IsFile(copy')
    <3>1. CASE SaveIncremental
      <4>1. copy' = IncrementalCopy
        BY <3>1 DEF SaveIncremental, Copied
      <4> QED BY <4>1, IncrementalCopyIsFile DEF SInv
    <3>2. CASE SaveCut
      BY <3>2, CutIsFile DEF SaveCut, SInv
    <3> QED BY <1>3, <3>1, <3>2
  <2>3. MemTyped' /\ trailer.root \in DOMAIN mem' /\ IsCatalog(mem'[trailer.root])
    BY <1>0, <2>1 DEF MemTyped
  <2>4. edits' \in 0 .. MaxEdits /\ lastObj' \in Nat /\ lastObj <= lastObj'
    BY <1>0, <1>1
  <2> QED BY <1>0, <1>1, <2>1, <2>2, <2>3, <2>4, OpenEdits
<1> QED BY <1>2, <1>3

LEMMA ReadOpen ==
    ASSUME SInv, pc = "open", NEW n, Read(n)
    PROVE  SInv'
<1>1. IsFile(copy') /\ saves' \in 0 .. MaxSaves
  BY OpenFacts DEF Read
<1> QED BY <1>1, OpenReads DEF Read, Hold

LEMMA ReopenSteps ==
    ASSUME SInv, Reopen
    PROVE  SInv'
<1>1. /\ pc = "open" /\ NewParser /\ file' = copy /\ lastObj' = 0
      /\ copy' = <<>> /\ edits' = 0 /\ UNCHANGED saves
  BY DEF Reopen
<1>2. FileOK'
  BY <1>1, OpenFacts DEF FileOK, IsFile, IsItem
<1>3. LoadInv' /\ RebuildInv' /\ WinsInv'
  BY <1>1, <1>2, ParserStarts
<1>4. DocInv'
  <2>1. IsFile(copy')
    BY <1>1, ShortFiles
  <2>2. edits' \in 0 .. MaxEdits /\ saves' \in 0 .. MaxSaves
    BY <1>1, SaveAssumption, OpenFacts
  <2>3. pc' = "start" /\ DOMAIN mem' = {}
    BY <1>1 DEF NewParser
  <2> QED BY <1>1, <2>1, <2>2, <2>3 DEF DocInv
<1> QED BY <1>3, <1>4 DEF SInv

LEMMA StepDoc == SInv /\ [Next]_vars => SInv'
<1> SUFFICES ASSUME SInv, [Next]_vars
             PROVE  SInv'
  OBVIOUS
<1>1. CASE Load
  <2>1. LoadStep
    BY <1>1 DEF Load
  <2>2. LoadInv' /\ RebuildInv' /\ WinsInv'
    BY <2>1, StepNewest DEF SInv
  <2> QED BY <1>1, <2>2, LoadDoc DEF SInv
<1>2. CASE \/ \E n \in ObjNums : \/ pc = "open" /\ (Drop(n) \/ DeleteIndirectObject(n))
                                \/ \E v \in Data : pc = "open" /\ SetValue(n, v)
           \/ \E v \in Data : pc = "open" /\ AddIndirectObject(v)
  BY <1>2, EditsOpen
<1>3. CASE \E n \in ObjNums : pc = "open" /\ Read(n)
  BY <1>3, ReadOpen
<1>4. CASE SaveFull \/ SaveIncremental \/ SaveCut
  <2>1. pc = "open"
    BY <1>4 DEF SaveFull, SaveIncremental, SaveCut
  <2> QED BY <1>4, <2>1, SavesOpen
<1>5. CASE Reopen
  BY <1>5, ReopenSteps
<1>6. CASE UNCHANGED vars
  <2>1. /\ UNCHANGED <<file, loadVars, mem>>
        /\ UNCHANGED <<pc, table, trailer, lastObj, copy, edits, saves, mem>>
    BY <1>6 DEF vars, docVars, loadVars
  <2>2. LoadInv' /\ RebuildInv' /\ WinsInv'
    BY <2>1, StepNewest DEF SInv
  <2>3. DocInv'
    BY <2>1 DEF SInv, DocInv, IsCatalog, IsFile, IsItem
  <2> QED BY <2>2, <2>3 DEF SInv
<1> QED BY <1>1, <1>2, <1>3, <1>4, <1>5, <1>6 DEF Next

-----------------------------------------------------------------------------
(* A copy is always a file that the parser takes, whatever was edited; the *)
(* other variables have their types.                                       *)
THEOREM TypeOKAlways == Spec => []TypeOK
<1>1. SInv => TypeOK
  BY DEF SInv, DocInv, LoadInv, Typed, MemTyped, IsTable, TypeOK
<1> QED BY <1>1, InitDoc, StepDoc, PTL DEF Spec

(* What holds while a first file is loaded holds while any copy is that    *)
(* CPDF_Creator makes of it, after any number of edits, cut short or not:  *)
(* the chain of its sections, the newest entry, what a rebuild finds, and  *)
(* that a copy opens whose catalog and page tree root are whole.           *)
THEOREM CopiesLoadAlways ==
    Spec => [](ChainIsRight /\ NewestEntryWins /\ RebuildFindsLast /\ IntactOpens)
<1>1. SInv => ChainIsRight /\ NewestEntryWins /\ RebuildFindsLast /\ IntactOpens
  BY WinsIsNewest DEF SInv, LoadInv, IInv, RebuildInv
<1> QED BY <1>1, InitDoc, StepDoc, PTL DEF Spec

-----------------------------------------------------------------------------
(* What a document shows.                                                  *)

(* Reading objects, in whatever order, changes none.                       *)
LEMMA ParseStays ==
    ASSUME UNCHANGED <<file, table, handler>>,
           UNCHANGED streamMap \/ \E ns : streamMap' = StreamsAfter(ns), NEW n
    PROVE  Parse(n)' = Parse(n)
<1>1. \A p, kind : At(p)' = At(p) /\ Is(p, kind)' = Is(p, kind)
  BY FileFixed
<1>2. ASSUME NEW a
      PROVE  ObjectStreamPos(a)' = ObjectStreamPos(a)
  <2>1. CASE UNCHANGED streamMap
    BY <1>1, <2>1 DEF ObjectStreamPos, InfoOf
  <2>2. CASE \E ns : streamMap' = StreamsAfter(ns)
    <3>1. PICK ns : streamMap' = StreamsAfter(ns)
      BY <2>2
    <3>2. /\ DOMAIN streamMap \subseteq DOMAIN streamMap'
          /\ \A b \in DOMAIN streamMap' : streamMap'[b] = ObjectStreamPos(b)
      BY <3>1 DEF StreamsAfter
    <3>3. CASE a \in DOMAIN streamMap'
      BY <3>2, <3>3 DEF ObjectStreamPos
    <3>4. CASE a \notin DOMAIN streamMap'
      BY <1>1, <3>2, <3>4 DEF ObjectStreamPos, InfoOf
    <3> QED BY <3>3, <3>4
  <2> QED BY <2>1, <2>2
<1>3. \A p : ObjectAt(p, n)' = ObjectAt(p, n)
  BY <1>1 DEF ObjectAt, Decrypted
<1>4. \A a : MemberOf(ObjectStreamPos(a), n)' = MemberOf(ObjectStreamPos(a), n)
  BY <1>1, <1>2 DEF MemberOf
<1> QED BY <1>3, <1>4 DEF Parse, InfoOf

LEMMA GotStays ==
    ASSUME UNCHANGED <<file, table, handler>>, NEW ns, mem' = Holding(ns),
           NEW ms, streamMap' = StreamsAfter(ms), NEW n
    PROVE  Got(n)' = Got(n)
<1>1. /\ DOMAIN mem' = DOMAIN mem \cup {m \in ns : Got(m) # Null}
      /\ \A m \in DOMAIN mem' : mem'[m] = Got(m)
  BY DEF Holding
<1>2. Parse(n)' = Parse(n)
  BY ParseStays
<1>3. CASE n \in DOMAIN mem'
  BY <1>1, <1>3 DEF Got
<1>4. CASE n \notin DOMAIN mem'
  BY <1>1, <1>2, <1>4 DEF Got
<1> QED BY <1>3, <1>4

(* An open document is told from one that is being opened or was refused.  *)
IsShown == Content \notin {Opening, Failed}

LEMMA OpenIsShown == SInv /\ pc = "open" => IsShown
<1> SUFFICES ASSUME SInv, pc = "open"
             PROVE  Content \notin {Opening, Failed}
  BY DEF IsShown
<1> DEFINE S == InUse \ {trailer.root}
<1>1. S \in SUBSET ObjNums
  BY OpenFacts
<1>2. \A n : Got(n) \in Value \cup {Null}
  BY OpenFacts, GotFacts
<1>3. Content \in [S -> Value \cup {Null}]
  BY <1>2 DEF Content, View
<1> QED BY <1>1, <1>3, SaveAssumption

LEMMA ReadsShowTheSame ==
    ASSUME SInv, pc = "open", InUse' = InUse,
           NEW ns, mem' = Holding(ns), NEW ms, streamMap' = StreamsAfter(ms),
           UNCHANGED <<file, pc, table, trailer, handler>>
    PROVE  Content' = Content
<1>1. \A n : Got(n)' = Got(n)
  BY GotStays
<1>2. View' = View
  BY <1>1 DEF View
<1> QED BY <1>2 DEF Content

(* One object changes, or is in use or no longer in use.                   *)
LEMMA OneChanges ==
    ASSUME SInv, SInv', pc = "open", NEW n \in ObjNums,
           UNCHANGED <<file, pc, table, trailer, handler, streamMap, promise>>,
           InUse' \ {n} = InUse \ {n},
           DOMAIN mem' \ {n, trailer.root} = DOMAIN mem \ {n, trailer.root},
           \A m \in DOMAIN mem \ {n, trailer.root} : mem'[m] = mem[m]
    PROVE  Doc!Edit
<1>1. \A m : Parse(m)' = Parse(m)
  BY ParseStays
<1>2. \A m : m \notin {n, trailer.root} => Got(m)' = Got(m)
  BY <1>1 DEF Got
<1>3. Content = View /\ Content' = View'
  BY DEF Content
<1>4. /\ DOMAIN View = InUse \ {trailer.root}
      /\ DOMAIN View' = InUse' \ {trailer.root}
  BY DEF View
<1>5. ASSUME NEW m \in DOMAIN View \ {n}
      PROVE  View'[m] = View[m]
  <2>1. m \in DOMAIN View' /\ m \notin {n, trailer.root}
    BY <1>4, <1>5
  <2> QED BY <1>2, <2>1 DEF View
<1>6. Content \notin {Opening, Failed} /\ Content' \notin {Opening, Failed}
  <2>0. SInv /\ pc = "open" /\ SInv' /\ (pc = "open")'
    OBVIOUS
  <2>1. IsShown /\ IsShown'
    BY <2>0, OpenIsShown, PTL
  <2> QED BY <2>1 DEF IsShown
<1>7. DOMAIN Content \ {n} = DOMAIN Content' \ {n}
  BY <1>3, <1>4
<1> QED BY <1>3, <1>5, <1>6, <1>7 DEF Doc!Edit, Doc!IsOpen

LEMMA EditsImplement ==
    ASSUME SInv, SInv', pc = "open",
           \/ \E n \in ObjNums : \/ Drop(n) \/ DeleteIndirectObject(n)
                                 \/ \E v \in Data : SetValue(n, v)
           \/ \E v \in Data : AddIndirectObject(v)
    PROVE  Doc!Edit
<1>0. trailer.root \in DOMAIN mem /\ mem[trailer.root] \in Catalog
  BY OpenFacts
<1>1. ASSUME NEW newMem, Edited(newMem)
      PROVE  /\ UNCHANGED <<file, pc, table, trailer, handler, streamMap, promise>>
             /\ mem' = newMem
             /\ InUse' = newMem[trailer.root].uses
  BY <1>1 DEF Edited, loadVars, InUse
<1>2. ASSUME NEW n \in ObjNums, Drop(n)
      PROVE  Doc!Edit
  <2> DEFINE c == mem[trailer.root]
             fewer == [c EXCEPT !.uses = InUse \ {n}]
  <2>1. Edited([mem EXCEPT ![trailer.root] = fewer]) /\ fewer.uses = InUse \ {n}
    BY <1>0, <1>2 DEF Drop, InUse, Catalog
  <2> HIDE DEF fewer
  <2>2. /\ mem' = [mem EXCEPT ![trailer.root] = fewer]
        /\ UNCHANGED <<file, pc, table, trailer, handler, streamMap, promise>>
        /\ InUse' = InUse \ {n}
    BY <1>0, <1>1, <2>1
  <2>3. /\ DOMAIN mem' = DOMAIN mem
        /\ \A m \in DOMAIN mem \ {n, trailer.root} : mem'[m] = mem[m]
    BY <2>2
  <2> QED BY <2>2, <2>3, OneChanges
<1>3. ASSUME NEW n \in ObjNums, DeleteIndirectObject(n)
      PROVE  Doc!Edit
  <2>1. Edited([m \in DOMAIN mem \ {n} |-> mem[m]]) /\ n # trailer.root
    BY <1>3 DEF DeleteIndirectObject
  <2>2. /\ mem' = [m \in DOMAIN mem \ {n} |-> mem[m]]
        /\ UNCHANGED <<file, pc, table, trailer, handler, streamMap, promise>>
        /\ InUse' = InUse
    BY <1>0, <1>1, <2>1 DEF InUse
  <2>3. /\ DOMAIN mem' = DOMAIN mem \ {n}
        /\ \A m \in DOMAIN mem \ {n, trailer.root} : mem'[m] = mem[m]
    BY <2>2
  <2> QED BY <2>2, <2>3, OneChanges
<1>4. ASSUME NEW n \in ObjNums, NEW v \in Data, SetValue(n, v)
      PROVE  Doc!Edit
  <2>1. Edited([mem EXCEPT ![n] = v]) /\ n # trailer.root
    BY <1>4 DEF SetValue
  <2>2. /\ mem' = [mem EXCEPT ![n] = v]
        /\ UNCHANGED <<file, pc, table, trailer, handler, streamMap, promise>>
        /\ InUse' = InUse
    BY <1>0, <1>1, <2>1 DEF InUse
  <2>3. /\ DOMAIN mem' = DOMAIN mem
        /\ \A m \in DOMAIN mem \ {n, trailer.root} : mem'[m] = mem[m]
    BY <2>2
  <2> QED BY <2>2, <2>3, OneChanges
<1>5. ASSUME NEW v \in Data, AddIndirectObject(v)
      PROVE  Doc!Edit
  <2> DEFINE new == lastObj + 1
             c == mem[trailer.root]
             more == [c EXCEPT !.uses = InUse \cup {new}]
             newMem == [m \in DOMAIN mem \cup {new} |->
                          IF m = new THEN v
                          ELSE IF m = trailer.root THEN more
                          ELSE mem[m]]
  <2>1. Edited(newMem) /\ new \in ObjNums
    <3>1. newMem = [m \in DOMAIN mem \cup {lastObj + 1} |->
                      IF m = lastObj + 1 THEN v
                      ELSE IF m = trailer.root
                           THEN [mem[m] EXCEPT !.uses = @ \cup {lastObj + 1}]
                      ELSE mem[m]]
      BY DEF InUse
    <3> QED BY <1>5, <3>1 DEF AddIndirectObject
  <2>5. more.uses = InUse \cup {new}
    BY <1>0 DEF Catalog
  <2> HIDE DEF more
  <2>2. trailer.root # new /\ new \notin DOMAIN mem
    BY OpenFacts
  <2> HIDE DEF new
  <2>3. /\ mem' = newMem
        /\ UNCHANGED <<file, pc, table, trailer, handler, streamMap, promise>>
        /\ InUse' = InUse \cup {new}
    BY <1>0, <1>1, <2>1, <2>2, <2>5
  <2>4. /\ DOMAIN mem' = DOMAIN mem \cup {new}
        /\ \A m \in DOMAIN mem \ {new, trailer.root} : mem'[m] = mem[m]
    BY <2>3
  <2> QED BY <2>1, <2>3, <2>4, OneChanges
<1> QED BY <1>2, <1>3, <1>4, <1>5

LEMMA SavesImplement ==
    ASSUME SInv, SInv', pc = "open", SaveFull \/ SaveIncremental \/ SaveCut
    PROVE  Doc!Save
<1>1. Content \notin {Opening, Failed} /\ Content = View
  <2>1. IsShown
    BY OpenIsShown
  <2> QED BY <2>1 DEF IsShown, Content
<1>2. promise'.kind # "any" => promise'.new = View
  <2>1. CASE SaveFull
    <3>1. \E k, p : promise' = [kind |-> k, new |-> View, paged |-> p]
      BY <2>1 DEF SaveFull, Copied
    <3> QED BY <3>1
  <2>2. CASE SaveIncremental \/ SaveCut
    <3>1. \/ \E k, p : promise' = [kind |-> k, new |-> View, paged |-> p]
          \/ promise' = [kind |-> "any"]
          \/ \E cut : promise' = [kind |-> "cut", old |-> base, new |-> View, cut |-> cut]
      <4>1. CASE SaveIncremental
        BY <4>1 DEF SaveIncremental, Copied, InParts
      <4>2. CASE SaveCut
        BY <4>2 DEF SaveCut, InParts
      <4> QED BY <2>2, <4>1, <4>2
    <3> QED BY <3>1
  <2> QED BY <2>1, <2>2
<1>3. Content' = Content
  <2>1. CASE SaveFull
    <3>1. /\ mem' = Holding(InUse) /\ \E ms : streamMap' = StreamsAfter(ms)
          /\ UNCHANGED <<file, pc, table, trailer, handler>>
      BY <2>1 DEF SaveFull
    <3>2. InUse' = InUse
      BY <3>1, HeldInTable, OpenFacts DEF InUse
    <3> QED BY <3>1, <3>2, ReadsShowTheSame
  <2>2. CASE SaveIncremental \/ SaveCut
    <3>1. UNCHANGED <<file, loadVars, mem>>
      BY <2>2 DEF SaveIncremental, SaveCut
    <3>2. UNCHANGED <<file, pc, table, trailer, handler, streamMap, mem>>
      BY <3>1 DEF loadVars
    <3>3. \A n : Got(n)' = Got(n)
      BY <3>2, ParseStays DEF Got
    <3> QED BY <3>2, <3>3 DEF Content, View, InUse
  <2> QED BY <2>1, <2>2
<1> QED BY <1>1, <1>2, <1>3 DEF Doc!Save, Doc!IsOpen

LEMMA OpenImplements ==
    ASSUME SInv, SInv', pc = "open", [Next]_vars
    PROVE  Doc!Edit \/ Doc!Save \/ Doc!Reopen \/ UNCHANGED <<Content, promise>>
<1>1. CASE Load
  <2>1. pc # "open"
    BY <1>1 DEF Load, LoadStep, StartParse, MainTable, MainStream, MainFails,
           FindTable, FindStream, FindFails, FindEnds, ReadEntry, EntriesRead,
           LoadFront, VerifyCrossRefTable, SecondStream, SecondTable, AllLoaded,
           ScanObject, ScanMember, ScanStream, ScanOther, ScanEnds, Scanning,
           SetEncryptHandler, FindRoot
  <2> QED BY <2>1
<1>2. CASE \/ \E n \in ObjNums : \/ Drop(n) \/ DeleteIndirectObject(n)
                                \/ \E v \in Data : SetValue(n, v)
           \/ \E v \in Data : AddIndirectObject(v)
  BY <1>2, EditsImplement
<1>3. CASE \E n \in ObjNums : Read(n)
  <2>1. PICK n \in ObjNums : Read(n)
    BY <1>3
  <2>2. /\ mem' = Holding({n}) /\ \E ms : streamMap' = StreamsAfter(ms)
        /\ UNCHANGED <<file, pc, table, trailer, handler, promise>>
    BY <2>1 DEF Read, Hold
  <2>3. InUse' = InUse
    BY <2>2, HeldInTable, OpenFacts DEF InUse
  <2> QED BY <2>2, <2>3, ReadsShowTheSame
<1>4. CASE SaveFull \/ SaveIncremental \/ SaveCut
  BY <1>4, SavesImplement
<1>5. CASE Reopen
  <2>1. Content \notin {Opening, Failed}
    BY OpenIsShown DEF IsShown
  <2>2. Content' = Opening /\ UNCHANGED promise
    BY <1>5 DEF Reopen, NewParser, Content
  <2> QED BY <2>1, <2>2 DEF Doc!Reopen, Doc!IsOpen
<1>6. CASE UNCHANGED vars
  <2>1. UNCHANGED <<file, loadVars, mem, promise>>
    BY <1>6 DEF vars, docVars
  <2>2. UNCHANGED <<file, pc, table, trailer, handler, streamMap, mem, promise>>
    BY <2>1 DEF loadVars
  <2>3. \A n : Got(n)' = Got(n)
    BY <2>2, ParseStays DEF Got
  <2> QED BY <2>2, <2>3 DEF Content, View, InUse
<1> QED BY <1>1, <1>2, <1>3, <1>4, <1>5, <1>6 DEF Next

(* Opening aside, the document implements Document: while it is open, only *)
(* an edit changes what it shows, and no more than one object of it;       *)
(* objects read from the file or an archive, whenever that is, and saves   *)
(* leave it as it was, and a save promises what it shows.                  *)
THEOREM OnlyEditsChangeAlways == Spec => OnlyEditsChange
<1>1. SInv /\ SInv' /\ [Next]_vars =>
        [pc = "open" => \/ Doc!Edit \/ Doc!Save \/ Doc!Reopen
                        \/ UNCHANGED <<Content, promise>>]_vars
  BY OpenImplements
<1> QED BY <1>1, InitDoc, StepDoc, PTL DEF Spec, OnlyEditsChange

-----------------------------------------------------------------------------
(* The round trip.  What is shown is read off the bytes of the copy first, *)
(* and the loading then finds just that.                                   *)

(* A file that ends with a section of its own, which says where each       *)
(* object that it lists is, and what a document opened from it shows.      *)
Section(bytes)   == bytes[Len(bytes) - 1]
Listed(bytes)    == DOMAIN Section(bytes).entries
ItemOf(bytes, n) == bytes[Section(bytes).entries[n].pos]
IsLocked(bytes)  == Section(bytes).trailer.enc # 0
RootOf(bytes)    == Section(bytes).trailer.root

ReadIn(bytes, n) ==
    IF n \notin Listed(bytes) \/ ItemOf(bytes, n).kind # "obj" THEN Null
    ELSE IF /\ ItemOf(bytes, n).val \in Data \ Paged
            /\ ItemOf(bytes, n).locked # IsLocked(bytes)
    THEN Garbled ELSE ItemOf(bytes, n).val

StandsAlone(bytes) ==
    /\ Len(bytes) \in Nat /\ Len(bytes) > 1 /\ DOMAIN bytes = 1 .. Len(bytes)
    /\ bytes[Len(bytes)] = StartXRefItem(Len(bytes) - 1)
    /\ Section(bytes).kind = "table"
    /\ Section(bytes).trailer.prev = 0 /\ Section(bytes).trailer.size > 0
    /\ \A n \in Listed(bytes) :
         LET p == Section(bytes).entries[n].pos
         IN  /\ Section(bytes).entries[n] = NormalEntry(p) /\ p \in DOMAIN bytes
             /\ bytes[p].kind \in {"obj", "stream"} /\ bytes[p].num = n

CatalogOf(bytes) == ReadIn(bytes, RootOf(bytes))

ShowsAlone(bytes, shown) ==
    /\ StandsAlone(bytes)
    /\ RootOf(bytes) \in Listed(bytes) \cap ObjNums
    /\ IsLocked(bytes) => LET enc == Section(bytes).trailer.enc
                          IN  /\ enc \in Listed(bytes) \cap ObjNums
                              /\ ItemOf(bytes, enc).kind = "obj"
                              /\ ItemOf(bytes, enc).val = EncDict
    /\ CatalogOf(bytes) \in Catalog
    /\ CatalogOf(bytes).pages \in ObjNums
    /\ HasPages(ReadIn(bytes, CatalogOf(bytes).pages))
    /\ shown = [n \in CatalogOf(bytes).uses \ {RootOf(bytes)} |-> ReadIn(bytes, n)]

(* The loading of such a file: the entries D of its section are loaded.    *)
InfoAt(p) == [type |-> "normal", stm |-> FALSE, gen |-> 0, pos |-> p,
              archive |-> 0]
TableHas(t, bytes, D) ==
    /\ D \subseteq DOMAIN t
    /\ \A n : InfoOf(t, n) = IF n \in D THEN InfoAt(Section(bytes).entries[n].pos)
                             ELSE NoInfo

NotLoaded == IF pc \in {"find", "front"} THEN Listed(file) ELSE todo

LoadsAlone ==
    /\ pc \in {"start", "main", "find", "entries", "front", "verify", "second",
               "encrypt", "root"}
    /\ ~rebuilt /\ ~retried
    /\ pc = "start" \/ lastXRef = Len(file) - 1
    /\ pc \notin {"start", "main"} =>
         /\ xrefList = <<Len(file) - 1>> /\ prev = 0
         /\ trailer = Section(file).trailer
         /\ TableHas(table, file, Listed(file) \ NotLoaded)
    /\ pc = "entries" => next = "verify"
    /\ pc = "encrypt" => DOMAIN mem = {}
    /\ pc = "root" => /\ handler = IsLocked(file)
                      /\ \A n \in DOMAIN mem : mem[n] = ReadIn(file, n)

-----------------------------------------------------------------------------
(* Numbers in their order.                                                 *)
LEMMA FirstNumber ==
    ASSUME NEW S \in SUBSET Nat, IsFiniteSet(S), S # {}
    PROVE  \E x \in S : IsLeast(x, S)
<1>1. PICK last \in S : \A y \in S : y <= last
  BY LastNumber
<1> DEFINE T == {last - x : x \in S}
           f == [x \in S |-> last - x]
<1>2. T \in SUBSET Nat /\ T # {}
  <2>1. \A x \in S : x \in Nat /\ last \in Nat /\ x <= last
    BY <1>1
  <2> QED BY <2>1
<1>3. IsFiniteSet(T)
  <2>1. f \in Surjection(S, T)
    BY DEF Surjection
  <2> HIDE DEF T, f
  <2> QED BY <2>1, FS_Surjection
<1>4. PICK z \in T : \A y \in T : y <= z
  <2> HIDE DEF T
  <2> QED BY <1>2, <1>3, LastNumber
<1>5. PICK x \in S : z = last - x
  OBVIOUS
<1>6. \A y \in S : x <= y
  <2> SUFFICES ASSUME NEW y \in S
               PROVE  x <= y
    OBVIOUS
  <2>1. last - y <= last - x
    BY <1>4, <1>5
  <2>2. x \in Nat /\ y \in Nat /\ last \in Nat
    OBVIOUS
  <2> QED BY <2>1, <2>2
<1> QED BY <1>6 DEF IsLeast

(* Every number of a set is somewhere in its order.                        *)
LEMMA SortedCovers ==
    ASSUME NEW S \in SUBSET Nat, IsFiniteSet(S), NEW n \in S
    PROVE  \E i \in DOMAIN Sorted(S) : Sorted(S)[i] = n
<1> DEFINE Below(x) == {m \in S : m < x}
           i == Cardinality(Below(n)) + 1
<1>1. \A x \in S : /\ IsFiniteSet(Below(x)) /\ Cardinality(Below(x)) \in Nat
                   /\ Cardinality(Below(x)) < Cardinality(S)
  <2> SUFFICES ASSUME NEW x \in S
               PROVE  /\ IsFiniteSet(Below(x)) /\ Cardinality(Below(x)) \in Nat
                      /\ Cardinality(Below(x)) < Cardinality(S)
    OBVIOUS
  <2>1. Below(x) \subseteq S /\ Below(x) # S
    OBVIOUS
  <2> HIDE DEF Below
  <2> QED BY <2>1, FS_Subset, FS_CardinalityType
<1>2. ASSUME NEW x \in S, NEW y \in S, x < y
      PROVE  Cardinality(Below(x)) # Cardinality(Below(y))
  <2>0. S \subseteq Nat /\ x \in Nat /\ y \in Nat
    OBVIOUS
  <2>1. Below(x) \subseteq Below(y) /\ x \in Below(y) /\ x \notin Below(x)
    <3>1. \A m \in Nat : m < x => m < y
      BY <1>2, <2>0
    <3>2. ~(x < x)
      BY <2>0
    <3> QED BY <1>2, <2>0, <3>1, <3>2, Zenon
  <2>2. IsFiniteSet(Below(y))
    BY <1>1
  <2> HIDE DEF Below
  <2> QED BY <2>1, <2>2, FS_Subset
<1>3. \A x, y \in S : Cardinality(Below(x)) = Cardinality(Below(y)) => x = y
  <2> SUFFICES ASSUME NEW x \in S, NEW y \in S, x # y
               PROVE  Cardinality(Below(x)) # Cardinality(Below(y))
    OBVIOUS
  <2>1. x < y \/ y < x
    OBVIOUS
  <2> HIDE DEF Below
  <2> QED BY <1>2, <2>1
<1>4. Cardinality(S) \in Nat
  BY FS_CardinalityType
<1>5. i \in 1 .. Cardinality(S) /\ i - 1 = Cardinality(Below(n))
  BY <1>1, <1>4
<1> DEFINE c == CHOOSE x \in S : Cardinality(Below(x)) = i - 1
<1>6. c \in S /\ Cardinality(Below(c)) = i - 1
  <2> HIDE DEF Below, i
  <2> QED BY <1>5
<1>7. c = n
  <2> HIDE DEF Below, i, c
  <2> QED BY <1>3, <1>5, <1>6
<1>8. DOMAIN Sorted(S) = 1 .. Cardinality(S) /\ Sorted(S)[i] = c
  <2>1. DOMAIN Sorted(S) = 1 .. Cardinality(S)
    BY DEF Sorted
  <2>2. Sorted(S)[i] = CHOOSE x \in S : Cardinality({m \in S : m < x}) = i - 1
    BY <1>5 DEF Sorted
  <2> QED BY <2>1, <2>2
<1> HIDE DEF i, c
<1> QED BY <1>5, <1>7, <1>8

(* What is written at the place that is listed for a number.               *)
LEMMA OffsetsPlace ==
    ASSUME NEW ns, NEW n \in DOMAIN Offsets(ns, 0), DOMAIN ns \in SUBSET Nat
    PROVE  LET p == Offsets(ns, 0)[n]
           IN  p \in DOMAIN ns /\ ns[p] = n
<1>1. /\ DOMAIN Offsets(ns, 0) = {ns[i] : i \in DOMAIN ns}
      /\ Offsets(ns, 0)[n] = 0 + CHOOSE i \in DOMAIN ns : ns[i] = n
  BY DEF Offsets
<1> DEFINE c == CHOOSE i \in DOMAIN ns : ns[i] = n
<1>2. c \in DOMAIN ns /\ ns[c] = n
  BY <1>1
<1>3. 0 + c = c
  BY <1>2
<1> QED BY <1>1, <1>2, <1>3

-----------------------------------------------------------------------------
(* What a full copy holds.                                                 *)
EncHeld ==
    pc \in {"root", "open"} /\ handler =>
      trailer.enc < 0 \/ (trailer.enc \in DOMAIN mem /\ mem[trailer.enc] = EncDict)

FullNumbers == Sorted(OldWritten) \o Sorted(NewObjs)

(* All that the document refers to and has is written, and beside it only  *)
(* what is in memory or an old section, and no number is above the last.   *)
LEMMA FullNumbersFacts ==
    ASSUME LoadInv, DocInv, pc = "open"
    PROVE  /\ FullNumbers \in Seq(OldWritten \cup NewObjs)
           /\ Len(FullNumbers) \in Nat /\ DOMAIN FullNumbers = 1 .. Len(FullNumbers)
           /\ FullLast \in Nat /\ OldWritten \cup NewObjs \in SUBSET Nat
           /\ \A i \in DOMAIN FullNumbers :
                FullNumbers[i] \in OldWritten \cup NewObjs /\ FullNumbers[i] <= FullLast
           /\ \A n \in Present : \E i \in DOMAIN FullNumbers : FullNumbers[i] = n
<1> DEFINE D == ObjNums \cup {trailer.num}
<1>1. /\ FileOK /\ StreamsTyped /\ MemTyped /\ lastObj \in Nat /\ IsTable(table)
      /\ trailer \in Trailer
      /\ \A n \in DOMAIN mem \cup DOMAIN table : n <= lastObj
  BY DEF LoadInv, Typed, DocInv
<1>2. D \in SUBSET Nat /\ IsFiniteSet(D)
  BY <1>1, FS_AddElement, SaveAssumption, LoadAssumption DEF Trailer
<1>3. OldObjs \in SUBSET D /\ OldWritten \in SUBSET OldObjs /\ NewObjs \in SUBSET D
  BY <1>1, GotFacts DEF OldObjs, OldWritten, Referenced, Present, NewObjs, MemTyped
<1> HIDE DEF D
<1>4. \A n \in OldWritten \cup NewObjs : n \in Nat /\ n <= lastObj
  <2>1. \A n \in OldWritten \cup NewObjs : n \in DOMAIN table \cup DOMAIN mem
    BY DEF OldWritten, NewObjs, IsFree
  <2> QED BY <1>1, <1>2, <1>3, <2>1
<1>5. Present \subseteq OldWritten \cup NewObjs
  <2> SUFFICES ASSUME NEW n \in Present, n \notin NewObjs
               PROVE  n \in OldWritten
    OBVIOUS
  <2>1. Got(n) # Null
    BY DEF Present
  <2>2. n \in DOMAIN table /\ ~IsFree(n)
    BY <2>1 DEF NewObjs, IsFree, Got, Parse, InfoOf
  <2>3. n <= ParserLast
    BY <1>1, <2>2, ParserLastFacts
  <2> QED BY <2>1, <2>2, <2>3 DEF OldWritten, OldObjs, Referenced
<1>6. /\ IsFiniteSet(OldObjs) /\ IsFiniteSet(OldWritten) /\ IsFiniteSet(NewObjs)
      /\ OldObjs \in SUBSET Nat /\ OldWritten \in SUBSET Nat
      /\ NewObjs \in SUBSET Nat
  BY <1>2, <1>3, FS_Subset
<1>7. FullLast \in Nat
  BY <1>1, <1>6, MaxOfFacts DEF FullLast
<1>8. /\ Sorted(OldWritten) \in Seq(OldWritten) /\ Sorted(NewObjs) \in Seq(NewObjs)
      /\ \A n \in OldWritten : \E i \in DOMAIN Sorted(OldWritten) :
                                 Sorted(OldWritten)[i] = n
      /\ \A n \in NewObjs : \E i \in DOMAIN Sorted(NewObjs) : Sorted(NewObjs)[i] = n
  BY <1>6, SortedFacts, SortedCovers
<1>9. PICK s \in Seq(OldWritten), t \in Seq(NewObjs) :
        /\ FullNumbers = s \o t
        /\ \A n \in OldWritten : \E i \in DOMAIN s : s[i] = n
        /\ \A n \in NewObjs : \E i \in DOMAIN t : t[i] = n
  BY <1>8 DEF FullNumbers
<1>10. /\ Len(s) \in Nat /\ Len(t) \in Nat
       /\ DOMAIN s = 1 .. Len(s) /\ DOMAIN t = 1 .. Len(t)
       /\ \A i \in 1 .. Len(s) : s[i] \in OldWritten
       /\ \A i \in 1 .. Len(t) : t[i] \in NewObjs
  OBVIOUS
<1> DEFINE W == OldWritten \cup NewObjs
<1>11. s \in Seq(W) /\ t \in Seq(W)
  BY SeqMonotonic
<1> HIDE DEF W
<1>12. /\ FullNumbers \in Seq(W) /\ Len(FullNumbers) = Len(s) + Len(t)
       /\ \A i \in 1 .. Len(s) : FullNumbers[i] = s[i]
       /\ \A i \in 1 .. Len(t) : FullNumbers[Len(s) + i] = t[i]
  BY <1>9, <1>10, <1>11
<1>13. /\ Len(FullNumbers) \in Nat /\ DOMAIN FullNumbers = 1 .. (Len(s) + Len(t))
       /\ \A i \in DOMAIN FullNumbers : FullNumbers[i] \in W
  BY <1>10, <1>12
<1>14. \A n \in W : n <= FullLast
  <2>1. CASE NewObjs = {}
    <3>1. FullLast = MaxOf(OldObjs) /\ W \subseteq OldObjs
      BY <1>3, <2>1 DEF FullLast, W
    <3> QED BY <1>6, <3>1, MaxOfFacts
  <2>2. CASE NewObjs # {}
    BY <1>4, <2>2 DEF FullLast, W
  <2> QED BY <2>1, <2>2
<1>15. ASSUME NEW n \in Present
       PROVE  \E i \in DOMAIN FullNumbers : FullNumbers[i] = n
  <2>1. CASE n \in OldWritten
    <3>1. PICK i \in 1 .. Len(s) : s[i] = n
      BY <1>9, <1>10, <2>1
    <3>2. i \in 1 .. (Len(s) + Len(t))
      BY <1>10
    <3> QED BY <1>12, <1>13, <3>1, <3>2
  <2>2. CASE n \in NewObjs
    <3>1. PICK i \in 1 .. Len(t) : t[i] = n
      BY <1>9, <1>10, <2>2
    <3>2. Len(s) + i \in 1 .. (Len(s) + Len(t))
      BY <1>10
    <3> QED BY <1>12, <1>13, <3>1, <3>2
  <2> QED BY <1>5, <2>1, <2>2
<1>16. DOMAIN FullNumbers = 1 .. Len(FullNumbers)
  BY <1>12, <1>13
<1>17. W \in SUBSET Nat
  BY <1>6 DEF W
<1> QED BY <1>7, <1>12, <1>13, <1>14, <1>15, <1>16, <1>17 DEF W

(* What is written for a number: the object, or the old section.           *)
LEMMA AgainFacts ==
    ASSUME LoadInv, NEW n \in OldWritten \cup NewObjs, NEW crypt \in BOOLEAN
    PROVE  LET item == WrittenAgain(n, crypt)
           IN  /\ item.kind \in {"obj", "stream"} /\ item.num = n
               /\ Got(n) # Null => item = Written(n, crypt)
               /\ Got(n) = Null => item.kind = "stream"
<1>1. CASE Got(n) # Null
  <2>1. WrittenAgain(n, crypt) = Written(n, crypt)
    BY <1>1 DEF WrittenAgain
  <2> QED BY <1>1, <2>1 DEF Written
<1>2. CASE Got(n) = Null
  <2>1. IsOldSection(n)
    <3>1. n \notin NewObjs
      BY <1>2, LoadAssumption, CatalogAssumption
         DEF NewObjs, Got, LoadInv, Typed, MemTyped, Value
    <3> QED BY <1>2, <3>1 DEF OldWritten
  <2>2. WrittenAgain(n, crypt) = [At(table[n].pos) EXCEPT !.gen = 0]
    BY <1>2 DEF WrittenAgain
  <2> DEFINE old == At(table[n].pos)
  <2>3. old.kind = "stream" /\ old.num = n
    BY <2>1 DEF IsOldSection, Is
  <2> HIDE DEF old
  <2>4. [old EXCEPT !.gen = 0].kind = "stream" /\ [old EXCEPT !.gen = 0].num = n
    BY <2>3
  <2> QED BY <1>2, <2>2, <2>4 DEF old
<1> QED BY <1>1, <1>2

(* The end of a copy.                                                      *)
LEMMA EndFacts ==
    ASSUME NEW S, NEW s \in Seq(S), NEW x, NEW y
    PROVE  LET c == s \o <<x, y>>
           IN  /\ Len(c) = Len(s) + 2 /\ DOMAIN c = 1 .. (Len(s) + 2)
               /\ c[Len(s) + 1] = x /\ c[Len(s) + 2] = y
               /\ \A i \in DOMAIN s : i \in DOMAIN c /\ c[i] = s[i]
<1>1. s \in Seq(S \cup {x, y}) /\ <<x, y>> \in Seq(S \cup {x, y})
  BY SeqMonotonic
<1>2. Len(<<x, y>>) = 2 /\ <<x, y>>[1] = x /\ <<x, y>>[2] = y
  OBVIOUS
<1> QED BY <1>1, <1>2

(* The encryption dictionary of an encrypted document is found, and the    *)
(* one that has no number gets one.                                        *)
LEMMA EncFacts ==
    ASSUME LoadInv, DocInv, EncHeld, pc = "open", NEW crypt \in {handler, FALSE},
           ~(crypt /\ (EncLost \/ EncNumberTaken))
    PROVE  /\ crypt \in BOOLEAN
           /\ crypt <=> EncNumber(crypt) # 0
           /\ InlineEnc(crypt) => /\ FullLast = lastObj
                                  /\ EncNumber(crypt) = lastObj + 1
                                  /\ lastObj + 1 \in ObjNums \ InUse
           /\ crypt /\ ~InlineEnc(crypt) =>
                /\ EncNumber(crypt) = trailer.enc
                /\ trailer.enc \in DOMAIN mem /\ mem[trailer.enc] = EncDict
<1>1. /\ handler \in BOOLEAN /\ trailer.enc \in Int /\ lastObj \in Nat /\ MemTyped
  BY DEF LoadInv, Typed, DocInv, Trailer
<1>2. crypt \in BOOLEAN
  BY <1>1
<1>3. CASE ~crypt
  <2>1. EncNumber(crypt) = 0
    BY <1>3 DEF EncNumber
  <2>2. ~InlineEnc(crypt)
    BY <1>3, Zenon DEF InlineEnc
  <2> QED BY <1>2, <1>3, <2>1, <2>2
<1>4. CASE crypt
  <2>1. handler
    BY <1>4
  <2>2. ~EncLost /\ ~EncNumberTaken
    BY <1>4
  <2>3. CASE trailer.enc < 0
    <3>1. InlineEnc(handler) /\ InlineEnc(crypt)
      BY <1>4, <2>1, <2>3 DEF InlineEnc
    <3>2. FullLast = lastObj /\ lastObj + 1 \in ObjNums \ InUse
      BY <2>2, <3>1 DEF EncLost, EncNumberTaken
    <3>3. EncNumber(crypt) = lastObj + 1
      BY <1>4, <2>3 DEF EncNumber
    <3>4. lastObj + 1 # 0
      BY <1>1
    <3> QED BY <1>2, <1>4, <3>1, <3>2, <3>3, <3>4
  <2>4. CASE ~(trailer.enc < 0)
    <3>1. trailer.enc \in DOMAIN mem /\ mem[trailer.enc] = EncDict
      BY <2>1, <2>4 DEF EncHeld
    <3>2. trailer.enc # 0
      BY <1>1, <3>1, LoadAssumption DEF MemTyped
    <3>3. EncNumber(crypt) = trailer.enc /\ ~InlineEnc(crypt)
      BY <1>4, <2>4 DEF EncNumber, InlineEnc
    <3> QED BY <1>2, <1>4, <3>1, <3>2, <3>3
  <2> QED BY <2>3, <2>4
<1> QED BY <1>2, <1>3, <1>4

(* A full copy lists every object that the document refers to and has, at  *)
(* the place where it is, and none that it does not have.                  *)
LEMMA FullCopyShows ==
    ASSUME LoadInv, DocInv, EncHeld, pc = "open", NEW crypt \in {handler, FALSE},
           ~(crypt /\ (EncLost \/ EncNumberTaken)), HasPagesIn(View)
    PROVE  ShowsAlone(FullCopy(crypt), View)
<1> DEFINE ns == FullNumbers
           inline == InlineEnc(crypt)
           withEnc == IF inline THEN Append(ns, FullLast + 1) ELSE ns
           last == IF inline THEN FullLast + 1 ELSE FullLast
           objs == [i \in DOMAIN withEnc |->
                      IF i \in DOMAIN ns THEN WrittenAgain(ns[i], crypt)
                      ELSE EncItem(withEnc[i])]
           offsets == Offsets(withEnc, 0)
           listed == [n \in {m \in DOMAIN offsets : m <= last} |-> offsets[n]]
           tr == [root |-> trailer.root, size |-> last + 1, prev |-> 0,
                  xrefstm |-> 0, enc |-> EncNumber(crypt), num |-> 0]
           xref == [kind |-> "table", entries |-> Entries(listed), trailer |-> tr]
           end == StartXRefItem(Len(objs) + 1)
           c == objs \o <<xref, end>>
           D == OldWritten \cup NewObjs
<1>1. /\ FileOK /\ StreamsTyped /\ MemTyped /\ lastObj \in Nat
      /\ trailer.root \in DOMAIN mem /\ mem[trailer.root] \in Catalog
  BY DEF LoadInv, Typed, DocInv, IsCatalog
<1>2. /\ ns \in Seq(D) /\ Len(ns) \in Nat /\ DOMAIN ns = 1 .. Len(ns)
      /\ FullLast \in Nat
      /\ \A i \in DOMAIN ns : ns[i] \in D /\ ns[i] <= FullLast
      /\ \A n \in Present : \E i \in DOMAIN ns : ns[i] = n
  BY FullNumbersFacts
<1>3. /\ crypt \in BOOLEAN /\ (crypt <=> EncNumber(crypt) # 0)
      /\ inline => /\ crypt /\ FullLast = lastObj /\ EncNumber(crypt) = lastObj + 1
                   /\ lastObj + 1 \in ObjNums \ InUse
      /\ crypt /\ ~inline => /\ EncNumber(crypt) = trailer.enc
                             /\ trailer.enc \in DOMAIN mem
                             /\ mem[trailer.enc] = EncDict
  BY EncFacts DEF InlineEnc
<1>4. /\ Present = {n \in InUse \cup {trailer.root, trailer.enc} : Got(n) # Null}
      /\ \A n \in DOMAIN mem : Got(n) = mem[n] /\ n \in ObjNums /\ Got(n) # Null
  BY <1>1, LoadAssumption, CatalogAssumption DEF Present, Got, MemTyped, Value
<1>5. D \in SUBSET Nat
  BY FullNumbersFacts
<1>6. \A n \in D : LET item == WrittenAgain(n, crypt)
                   IN  /\ item.kind \in {"obj", "stream"} /\ item.num = n
                       /\ Got(n) # Null => item = Written(n, crypt)
                       /\ Got(n) = Null => item.kind = "stream"
  BY <1>3, AgainFacts
<1>7. FullCopy(crypt) = c
  BY DEF FullCopy, FullNumbers
<1> HIDE DEF ns, inline, D
<1>8. /\ DOMAIN withEnc = 1 .. Len(withEnc) /\ Len(withEnc) \in Nat
      /\ DOMAIN ns \subseteq DOMAIN withEnc
      /\ \A i \in DOMAIN ns : withEnc[i] = ns[i]
      /\ \A i \in DOMAIN withEnc \ DOMAIN ns : inline /\ withEnc[i] = FullLast + 1
      /\ inline => /\ Len(ns) + 1 \in DOMAIN withEnc \ DOMAIN ns
                   /\ withEnc[Len(ns) + 1] = FullLast + 1
  <2>1. CASE ~inline
    BY <1>2, <2>1
  <2>2. CASE inline
    <3>1. ns \in Seq(D \cup {FullLast + 1})
      BY <1>2, SeqMonotonic
    <3>2. /\ Append(ns, FullLast + 1) \in Seq(D \cup {FullLast + 1})
          /\ Len(Append(ns, FullLast + 1)) = Len(ns) + 1
          /\ DOMAIN Append(ns, FullLast + 1) = 1 .. (Len(ns) + 1)
          /\ \A i \in 1 .. Len(ns) : Append(ns, FullLast + 1)[i] = ns[i]
          /\ Append(ns, FullLast + 1)[Len(ns) + 1] = FullLast + 1
      BY <3>1
    <3> QED BY <1>2, <2>2, <3>2
  <2> QED BY <2>1, <2>2
<1> HIDE DEF withEnc
<1>9. \A i \in DOMAIN withEnc : withEnc[i] <= last /\ withEnc[i] \in Nat
  <2> SUFFICES ASSUME NEW i \in DOMAIN withEnc
               PROVE  withEnc[i] <= last /\ withEnc[i] \in Nat
    OBVIOUS
  <2>1. CASE i \in DOMAIN ns
    <3>1. ns[i] \in Nat /\ ns[i] <= FullLast
      BY <1>2, <1>5, <2>1
    <3> QED BY <1>2, <1>8, <2>1, <3>1
  <2>2. CASE i \notin DOMAIN ns
    BY <1>2, <1>8, <2>2
  <2> QED BY <2>1, <2>2
<1>10. /\ DOMAIN offsets = {withEnc[i] : i \in DOMAIN withEnc}
       /\ \A n \in DOMAIN offsets : /\ offsets[n] \in DOMAIN withEnc
                                    /\ withEnc[offsets[n]] = n
  <2>1. DOMAIN offsets = {withEnc[i] : i \in DOMAIN withEnc}
    BY DEF Offsets
  <2>2. DOMAIN withEnc \in SUBSET Nat
    BY <1>8
  <2> QED BY <2>1, <2>2, OffsetsPlace
<1> HIDE DEF offsets
<1>11. listed = [n \in DOMAIN offsets |-> offsets[n]]
  <2>1. \A n \in DOMAIN offsets : n <= last
    BY <1>9, <1>10
  <2> QED BY <2>1
<1>12. last \in Nat
  BY <1>2
<1> HIDE DEF last, listed
<1>13. /\ DOMAIN objs = DOMAIN withEnc /\ Len(objs) = Len(withEnc)
       /\ objs \in Seq({objs[i] : i \in DOMAIN withEnc})
       /\ \A i \in DOMAIN ns : objs[i] = WrittenAgain(ns[i], crypt)
       /\ \A i \in DOMAIN withEnc \ DOMAIN ns : objs[i] = EncItem(withEnc[i])
  <2>1. DOMAIN objs = 1 .. Len(withEnc)
    BY <1>8
  <2>2. /\ \A i \in DOMAIN ns : objs[i] = WrittenAgain(ns[i], crypt)
        /\ \A i \in DOMAIN withEnc \ DOMAIN ns : objs[i] = EncItem(withEnc[i])
    BY <1>8
  <2>3. objs \in [1 .. Len(withEnc) -> {objs[i] : i \in DOMAIN withEnc}]
    BY <1>8
  <2> HIDE DEF objs
  <2>4. objs \in Seq({objs[i] : i \in DOMAIN withEnc})
    BY <1>8, <2>3, SeqDef
  <2>5. Len(objs) = Len(withEnc)
    BY <1>8, <2>1, <2>4
  <2> QED BY <1>8, <2>1, <2>2, <2>4, <2>5
<1> HIDE DEF objs
<1>14. /\ Len(c) = Len(withEnc) + 2 /\ DOMAIN c = 1 .. (Len(withEnc) + 2)
       /\ c[Len(withEnc) + 1] = xref /\ c[Len(withEnc) + 2] = end
       /\ \A i \in DOMAIN withEnc : i \in DOMAIN c /\ c[i] = objs[i]
  <2> HIDE DEF xref, end
  <2> QED BY <1>13, EndFacts
<1>15. end = StartXRefItem(Len(withEnc) + 1)
  BY <1>13
<1> HIDE DEF c, end
<1>16. Section(c) = xref /\ Len(c) - 1 = Len(withEnc) + 1
  BY <1>8, <1>14 DEF Section
<1>17. /\ Listed(c) = DOMAIN offsets
       /\ \A n \in Listed(c) : /\ Section(c).entries[n] = NormalEntry(offsets[n])
                               /\ NormalEntry(offsets[n]).pos = offsets[n]
  BY <1>11, <1>16 DEF Listed, Entries, NormalEntry
<1>18. \A n \in Listed(c) : ItemOf(c, n) = objs[offsets[n]]
  BY <1>10, <1>14, <1>17 DEF ItemOf
<1>19. /\ Section(c).kind = "table" /\ Section(c).trailer = tr
       /\ RootOf(c) = trailer.root /\ tr.prev = 0 /\ tr.size = last + 1
       /\ tr.enc = EncNumber(crypt) /\ IsLocked(c) = (EncNumber(crypt) # 0)
  BY <1>16 DEF RootOf, IsLocked
<1> HIDE DEF xref, tr
<1>20. \A n \in Listed(c) : /\ ItemOf(c, n).kind \in {"obj", "stream"}
                            /\ ItemOf(c, n).num = n
  <2> SUFFICES ASSUME NEW n \in Listed(c)
               PROVE  /\ ItemOf(c, n).kind \in {"obj", "stream"}
                      /\ ItemOf(c, n).num = n
    OBVIOUS
  <2>1. offsets[n] \in DOMAIN withEnc /\ withEnc[offsets[n]] = n
    BY <1>10, <1>17
  <2>2. CASE offsets[n] \in DOMAIN ns
    <3>1. ItemOf(c, n) = WrittenAgain(n, crypt) /\ n \in D
      BY <1>2, <1>8, <1>13, <1>18, <2>1, <2>2
    <3> QED BY <1>6, <3>1
  <2>3. CASE offsets[n] \notin DOMAIN ns
    <3>1. ItemOf(c, n) = EncItem(n)
      BY <1>13, <1>18, <2>1, <2>3
    <3> QED BY <3>1 DEF EncItem
  <2> QED BY <2>2, <2>3
<1>21. StandsAlone(c)
  <2>1. Len(c) \in Nat /\ Len(c) > 1 /\ DOMAIN c = 1 .. Len(c)
    BY <1>8, <1>14
  <2>2. c[Len(c)] = StartXRefItem(Len(c) - 1)
    BY <1>14, <1>15, <1>16
  <2>3. Section(c).trailer.prev = 0 /\ Section(c).trailer.size > 0
    BY <1>12, <1>19
  <2>4. ASSUME NEW n \in Listed(c)
        PROVE  LET p == Section(c).entries[n].pos
               IN  /\ Section(c).entries[n] = NormalEntry(p) /\ p \in DOMAIN c
                   /\ c[p].kind \in {"obj", "stream"} /\ c[p].num = n
    <3>1. Section(c).entries[n].pos = offsets[n] /\ offsets[n] \in DOMAIN c
      BY <1>10, <1>14, <1>17
    <3>2. ItemOf(c, n) = c[Section(c).entries[n].pos]
      BY DEF ItemOf
    <3> QED BY <1>17, <1>20, <3>1, <3>2
  <2> QED BY <1>19, <2>1, <2>2, <2>3, <2>4 DEF StandsAlone
<1>22. ASSUME NEW n \in Present
       PROVE  n \in Listed(c) /\ ItemOf(c, n) = Written(n, crypt)
  <2>1. PICK i \in DOMAIN ns : ns[i] = n
    BY <1>2
  <2>2. n \in Listed(c)
    BY <1>8, <1>10, <1>17, <2>1
  <2>3. offsets[n] \in DOMAIN withEnc /\ withEnc[offsets[n]] = n
    BY <1>10, <1>17, <2>2
  <2>4. offsets[n] \in DOMAIN ns
    <3> SUFFICES ASSUME offsets[n] \notin DOMAIN ns
                 PROVE  FALSE
      OBVIOUS
    <3>1. n = FullLast + 1
      BY <1>8, <2>3
    <3>2. n <= FullLast
      BY <1>2, <2>1
    <3> QED BY <1>2, <3>1, <3>2
  <2>5. n \in D /\ Got(n) # Null
    BY <1>2, <1>4, <2>1
  <2>6. ItemOf(c, n) = WrittenAgain(n, crypt)
    BY <1>8, <1>13, <1>18, <2>2, <2>3, <2>4
  <2> QED BY <1>6, <2>2, <2>5, <2>6
<1>23. ASSUME NEW n \in Present
       PROVE  ReadIn(c, n) = Got(n)
  <2>1. n \in Listed(c) /\ ItemOf(c, n) = Written(n, crypt)
    BY <1>22
  <2>3. /\ ItemOf(c, n).val = Got(n) /\ ItemOf(c, n).kind = "obj"
        /\ ItemOf(c, n).locked = (crypt /\ Got(n) # EncDict)
    BY <2>1 DEF Written
  <2>4. IsLocked(c) = crypt
    BY <1>3, <1>19
  <2>5. Got(n) \in Data => ItemOf(c, n).locked = IsLocked(c)
    <3>1. Got(n) \in Data => Got(n) # EncDict
      BY LoadAssumption
    <3> QED BY <1>3, <2>3, <2>4, <3>1
  <2> QED BY <2>1, <2>3, <2>5 DEF ReadIn
<1>24. RootOf(c) \in Listed(c) \cap ObjNums /\ CatalogOf(c) = mem[trailer.root]
  <2>1. /\ trailer.root \in Present /\ trailer.root \in ObjNums
        /\ Got(trailer.root) = mem[trailer.root]
    BY <1>1, <1>4
  <2> QED BY <1>19, <1>22, <1>23, <2>1 DEF CatalogOf
<1>25. IsLocked(c) => LET enc == Section(c).trailer.enc
                      IN  /\ enc \in Listed(c) \cap ObjNums
                          /\ ItemOf(c, enc).kind = "obj"
                          /\ ItemOf(c, enc).val = EncDict
  <2> SUFFICES ASSUME crypt
               PROVE  /\ EncNumber(crypt) \in Listed(c) \cap ObjNums
                      /\ ItemOf(c, EncNumber(crypt)).kind = "obj"
                      /\ ItemOf(c, EncNumber(crypt)).val = EncDict
    BY <1>3, <1>19
  <2>1. CASE inline
    <3>1. EncNumber(crypt) = FullLast + 1 /\ FullLast + 1 \in ObjNums
      BY <1>3, <2>1
    <3>2. FullLast + 1 \in Listed(c)
      BY <1>8, <1>10, <1>17, <2>1
    <3>3. /\ offsets[FullLast + 1] \in DOMAIN withEnc
          /\ withEnc[offsets[FullLast + 1]] = FullLast + 1
      BY <1>10, <1>17, <3>2
    <3>4. offsets[FullLast + 1] \notin DOMAIN ns
      <4> SUFFICES ASSUME offsets[FullLast + 1] \in DOMAIN ns
                   PROVE  FALSE
        OBVIOUS
      <4>1. FullLast + 1 <= FullLast
        BY <1>2, <1>8, <3>3
      <4> QED BY <1>2, <4>1
    <3>5. ItemOf(c, FullLast + 1) = EncItem(FullLast + 1)
      BY <1>13, <1>18, <3>2, <3>3, <3>4
    <3>6. EncItem(FullLast + 1).kind = "obj" /\ EncItem(FullLast + 1).val = EncDict
      BY DEF EncItem
    <3>7. EncNumber(crypt) \in Listed(c) /\ EncNumber(crypt) \in ObjNums
      BY <3>1, <3>2
    <3>8. /\ ItemOf(c, EncNumber(crypt)).kind = "obj"
          /\ ItemOf(c, EncNumber(crypt)).val = EncDict
      BY <3>1, <3>5, <3>6
    <3> QED BY <3>7, <3>8
  <2>2. CASE ~inline
    <3>1. /\ EncNumber(crypt) = trailer.enc /\ trailer.enc \in DOMAIN mem
          /\ mem[trailer.enc] = EncDict
      BY <1>3, <2>2
    <3>2. trailer.enc \in Present /\ trailer.enc \in ObjNums
      BY <1>4, <3>1
    <3>3. /\ ItemOf(c, trailer.enc).kind = "obj"
          /\ ItemOf(c, trailer.enc).val = Got(trailer.enc)
      BY <1>22, <3>2 DEF Written
    <3>4. Got(trailer.enc) = EncDict
      BY <1>4, <3>1
    <3> QED BY <1>22, <3>1, <3>2, <3>3, <3>4
  <2> QED BY <2>1, <2>2
<1>26. ASSUME NEW n \in InUse
       PROVE  ReadIn(c, n) = Got(n)
  <2>1. CASE Got(n) # Null
    BY <1>4, <1>23, <2>1
  <2>2. CASE Got(n) = Null
    <3>1. n \in Listed(c) => ItemOf(c, n).kind # "obj"
      <4> SUFFICES ASSUME n \in Listed(c)
                   PROVE  ItemOf(c, n).kind # "obj"
        OBVIOUS
      <4>1. offsets[n] \in DOMAIN withEnc /\ withEnc[offsets[n]] = n
        BY <1>10, <1>17
      <4>2. offsets[n] \in DOMAIN ns
        BY <1>3, <1>8, <4>1
      <4>3. ItemOf(c, n) = WrittenAgain(n, crypt) /\ n \in D
        BY <1>2, <1>8, <1>13, <1>18, <4>1, <4>2
      <4> QED BY <1>6, <2>2, <4>3
    <3> QED BY <2>2, <3>1 DEF ReadIn
  <2> QED BY <2>1, <2>2
<1>27. View = [n \in CatalogOf(c).uses \ {RootOf(c)} |-> ReadIn(c, n)]
  BY <1>19, <1>24, <1>26 DEF View, InUse
<1>28. CatalogOf(c).pages \in ObjNums /\ HasPages(ReadIn(c, CatalogOf(c).pages))
  <2>1. /\ PagesRoot = mem[trailer.root].pages
        /\ PagesRoot \in InUse \cup {0} /\ InUse \in SUBSET ObjNums
    BY <1>1, <1>4 DEF PagesRoot, Root, IsCatalog, Catalog, InUse
  <2>2. HasPages(Got(PagesRoot))
    BY DEF HasPagesIn, View
  <2>3. Got(0) = Null
    BY <1>4, LoadAssumption DEF Got
  <2>4. ~HasPages(Null)
    BY LoadAssumption, CatalogAssumption DEF HasPages
  <2>5. PagesRoot \in InUse
    BY <2>1, <2>2, <2>3, <2>4
  <2> QED BY <1>24, <1>26, <2>1, <2>2, <2>5
<1> QED BY <1>1, <1>7, <1>21, <1>24, <1>25, <1>27, <1>28 DEF ShowsAlone

-----------------------------------------------------------------------------
(* Loading a file that stands alone.                                       *)
LEMMA AloneSection ==
    ASSUME StandsAlone(file)
    PROVE  LET k == Len(file) - 1
           IN  /\ k \in Nat /\ k > 0 /\ At(k) = Section(file) /\ Is(k, "table")
               /\ StartXRef = {k}
               /\ \A n \in Listed(file) :
                    /\ Section(file).entries[n]
                         = NormalEntry(Section(file).entries[n].pos)
                    /\ At(Section(file).entries[n].pos) = ItemOf(file, n)
                    /\ ItemOf(file, n).kind \in {"obj", "stream"}
                    /\ ItemOf(file, n).num = n
<1> DEFINE k == Len(file) - 1
           S == {p \in DOMAIN file : Is(p, "startxref")}
<1>1. /\ Len(file) \in Nat /\ Len(file) > 1 /\ DOMAIN file = 1 .. Len(file)
      /\ file[Len(file)] = StartXRefItem(k) /\ Section(file).kind = "table"
  BY DEF StandsAlone
<1>2. k \in Nat /\ k > 0 /\ k \in DOMAIN file /\ Len(file) \in DOMAIN file
  BY <1>1
<1>3. At(k) = Section(file) /\ Is(k, "table")
  BY <1>1, <1>2 DEF At, Is, Section
<1>4. At(Len(file)).kind = "startxref" /\ At(Len(file)).pos = k
  BY <1>1, <1>2 DEF At, StartXRefItem
<1>5. StartXRef = {k}
  <2>1. Len(file) \in S /\ \A r \in S : r <= Len(file)
    BY <1>1, <1>2, <1>4 DEF Is
  <2>2. \A q \in S : (\A r \in S : r <= q) => q = Len(file)
    BY <1>1, <2>1
  <2>3. (CHOOSE q \in S : \A r \in S : r <= q) = Len(file)
    <3> HIDE DEF S
    <3> QED BY <2>1, <2>2
  <2> QED BY <1>4, <2>1, <2>3 DEF StartXRef
<1>6. ASSUME NEW n \in Listed(file)
      PROVE  /\ Section(file).entries[n] = NormalEntry(Section(file).entries[n].pos)
             /\ At(Section(file).entries[n].pos) = ItemOf(file, n)
             /\ ItemOf(file, n).kind \in {"obj", "stream"} /\ ItemOf(file, n).num = n
  BY DEF StandsAlone, At, ItemOf
<1> HIDE DEF k, S
<1>7. k = Len(file) - 1
  BY DEF k
<1> QED BY <1>2, <1>3, <1>5, <1>6, <1>7

(* What an object is once all the entries are loaded.                      *)
LEMMA ParseAlone ==
    ASSUME StandsAlone(file), TableHas(table, file, Listed(file)), NEW n
    PROVE  Parse(n) = IF n \notin Listed(file) \/ ItemOf(file, n).kind # "obj" THEN Null
                      ELSE Decrypted(ItemOf(file, n), ItemOf(file, n).val)
<1>1. CASE n \notin Listed(file)
  <2>1. InfoOf(table, n).type = "free"
    BY <1>1 DEF TableHas, NoInfo
  <2> QED BY <1>1, <2>1 DEF Parse
<1>2. CASE n \in Listed(file)
  <2> DEFINE p == Section(file).entries[n].pos
  <2>1. /\ n \in DOMAIN table /\ InfoOf(table, n).type = "normal"
        /\ InfoOf(table, n).pos = p
    BY <1>2 DEF TableHas, InfoAt
  <2>2. At(p) = ItemOf(file, n) /\ At(p).num = n
    BY <1>2, AloneSection
  <2>3. Parse(n) = ObjectAt(p, n)
    BY <2>1 DEF Parse
  <2>4. ObjectAt(p, n) = IF ItemOf(file, n).kind # "obj" THEN Null
                         ELSE Decrypted(ItemOf(file, n), ItemOf(file, n).val)
    <3> HIDE DEF p
    <3> QED BY <2>2 DEF ObjectAt, Is
  <2> QED BY <1>2, <2>3, <2>4
<1> QED BY <1>1, <1>2

LEMMA ReadAlone ==
    ASSUME StandsAlone(file), TableHas(table, file, Listed(file)),
           handler = IsLocked(file), NEW n
    PROVE  Parse(n) = ReadIn(file, n)
BY ParseAlone DEF Decrypted, ReadIn

(* An entry is put in its place.                                           *)
LEMMA EntryAlone ==
    ASSUME StandsAlone(file), FileOK, IsTable(table), NEW D, TableHas(table, file, D),
           NEW n \in Listed(file)
    PROVE  LET k == Len(file) - 1
           IN  TableHas(Merged(WithSize(table, n, k), n, k), file, D \cup {n})
<1> DEFINE p == Section(file).entries[n].pos
           u == AddNormal(table, n, 0, p)
<1>1. /\ Is(Len(file) - 1, "table") /\ At(Len(file) - 1) = Section(file)
      /\ Section(file).entries[n] = NormalEntry(p)
  BY AloneSection
<1>2. /\ WithSize(table, n, Len(file) - 1) = table
      /\ Merged(table, n, Len(file) - 1) = u
  BY <1>1 DEF WithSize, Is, Merged, MergeTableEntry, NormalEntry
<1>3. n \in Nat /\ p \in Nat
  <2>1. p \in DOMAIN file /\ DOMAIN file = 1 .. Len(file) /\ Len(file) \in Nat
    BY DEF StandsAlone
  <2>2. IsItem(At(Len(file) - 1))
    BY <1>1, ItemFacts, AloneSection DEF Is
  <2>3. DOMAIN Section(file).entries \subseteq Nat
    BY <1>1, <2>2 DEF IsItem, Is
  <2> QED BY <2>1, <2>3 DEF Listed
<1> HIDE DEF p
<1>4. InfoOf(table, n).stm = FALSE /\ InfoOf(table, n).gen = 0
  BY DEF TableHas, InfoAt, NoInfo
<1>5. u = Put(table, n, InfoAt(p))
  <2>1. ~(InfoOf(table, n).gen > 0)
    BY <1>4
  <2> QED BY <1>4, <2>1 DEF AddNormal, InfoAt
<1>6. InfoAt(p) \in ObjectInfo
  BY <1>3 DEF InfoAt, ObjectInfo, ObjectType
<1>7. /\ DOMAIN u = DOMAIN table \cup {n}
      /\ \A m : InfoOf(u, m) = IF m = n THEN InfoAt(p) ELSE InfoOf(table, m)
  <2> HIDE DEF u
  <2>1. /\ DOMAIN Put(table, n, InfoAt(p)) = DOMAIN table \cup {n}
        /\ \A m : InfoOf(Put(table, n, InfoAt(p)), m)
                   = IF m = n THEN InfoAt(p) ELSE InfoOf(table, m)
    BY DEF Put, InfoOf
  <2> QED BY <1>5, <2>1
<1> HIDE DEF u
<1> QED BY <1>2, <1>7 DEF TableHas, p

(* Every step of the loading stays on the way to what the file shows.      *)
LEMMA AloneFinds ==
    ASSUME SInv, StandsAlone(file), LoadsAlone,
           StartParse \/ MainTable \/ FindEnds \/ LoadFront
    PROVE  LoadsAlone'
<1> DEFINE k == Len(file) - 1
<1>1. /\ k \in Nat /\ k > 0 /\ At(k) = Section(file) /\ StartXRef = {k}
  BY AloneSection
<1>2. /\ StandsAlone(file) /\ Section(file).trailer.prev = 0
      /\ Section(file).trailer.size > 0 /\ k = Len(file) - 1
  BY DEF StandsAlone
<1> HIDE DEF k
<1>3. CASE StartParse
  <2>1. /\ pc = "start" /\ lastXRef' = k /\ pc' = "main"
        /\ UNCHANGED <<file, rebuilt, retried>>
    BY <1>1, <1>3 DEF StartParse
  <2> QED BY <1>2, <2>1 DEF LoadsAlone
<1>4. CASE MainTable
  <2>1. /\ pc = "main" /\ pc' = "find" /\ UNCHANGED <<file, lastXRef, rebuilt, retried>>
        /\ trailer' = At(lastXRef).trailer /\ prev' = At(lastXRef).trailer.prev
        /\ xrefList' = <<lastXRef>>
        /\ table' = IF At(lastXRef).trailer.size > 0
                    THEN SetObjectMapSize(table, At(lastXRef).trailer.size) ELSE table
    BY <1>4 DEF MainTable, resultVars
  <2>2. lastXRef = k
    BY <1>2, <2>1 DEF LoadsAlone
  <2>3. table = EmptyInfo
    BY <2>1 DEF SInv, WinsInv
  <2>4. /\ trailer' = Section(file).trailer /\ prev' = 0 /\ xrefList' = <<k>>
        /\ table' = SetObjectMapSize(EmptyInfo, Section(file).trailer.size)
    BY <1>1, <1>2, <2>1, <2>2, <2>3
  <2>5. TableHas(table', file, {})
    <3>1. Section(file).trailer.size \in Nat
      <4>1. IsItem(At(k)) /\ At(k).kind = "table"
        BY <1>1, ItemFacts DEF SInv, LoadInv, Typed, StandsAlone
      <4> QED BY <1>1, <4>1 DEF IsItem, Trailer
    <3>2. \A n \in DOMAIN table' : table'[n] = NoInfo
      BY <2>4, <3>1, EmptyTable, SetObjectMapSizeFacts
    <3> QED BY <3>2 DEF TableHas, InfoOf
  <2>6. (Listed(file) \ NotLoaded)' = {}
    BY <2>1 DEF NotLoaded
  <2> QED BY <1>2, <2>1, <2>2, <2>4, <2>5, <2>6 DEF LoadsAlone
<1>5. CASE FindEnds
  <2>1. /\ pc = "find" /\ pc' = "front"
        /\ UNCHANGED <<file, lastXRef, rebuilt, retried, xrefList, prev, trailer, table>>
    BY <1>5 DEF FindEnds, resultVars, chainVars
  <2>2. NotLoaded' = NotLoaded
    BY <2>1 DEF NotLoaded
  <2> QED BY <2>1, <2>2 DEF LoadsAlone
<1>6. CASE LoadFront
  <2>1. /\ pc = "front"
        /\ UNCHANGED <<file, lastXRef, rebuilt, retried, xrefList, prev, trailer, table>>
    BY <1>6 DEF LoadFront, resultVars, chainVars
  <2>2. xrefList = <<k>> /\ xrefList[1] = k
    BY <1>2, <2>1 DEF LoadsAlone
  <2>3. pc' = "entries" /\ todo' = Listed(file) /\ next' = "verify"
    BY <1>1, <1>6, <2>2 DEF LoadFront, StartEntries, Listed
  <2>4. NotLoaded = Listed(file) /\ NotLoaded' = Listed(file)
    BY <2>1, <2>3 DEF NotLoaded
  <2> QED BY <2>1, <2>3, <2>4 DEF LoadsAlone
<1> QED BY <1>3, <1>4, <1>5, <1>6

LEMMA AloneReads ==
    ASSUME SInv, StandsAlone(file), LoadsAlone,
           ReadEntry \/ EntriesRead \/ VerifyCrossRefTable \/ AllLoaded
    PROVE  LoadsAlone'
<1> DEFINE k == Len(file) - 1
<1>1. k > 0 /\ At(k) = Section(file)
  BY AloneSection
<1>2. /\ Place /\ IsTable(table) /\ FileOK /\ k = Len(file) - 1
      /\ UNCHANGED <<file, lastXRef, rebuilt, retried, xrefList, prev, trailer>> =>
           (LoadsAlone /\ pc \notin {"start", "main"} =>
              /\ ~rebuilt' /\ ~retried' /\ lastXRef' = Len(file') - 1
              /\ xrefList' = <<Len(file') - 1>> /\ prev' = 0
              /\ trailer' = Section(file').trailer)
  BY DEF SInv, LoadInv, Typed, LoadsAlone
<1> HIDE DEF k
<1>3. CASE ReadEntry
  <2>1. /\ pc = "entries" /\ pc' = "entries" /\ UNCHANGED next
        /\ UNCHANGED <<file, lastXRef, rebuilt, retried, xrefList, prev, trailer>>
    BY <1>3 DEF ReadEntry, resultVars, chainVars
  <2>2. PICK n \in todo : /\ table' = Merged(WithSize(table, n, sec), n, sec)
                         /\ todo' = todo \ {n}
    BY <1>3 DEF ReadEntry
  <2>3. next = "verify" /\ xrefList = <<k>> /\ TableHas(table, file, Listed(file) \ todo)
    BY <1>2, <2>1 DEF LoadsAlone, NotLoaded
  <2>4. sec = k /\ todo \subseteq Listed(file)
    BY <1>1, <1>2, <2>1, <2>3 DEF Place, Listed
  <2>5. TableHas(table', file, (Listed(file) \ todo) \cup {n})
    BY <1>2, <2>2, <2>3, <2>4, EntryAlone
  <2>6. (Listed(file) \ NotLoaded)' = (Listed(file) \ todo) \cup {n}
    BY <2>1, <2>2, <2>4 DEF NotLoaded
  <2>7. TableHas(table, file, Listed(file) \ NotLoaded)'
    BY <2>1, <2>5, <2>6
  <2> QED BY <1>2, <2>1, <2>3, <2>7 DEF LoadsAlone
<1>4. CASE EntriesRead
  <2>1. /\ pc = "entries" /\ todo = {} /\ pc' = next
        /\ UNCHANGED <<file, lastXRef, rebuilt, retried, xrefList, prev, trailer>>
        /\ UNCHANGED <<table, todo>>
    BY <1>4 DEF EntriesRead, resultVars, chainVars, jobVars
  <2>2. next = "verify"
    BY <2>1 DEF LoadsAlone
  <2>3. NotLoaded' = NotLoaded
    BY <2>1, <2>2 DEF NotLoaded
  <2> QED BY <1>2, <2>1, <2>2, <2>3 DEF LoadsAlone
<1>5. CASE VerifyCrossRefTable
  <2>1. /\ pc = "verify"
        /\ UNCHANGED <<file, lastXRef, rebuilt, retried, xrefList, prev, trailer>>
        /\ UNCHANGED <<table, todo>>
        /\ \E ok \in Verdicts : IF ok THEN pc' = "second" ELSE pc' = "scan"
    BY <1>5 DEF VerifyCrossRefTable, resultVars, chainVars, jobVars, StartRebuild
  <2>2. TableHas(table, file, Listed(file))
    BY <1>2, <2>1 DEF LoadsAlone, NotLoaded, Place
  <2>3. Verdicts = {TRUE}
    <3> DEFINE S == {n \in DOMAIN table : UnionPos(table[n]) > 0}
               n == CHOOSE m \in S : IsLeast(m, S)
    <3>1. CASE S = {}
      BY <3>1 DEF Verdicts
    <3>2. CASE S # {}
      <4>1. S \in SUBSET Nat /\ IsFiniteSet(S)
        BY <1>2, FS_Subset DEF IsTable
      <4>2. n \in S
        <5> HIDE DEF S
        <5>1. \E m \in S : IsLeast(m, S)
          BY <3>2, <4>1, FirstNumber
        <5> QED BY <5>1
      <4>3. n \in DOMAIN table /\ UnionPos(table[n]) > 0
        BY <4>2
      <4> HIDE DEF n
      <4>4. table[n] = InfoOf(table, n)
        BY <4>3 DEF InfoOf
      <4>5. n \in Listed(file)
        BY <2>2, <4>3, <4>4 DEF TableHas, UnionPos, NoInfo
      <4>6. table[n] = InfoAt(Section(file).entries[n].pos)
        BY <2>2, <4>4, <4>5 DEF TableHas
      <4>7. /\ At(table[n].pos).kind \in {"obj", "stream"} /\ At(table[n].pos).num = n
            /\ table[n].type # "compressed"
        BY <4>5, <4>6, AloneSection DEF InfoAt
      <4> HIDE DEF S
      <4> QED BY <3>2, <4>7 DEF Verdicts, S, n
    <3> QED BY <3>1, <3>2
  <2>4. pc' = "second"
    BY <2>1, <2>3
  <2>5. NotLoaded' = NotLoaded
    BY <2>1, <2>4 DEF NotLoaded
  <2> QED BY <1>2, <2>1, <2>4, <2>5 DEF LoadsAlone
<1>6. CASE AllLoaded
  <2>1. /\ pc = "second" /\ pc' = "encrypt"
        /\ UNCHANGED <<file, lastXRef, rebuilt, retried, xrefList, prev, trailer>>
        /\ UNCHANGED <<table, todo, mem>>
    BY <1>6 DEF AllLoaded, chainVars, jobVars
  <2>2. DOMAIN mem' = {}
    BY <2>1 DEF SInv, DocInv
  <2>3. NotLoaded' = NotLoaded
    BY <2>1 DEF NotLoaded
  <2> QED BY <1>2, <2>1, <2>2, <2>3 DEF LoadsAlone
<1> QED BY <1>3, <1>4, <1>5, <1>6

LEMMA AloneOpens ==
    ASSUME SInv, NEW shown, ShowsAlone(file, shown), LoadsAlone,
           SetEncryptHandler \/ FindRoot
    PROVE  IF pc' = "open" THEN View' = shown ELSE LoadsAlone'
<1> DEFINE tr == Section(file).trailer
<1>1. /\ StandsAlone(file) /\ Place /\ 0 \notin ObjNums
      /\ RootOf(file) \in Listed(file) \cap ObjNums
      /\ CatalogOf(file) \in Catalog
      /\ CatalogOf(file).pages \in ObjNums
      /\ HasPages(ReadIn(file, CatalogOf(file).pages))
      /\ IsLocked(file) => /\ tr.enc \in Listed(file) \cap ObjNums
                           /\ ItemOf(file, tr.enc).kind = "obj"
                           /\ ItemOf(file, tr.enc).val = EncDict
      /\ shown = [n \in CatalogOf(file).uses \ {RootOf(file)} |-> ReadIn(file, n)]
  BY LoadAssumption DEF ShowsAlone, SInv, LoadInv
<1>2. IsLocked(file) <=> tr.enc # 0
  BY DEF IsLocked
<1>3. /\ trailer = tr /\ TableHas(table, file, Listed(file))
      /\ pc = "encrypt" => DOMAIN mem = {}
      /\ pc = "root" => /\ handler = IsLocked(file)
                        /\ \A n \in DOMAIN mem : mem[n] = ReadIn(file, n)
  <2>1. pc \in {"encrypt", "root"}
    BY DEF SetEncryptHandler, FindRoot
  <2>2. (Listed(file) \ NotLoaded) = Listed(file)
    BY <1>1, <2>1 DEF Place, NotLoaded
  <2> QED BY <2>1, <2>2 DEF LoadsAlone
<1> HIDE DEF tr
<1>4. CASE SetEncryptHandler
  <2>1. /\ pc = "encrypt" /\ pc' = "root" /\ handler' = (EncryptDict = EncDict)
        /\ Hold({trailer.enc})
        /\ UNCHANGED <<file, lastXRef, rebuilt, retried, xrefList, prev, trailer>>
        /\ UNCHANGED <<table, todo>>
    BY <1>4 DEF SetEncryptHandler, resultVars, chainVars, jobVars
  <2>2. ASSUME IsLocked(file)
        PROVE  /\ handler' = IsLocked(file)
               /\ \A n \in DOMAIN mem' : mem'[n] = ReadIn(file, n)
    <3>1. /\ tr.enc \in ObjNums /\ tr.enc \in Listed(file)
          /\ ItemOf(file, tr.enc).kind = "obj" /\ ItemOf(file, tr.enc).val = EncDict
      BY <1>1, <2>2
    <3>2. tr.enc \in Nat /\ tr.enc # 0 /\ EncDict \notin Data /\ EncDict # Null
      BY <3>1, LoadAssumption
    <3>3. Parse(tr.enc) = EncDict
      BY <1>1, <1>3, <3>1, <3>2, ParseAlone DEF Decrypted
    <3>4. Got(tr.enc) = EncDict
      BY <1>3, <2>1, <3>1, <3>3 DEF Got
    <3>5. EncryptDict = EncDict
      BY <1>3, <3>2, <3>4 DEF EncryptDict
    <3>6. ReadIn(file, tr.enc) = EncDict
      BY <3>1, <3>2 DEF ReadIn
    <3>7. \A n \in DOMAIN mem' : n = tr.enc /\ mem'[n] = EncDict
      BY <1>3, <2>1, <3>4 DEF Hold, Holding
    <3>8. handler' = TRUE
      BY <2>1, <3>5
    <3> QED BY <2>2, <3>6, <3>7, <3>8
  <2>3. ASSUME ~IsLocked(file)
        PROVE  /\ handler' = IsLocked(file)
               /\ \A n \in DOMAIN mem' : mem'[n] = ReadIn(file, n)
    <3>1. trailer.enc = 0
      BY <1>2, <1>3, <2>3
    <3>2. EncryptDict # EncDict
      BY <3>1, LoadAssumption DEF EncryptDict
    <3>3. Got(0) = Null
      BY <1>1, <1>3, <2>1 DEF Got
    <3>4. DOMAIN mem' = {}
      BY <1>3, <2>1, <3>1, <3>3 DEF Hold, Holding
    <3>5. handler' = FALSE
      BY <2>1, <3>2
    <3>6. IsLocked(file) = FALSE
      BY <2>3 DEF IsLocked
    <3> QED BY <3>4, <3>5, <3>6
  <2>4. handler' = IsLocked(file) /\ \A n \in DOMAIN mem' : mem'[n] = ReadIn(file, n)
    BY <2>2, <2>3
  <2>5. NotLoaded' = NotLoaded
    BY <2>1 DEF NotLoaded
  <2> QED BY <2>1, <2>4, <2>5 DEF LoadsAlone
<1>5. CASE FindRoot
  <2> DEFINE root == RootOf(file)
  <2>1. /\ pc = "root" /\ mem' = Holding({trailer.root, PagesRoot})
        /\ \E ms : streamMap' = StreamsAfter(ms)
        /\ UNCHANGED <<file, table, trailer>>
    BY <1>5 DEF FindRoot, Hold
  <2>2. trailer.root = root
    BY <1>3 DEF RootOf, tr
  <2>3. \A n \in ObjNums : Got(n) = ReadIn(file, n)
    BY <1>1, <1>3, <2>1, ReadAlone DEF Got
  <2>4. root \in ObjNums /\ Got(root) = ReadIn(file, root)
    BY <1>1, <2>3
  <2> HIDE DEF root
  <2>5. Got(root) = CatalogOf(file) /\ Got(root) \in Catalog
    BY <1>1, <2>4 DEF root, CatalogOf
  <2>6. /\ IsCatalog(Root) /\ Got(root) # Null
        /\ PagesRoot = CatalogOf(file).pages
    BY <2>2, <2>5, CatalogAssumption DEF IsCatalog, Root, PagesRoot
  <2>14. TryInit
    BY <1>1, <2>3, <2>6 DEF TryInit
  <2>7. pc' = "open" /\ UNCHANGED handler
    BY <1>5, <2>14 DEF FindRoot
  <2>8. mem'[root] = Got(root)
    BY <2>1, <2>2, <2>6 DEF Holding
  <2>9. InUse' = CatalogOf(file).uses /\ InUse' \in SUBSET ObjNums
    BY <2>1, <2>2, <2>5, <2>8 DEF InUse, Catalog
  <2>10. \A n : Got(n)' = Got(n)
    BY <2>1, <2>7, GotStays
  <2>11. ASSUME NEW n \in InUse' \ {root}
         PROVE  Got(n)' = ReadIn(file, n)
    BY <2>3, <2>9, <2>10
  <2>12. View' = [n \in InUse' \ {root} |-> Got(n)']
    BY <2>1, <2>2 DEF View
  <2>13. View' = [n \in CatalogOf(file).uses \ {root} |-> ReadIn(file, n)]
    BY <2>9, <2>11, <2>12
  <2> QED BY <1>1, <2>7, <2>13 DEF root
<1> QED BY <1>4, <1>5

(* What a section of its own leaves out.                                   *)
LEMMA AloneOnly ==
    ASSUME SInv, StandsAlone(file), LoadsAlone
    PROVE  /\ ~MainStream /\ ~MainFails /\ ~FindTable /\ ~FindStream /\ ~FindFails
           /\ ~SecondStream /\ ~SecondTable
           /\ ~ScanObject /\ ~ScanMember /\ ~ScanStream /\ ~ScanOther /\ ~ScanEnds
<1>1. Is(Len(file) - 1, "table") /\ Len(file) \in Nat
  BY AloneSection DEF StandsAlone
<1>2. ~MainStream /\ ~MainFails
  BY <1>1 DEF LoadsAlone, MainStream, MainFails, Is
<1>3. ~FindTable /\ ~FindStream /\ ~FindFails
  BY DEF LoadsAlone, FindTable, FindStream, FindFails
<1>4. ~SecondStream
  <2> SUFFICES ASSUME SecondStream
               PROVE  FALSE
    OBVIOUS
  <2>1. pc = "second" /\ idx < Len(xrefList) /\ xrefList = <<Len(file) - 1>>
    BY DEF SecondStream, LoadsAlone
  <2>2. idx \in DOMAIN xrefList
    BY <2>1 DEF SInv, LoadInv, Place
  <2>3. Len(xrefList) = 1 /\ DOMAIN xrefList = 1 .. 1
    BY <2>1
  <2> QED BY <2>1, <2>2, <2>3
<1>5. ~SecondTable
  BY DEF LoadsAlone, SecondTable
<1>6. pc # "scan"
  BY DEF LoadsAlone
<1> QED BY <1>2, <1>3, <1>4, <1>5, <1>6 DEF ScanObject, ScanMember, ScanStream,
                                            ScanOther, ScanEnds, Scanning

LEMMA AloneLoads ==
    ASSUME SInv, NEW shown, ShowsAlone(file, shown), LoadsAlone, LoadStep
    PROVE  IF pc' = "open" THEN View' = shown ELSE LoadsAlone'
<1>1. StandsAlone(file)
  BY DEF ShowsAlone
<1>2. LoadsAlone' => pc' # "open"
  BY DEF LoadsAlone
<1>3. CASE SetEncryptHandler \/ FindRoot
  BY <1>3, AloneOpens
<1>4. CASE ~(SetEncryptHandler \/ FindRoot)
  <2>1. LoadsAlone'
    BY <1>1, <1>4, AloneOnly, AloneFinds, AloneReads DEF LoadStep
  <2> QED BY <1>2, <2>1
<1> QED BY <1>3, <1>4

-----------------------------------------------------------------------------
(* The encryption dictionary stays in memory, and the full copy is what    *)
(* its promise says from when it is made until a document is opened from   *)
(* it.                                                                     *)
FullInv ==
    (promise.kind = "full" /\ promise.paged) =>
      IF pc = "open" THEN copy # <<>> => ShowsAlone(copy, promise.new)
      ELSE copy = <<>> /\ ShowsAlone(file, promise.new) /\ LoadsAlone

TripInv == SInv /\ EncHeld /\ FullInv

LEMMA InitTrip == Init => TripInv
<1> SUFFICES ASSUME Init
             PROVE  TripInv
  OBVIOUS
<1>1. SInv
  BY InitDoc
<1>2. pc = "start" /\ promise.kind = "any"
  BY DEF Init, FreshParser
<1> QED BY <1>1, <1>2 DEF TripInv, EncHeld, FullInv

(* Catalogs are no dictionaries.                                           *)
LEMMA CatalogIsNot ==
    ASSUME SInv, pc = "open"
    PROVE  mem[trailer.root] # EncDict
BY OpenFacts, CatalogAssumption

LEMMA EncHeldStays ==
    ASSUME EncHeld, pc \in {"root", "open"}, UNCHANGED <<handler, trailer>>,
           DOMAIN mem \subseteq DOMAIN mem', \A n \in DOMAIN mem : mem'[n] = mem[n]
    PROVE  EncHeld'
BY DEF EncHeld

LEMMA StepEncHeld == SInv /\ EncHeld /\ [Next]_vars => EncHeld'
<1> SUFFICES ASSUME SInv, EncHeld, [Next]_vars
             PROVE  EncHeld'
  OBVIOUS
<1>1. CASE Load
  <2>1. LoadStep
    BY <1>1 DEF Load
  <2>2. CASE SetEncryptHandler
    <3>1. /\ handler' = (EncryptDict = EncDict) /\ mem' = Holding({trailer.enc})
          /\ UNCHANGED trailer
      BY <2>2 DEF SetEncryptHandler, Hold
    <3> SUFFICES ASSUME handler', ~(trailer.enc < 0)
                 PROVE  trailer.enc \in DOMAIN mem' /\ mem'[trailer.enc] = EncDict
      BY <3>1 DEF EncHeld
    <3>2. Got(trailer.enc) = EncDict /\ Got(trailer.enc) # Null
      BY <3>1, LoadAssumption DEF EncryptDict
    <3> QED BY <3>1, <3>2 DEF Holding
  <2>3. CASE FindRoot
    <3>1. /\ pc = "root" /\ \E ns : mem' = Holding(ns)
          /\ UNCHANGED trailer
      BY <2>3 DEF FindRoot, Hold
    <3>2. UNCHANGED handler \/ pc' = "scan" \/ pc' = "failed"
      BY <2>3 DEF FindRoot, StartRebuild
    <3>3. CASE UNCHANGED handler
      BY <3>1, <3>3, HeldInTable, EncHeldStays
    <3>4. CASE pc' = "scan" \/ pc' = "failed"
      BY <3>4 DEF EncHeld
    <3> QED BY <3>2, <3>3, <3>4
  <2>4. CASE ~(SetEncryptHandler \/ FindRoot)
    <3>1. pc' \notin {"root", "open"}
      <4>1. pc = "entries" => next \notin {"root", "open"}
        BY DEF SInv, LoadInv, IInv, Progress
      <4> QED BY <2>1, <2>4, <4>1 DEF LoadStep, StartParse, MainTable, MainStream,
                 MainFails, FindTable, FindStream, FindFails, FindEnds, ReadEntry,
                 EntriesRead, LoadFront, VerifyCrossRefTable, SecondStream,
                 SecondTable, AllLoaded, ScanObject, ScanMember, ScanStream,
                 ScanOther, ScanEnds, Scanning, StartRebuild, StartEntries
    <3> QED BY <3>1 DEF EncHeld
  <2> QED BY <2>2, <2>3, <2>4
<1>2. ASSUME NEW n \in ObjNums, pc = "open", Read(n)
      PROVE  EncHeld'
  <2>1. mem' = Holding({n}) /\ UNCHANGED <<handler, trailer>>
    BY <1>2 DEF Read, Hold
  <2> QED BY <1>2, <2>1, HeldInTable, EncHeldStays
<1>3. ASSUME NEW newMem, Edited(newMem), trailer.enc \in DOMAIN mem => trailer.enc \in DOMAIN newMem,
             trailer.enc \in DOMAIN mem /\ mem[trailer.enc] = EncDict
               => newMem[trailer.enc] = mem[trailer.enc]
      PROVE  EncHeld'
  <2>1. pc = "open" /\ mem' = newMem /\ UNCHANGED <<handler, trailer>>
    BY <1>3 DEF Edited, loadVars
  <2> QED BY <1>3, <2>1 DEF EncHeld
<1>4. pc = "open" => /\ trailer.root \in DOMAIN mem /\ lastObj \in Nat
                     /\ \A m \in DOMAIN mem : m \in Nat /\ m <= lastObj
                     /\ mem[trailer.root] # EncDict
  BY OpenFacts, CatalogIsNot
<1>5. ASSUME NEW n \in ObjNums, pc = "open", Drop(n)
      PROVE  EncHeld'
  <2> DEFINE new == [mem EXCEPT ![trailer.root].uses = @ \ {n}]
  <2>1. Edited(new)
    BY <1>5 DEF Drop
  <2>2. DOMAIN new = DOMAIN mem /\ \A m \in DOMAIN mem \ {trailer.root} : new[m] = mem[m]
    OBVIOUS
  <2> HIDE DEF new
  <2> QED BY <1>3, <1>4, <1>5, <2>1, <2>2
<1>6. ASSUME NEW n \in ObjNums, pc = "open", DeleteIndirectObject(n)
      PROVE  EncHeld'
  <2> DEFINE new == [m \in DOMAIN mem \ {n} |-> mem[m]]
  <2>1. Edited(new) /\ n # trailer.enc
    BY <1>6 DEF DeleteIndirectObject
  <2>2. DOMAIN new = DOMAIN mem \ {n} /\ \A m \in DOMAIN new : new[m] = mem[m]
    OBVIOUS
  <2> HIDE DEF new
  <2> QED BY <1>3, <2>1, <2>2
<1>7. ASSUME NEW n \in ObjNums, NEW v \in Data, pc = "open", SetValue(n, v)
      PROVE  EncHeld'
  <2> DEFINE new == [mem EXCEPT ![n] = v]
  <2>1. Edited(new) /\ n # trailer.enc
    BY <1>7 DEF SetValue
  <2>2. DOMAIN new = DOMAIN mem /\ \A m \in DOMAIN mem \ {n} : new[m] = mem[m]
    OBVIOUS
  <2> HIDE DEF new
  <2> QED BY <1>3, <2>1, <2>2
<1>8. ASSUME NEW v \in Data, pc = "open", AddIndirectObject(v)
      PROVE  EncHeld'
  <2> DEFINE new == [m \in DOMAIN mem \cup {lastObj + 1} |->
                       IF m = lastObj + 1 THEN v
                       ELSE IF m = trailer.root
                            THEN [mem[m] EXCEPT !.uses = @ \cup {lastObj + 1}]
                       ELSE mem[m]]
  <2>1. Edited(new)
    BY <1>8 DEF AddIndirectObject
  <2>2. \A m \in DOMAIN mem : m # lastObj + 1
    BY <1>4, <1>8
  <2>3. /\ DOMAIN new = DOMAIN mem \cup {lastObj + 1}
        /\ \A m \in DOMAIN mem \ {trailer.root} : new[m] = mem[m]
    BY <2>2
  <2> HIDE DEF new
  <2> QED BY <1>3, <1>4, <1>8, <2>1, <2>3
<1>9. CASE SaveFull
  <2>1. pc = "open" /\ mem' = Holding(InUse) /\ UNCHANGED <<handler, trailer>>
    BY <1>9 DEF SaveFull
  <2> QED BY <2>1, HeldInTable, EncHeldStays
<1>10. CASE SaveIncremental \/ SaveCut \/ UNCHANGED vars
  BY <1>10 DEF EncHeld, SaveIncremental, SaveCut, vars, loadVars, docVars
<1>11. CASE Reopen
  BY <1>11 DEF EncHeld, Reopen, NewParser
<1> QED BY <1>1, <1>2, <1>5, <1>6, <1>7, <1>8, <1>9, <1>10, <1>11 DEF Next

LEMMA StepFull == TripInv /\ [Next]_vars => FullInv'
<1> SUFFICES ASSUME TripInv, [Next]_vars
             PROVE  FullInv'
  OBVIOUS
<1>1. SInv /\ EncHeld /\ FullInv
  BY DEF TripInv
<1>2. CASE Load
  <2>1. LoadStep /\ UNCHANGED <<copy, promise>>
    BY <1>2 DEF Load
  <2>2. pc # "open" /\ UNCHANGED file
    BY <2>1 DEF LoadStep, StartParse, MainTable, MainStream,
       MainFails, FindTable, FindStream, FindFails, FindEnds, ReadEntry,
       EntriesRead, LoadFront, VerifyCrossRefTable, SecondStream,
       SecondTable, AllLoaded, ScanObject, ScanMember, ScanStream,
       ScanOther, ScanEnds, Scanning, SetEncryptHandler, FindRoot
  <2> SUFFICES ASSUME promise.kind = "full", promise.paged
               PROVE  IF pc' = "open" THEN copy' # <<>> => ShowsAlone(copy', promise'.new)
                      ELSE /\ copy' = <<>> /\ ShowsAlone(file', promise'.new)
                           /\ LoadsAlone'
    BY <2>1 DEF FullInv
  <2>3. copy = <<>> /\ ShowsAlone(file, promise.new) /\ LoadsAlone
    BY <1>1, <2>2 DEF FullInv
  <2>4. CASE pc' = "open"
    BY <2>1, <2>3, <2>4
  <2>5. CASE pc' # "open"
    BY <1>1, <2>1, <2>2, <2>3, <2>5, AloneLoads
  <2> QED BY <2>4, <2>5
<1>3. CASE SaveFull
  <2>1. PICK crypt \in {handler, FALSE} :
          /\ copy' = FullCopy(crypt)
          /\ promise' = [kind |-> IF FullLost(crypt) THEN "lost" ELSE "full",
                          new |-> View, paged |-> HasPagesIn(View)]
    BY <1>3, Zenon DEF SaveFull, Copied
  <2>2. pc = "open" /\ pc' = "open"
    BY <1>3 DEF SaveFull
  <2> SUFFICES ASSUME promise'.kind = "full", promise'.paged
               PROVE  ShowsAlone(copy', promise'.new)
    BY <2>2 DEF FullInv
  <2>3. /\ promise'.new = View /\ promise'.paged = HasPagesIn(View)
        /\ promise'.kind = IF FullLost(crypt) THEN "lost" ELSE "full"
    BY <2>1
  <2>4. ~(crypt /\ (EncLost \/ EncNumberTaken)) /\ HasPagesIn(View)
    <3>1. ~FullLost(crypt)
      BY <2>3, Zenon
    <3>2. HasPagesIn(View)
      BY <2>3, Zenon
    <3> QED BY <3>1, <3>2, Zenon DEF FullLost
  <2> QED BY <1>1, <2>1, <2>2, <2>3, <2>4, FullCopyShows DEF SInv
<1>4. CASE SaveIncremental
  <2>1. promise'.kind # "full"
    BY <1>4 DEF SaveIncremental, Copied, InParts
  <2> QED BY <2>1 DEF FullInv
<1>5. CASE SaveCut
  <2>1. promise'.kind # "full"
    BY <1>5 DEF SaveCut, InParts
  <2> QED BY <2>1 DEF FullInv
<1>6. CASE Reopen
  <2>1. /\ pc = "open" /\ copy # <<>> /\ file' = copy /\ copy' = <<>>
        /\ UNCHANGED promise
        /\ pc' = "start" /\ rebuilt' = FALSE /\ retried' = FALSE
    BY <1>6 DEF Reopen, NewParser
  <2> SUFFICES ASSUME promise.kind = "full", promise.paged
               PROVE  ShowsAlone(file', promise'.new) /\ LoadsAlone'
    BY <2>1 DEF FullInv
  <2>2. ShowsAlone(file', promise'.new)
    BY <1>1, <2>1 DEF FullInv
  <2>3. LoadsAlone'
    BY <2>1 DEF LoadsAlone
  <2> QED BY <2>2, <2>3
<1>7. CASE \/ \E n \in ObjNums : \/ pc = "open" /\ (Read(n) \/ Drop(n))
                                 \/ pc = "open" /\ DeleteIndirectObject(n)
                                 \/ \E v \in Data : pc = "open" /\ SetValue(n, v)
           \/ \E v \in Data : pc = "open" /\ AddIndirectObject(v)
  <2>1. pc = "open" /\ UNCHANGED <<pc, copy, promise>>
    BY <1>7 DEF Read, Drop, DeleteIndirectObject, SetValue, AddIndirectObject,
                Edited, loadVars
  <2> QED BY <1>1, <2>1 DEF FullInv
<1>8. CASE UNCHANGED vars
  <2>1. /\ UNCHANGED <<file, pc, copy, promise, rebuilt, retried, lastXRef, xrefList,
                       prev, trailer, table, todo, next, mem, handler>>
    BY <1>8 DEF vars, loadVars, docVars, resultVars, chainVars, jobVars
  <2>2. LoadsAlone' = LoadsAlone
    BY <2>1 DEF LoadsAlone, NotLoaded
  <2> QED BY <1>1, <2>1, <2>2 DEF FullInv
<1> QED BY <1>2, <1>3, <1>4, <1>5, <1>6, <1>7, <1>8 DEF Next

LEMMA StepTrip == TripInv /\ [Next]_vars => TripInv'
BY StepDoc, StepEncHeld, StepFull DEF TripInv

(* One step of the loading of a full copy: it is not rebuilt, not refused, *)
(* and shows what the document that was saved showed.                      *)
LEMMA TripOpens ==
    TripInv /\ [Next]_vars =>
      [ (pc # "open" /\ promise.kind = "full" /\ promise.paged)
          => /\ pc' \notin {"scan", "failed"}
             /\ pc' = "open" => View' = promise.new ]_vars
<1> SUFFICES ASSUME TripInv, Next, pc # "open", promise.kind = "full", promise.paged
             PROVE  /\ pc' \notin {"scan", "failed"}
                    /\ pc' = "open" => View' = promise.new
  OBVIOUS
<1>1. SInv /\ ShowsAlone(file, promise.new) /\ LoadsAlone
  BY DEF TripInv, FullInv
<1>2. LoadStep
  BY DEF Next, Load, SaveFull, SaveIncremental, SaveCut, Reopen
<1>3. IF pc' = "open" THEN View' = promise.new ELSE LoadsAlone'
  BY <1>1, <1>2, AloneLoads
<1>4. LoadsAlone' => pc' \notin {"scan", "failed"}
  BY DEF LoadsAlone
<1> QED BY <1>3, <1>4

(* Any file that may be opened first, however it is loaded, read, edited,  *)
(* saved and opened again: a full copy of a document that has pages loads  *)
(* without a rebuild, is not refused and shows what the document that was  *)
(* saved did (CPDF_Creator and CPDF_Parser together).                      *)
THEOREM FullCopyOpensAlways == Spec => FullCopyOpens
<1>1. Spec => []TripInv
  BY InitTrip, StepTrip, PTL DEF Spec
<1> QED BY <1>1, TripOpens, PTL DEF Spec, FullCopyOpens

=============================================================================
