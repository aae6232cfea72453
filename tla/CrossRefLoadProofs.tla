------------------------- MODULE CrossRefLoadProofs -------------------------
(***************************************************************************)
(* What loading a file comes to, for every file: the sections that are     *)
(* loaded are the ones that /Prev leads to, the entry of the newest of     *)
(* them wins, a rebuild finds the last object of every number, and a file  *)
(* that has what it takes is not refused.                                  *)
(*                                                                         *)
(* The invariants are IInv (the chain), Typed and Place (the types, and    *)
(* where the loading is), RebuildInv (the scan and its result) and WinsInv *)
(* (the table while the sections are loaded).                              *)
(***************************************************************************)
EXTENDS CrossRefLoad, FiniteSetTheorems, WellFoundedInduction, TLAPS

-----------------------------------------------------------------------------
(* The inductive invariant.                                                *)

(* The search of the sections is still going on.                           *)
Searching == pc = "find" \/ (pc = "entries" /\ next = "find")

(* Where the loading is: nothing is in the chain before the newest section *)
(* is, and a section whose entries are read after the search was ended by  *)
(* a /Prev that is not there.                                              *)
Progress ==
    /\ pc \in {"start", "main"} => xrefList = <<>> /\ streamList = <<>>
                                   /\ seen = {}
    /\ Searching => xrefList # <<>>
    /\ pc = "entries" => next \in {"find", "verify", "table", "second"}
    /\ (pc = "entries" /\ next # "find") => prev = 0

ChainType ==
    /\ FileOK
    /\ xrefList \in Seq(Nat) /\ streamList \in Seq(Nat)

IInv == ChainType /\ Progress /\ ChainIsRight

-----------------------------------------------------------------------------
(* Facts about positions and sequences.                                    *)

(* A section that is there is at a position of the file.                   *)
LEMMA SectionFacts ==
    ASSUME FileOK, NEW p, NEW kind \in {"table", "stream"}, Is(p, kind)
    PROVE  /\ p \in Nat /\ p > 0
           /\ At(p).trailer.prev \in Nat
           /\ At(p).trailer.xrefstm \in Nat
BY DEF FileOK, IsFile, IsItem, Trailer, Is, At, Junk

(* A section put in front of the chain becomes the first one.              *)
LEMMA FrontFacts ==
    ASSUME NEW s \in Seq(Nat), NEW e \in Nat, NEW t, t = <<e>> \o s
    PROVE  /\ t \in Seq(Nat)
           /\ Len(t) = Len(s) + 1
           /\ DOMAIN t = 1 .. (Len(s) + 1)
           /\ t[1] = e
           /\ \A i \in 1 .. Len(s) : t[i + 1] = s[i]
           /\ \A i \in 2 .. (Len(s) + 1) : i - 1 \in 1 .. Len(s) /\ t[i] = s[i - 1]
OBVIOUS

(* One more section at the front of a chain that is right.                 *)
LEMMA ChainGrows ==
    ASSUME ChainType, ChainIsRight,
           xrefList # <<>>, prev > 0, prev \notin seen,
           NEW x \in Nat, NEW s \in Nat,
           \/ x = prev /\ Is(prev, "table")
           \/ x = 0 /\ s = prev /\ Is(prev, "stream"),
           xrefList' = <<x>> \o xrefList, streamList' = <<s>> \o streamList,
           seen' = seen \cup {prev}, prev' = At(prev).trailer.prev,
           UNCHANGED <<file, lastXRef>>, pc' \in {"find", "entries"}
    PROVE  ChainType' /\ ChainIsRight' /\ xrefList' # <<>>
<1>0. PICK k \in Nat : k = Len(xrefList)
  BY DEF ChainType
<1>1. /\ k \in Nat /\ k > 0
      /\ DOMAIN xrefList = 1 .. k /\ DOMAIN streamList = 1 .. k
  BY <1>0 DEF ChainType, ChainIsRight
<1>2. /\ xrefList' \in Seq(Nat) /\ Len(xrefList') = k + 1
      /\ DOMAIN xrefList' = 1 .. (k + 1)
      /\ xrefList'[1] = x
      /\ \A i \in 2 .. (k + 1) : i - 1 \in 1 .. k /\ xrefList'[i] = xrefList[i - 1]
  BY <1>0, FrontFacts DEF ChainType
<1>3. Len(streamList) = k
  BY <1>1 DEF ChainType
<1>4. /\ streamList' \in Seq(Nat)
      /\ DOMAIN streamList' = 1 .. (k + 1)
      /\ streamList'[1] = s
      /\ \A i \in 2 .. (k + 1) : streamList'[i] = streamList[i - 1]
  BY <1>3, FrontFacts DEF ChainType
<1>5. prev \in Nat /\ prev > 0
  BY SectionFacts DEF ChainType
<1>6. SectionAt(1)' = prev
  BY <1>2, <1>4, <1>5 DEF SectionAt
<1>7. \A i \in 2 .. (k + 1) : SectionAt(i)' = SectionAt(i - 1)
  BY <1>2, <1>4 DEF SectionAt
<1>8. \A i \in 1 .. k : SectionAt(i) \in seen /\ SectionAt(i) # prev
  BY <1>1 DEF ChainIsRight, Chain
<1>9. \A p, kind : Is(p, kind)' = Is(p, kind) /\ At(p)' = At(p)
  BY DEF Is, At, Junk
<1>10. ChainIsRight'
  <2>1. (DOMAIN streamList = DOMAIN xrefList)'
    BY <1>2, <1>4
  <2>2. (seen = Chain)'
    <3>1. \A y \in seen : \E i \in 2 .. (k + 1) : SectionAt(i - 1) = y
      <4>1. \A y \in seen : \E i \in 1 .. k : SectionAt(i) = y
        BY <1>1 DEF ChainIsRight, Chain
      <4>2. \A i \in 1 .. k : i + 1 \in 2 .. (k + 1) /\ (i + 1) - 1 = i
        BY <1>1
      <4> QED BY <4>1, <4>2
    <3>2. \A y \in seen : \E i \in 1 .. (k + 1) : SectionAt(i)' = y
      <4>1. \A i \in 2 .. (k + 1) : i \in 1 .. (k + 1)
        BY <1>1
      <4> QED BY <3>1, <4>1, <1>7
    <3>3. 1 \in 1 .. (k + 1)
      BY <1>1
    <3>4. \A i \in 1 .. (k + 1) : i = 1 \/ i \in 2 .. (k + 1)
      BY <1>1
    <3>5. \A i \in 1 .. (k + 1) : SectionAt(i)' \in seen \cup {prev}
      BY <3>4, <1>2, <1>6, <1>7, <1>8
    <3>6. Chain' = {SectionAt(i)' : i \in 1 .. (k + 1)}
      BY <1>2 DEF Chain
    <3>7. Chain' \subseteq seen \cup {prev}
      BY <3>5, <3>6
    <3>8. seen \cup {prev} \subseteq Chain'
      <4>1. seen \subseteq Chain'
        BY <3>2, <3>6
      <4>2. prev \in Chain'
        BY <3>3, <3>6, <1>6
      <4> QED BY <4>1, <4>2
    <3>9. seen' = seen \cup {prev}
      BY <1>2
    <3> QED BY <3>7, <3>8, <3>9
  <2>3. (\A i, j \in DOMAIN xrefList : SectionAt(i) = SectionAt(j) => i = j)'
    <3>1. \A i, j \in 1 .. k : SectionAt(i) = SectionAt(j) => i = j
      BY <1>1 DEF ChainIsRight
    <3>2. ASSUME NEW i \in 1 .. (k + 1), NEW j \in 1 .. (k + 1),
                 SectionAt(i)' = SectionAt(j)'
          PROVE  i = j
      <4>1. \A m \in 1 .. (k + 1) : m = 1 \/ m \in 2 .. (k + 1)
        BY <1>1
      <4>2. CASE i = 1 \/ j = 1
        BY <3>2, <4>1, <4>2, <1>2, <1>6, <1>7, <1>8
      <4>3. CASE i # 1 /\ j # 1
        <5>1. SectionAt(i - 1) = SectionAt(j - 1)
          BY <3>2, <4>1, <4>3, <1>7
        <5>2. i - 1 \in 1 .. k /\ j - 1 \in 1 .. k
          BY <4>1, <4>3, <1>2
        <5> QED BY <5>1, <5>2, <3>1
      <4> QED BY <4>2, <4>3
    <3> QED BY <3>2, <1>2
  <2>4. (\A i \in DOMAIN xrefList :
           /\ Is(SectionAt(i), IF xrefList[i] > 0 THEN "table" ELSE "stream")
           /\ At(SectionAt(i)).trailer.prev = IF i = 1 THEN prev
                                              ELSE SectionAt(i - 1))'
    <3> SUFFICES ASSUME NEW i \in 1 .. (k + 1)
                 PROVE  /\ Is(SectionAt(i)', IF xrefList'[i] > 0 THEN "table"
                                             ELSE "stream")
                        /\ At(SectionAt(i)').trailer.prev =
                             IF i = 1 THEN prev' ELSE SectionAt(i - 1)'
      BY <1>2, <1>9
    <3>1. CASE i = 1
      BY <3>1, <1>2, <1>5, <1>6
    <3>2. CASE i # 1
      <4>1. i \in 2 .. (k + 1) /\ i - 1 \in DOMAIN xrefList
        BY <3>2, <1>1
      <4>2. /\ Is(SectionAt(i - 1), IF xrefList[i - 1] > 0 THEN "table"
                                    ELSE "stream")
            /\ At(SectionAt(i - 1)).trailer.prev = IF i - 1 = 1 THEN prev
                                                   ELSE SectionAt((i - 1) - 1)
        BY <4>1 DEF ChainIsRight
      <4>3. SectionAt(i - 1)' = IF i - 1 = 1 THEN prev
                                ELSE SectionAt((i - 1) - 1)
        BY <4>1, <1>1, <1>6, <1>7
      <4> QED BY <3>2, <4>1, <4>2, <4>3, <1>2, <1>7
    <3> QED BY <3>1, <3>2
  <2>5. ((xrefList # <<>> /\ lastXRef # 0) =>
           SectionAt(Len(xrefList)) = lastXRef)'
    <3>1. SectionAt(k + 1)' = SectionAt(k)
      <4>1. k + 1 \in 2 .. (k + 1) /\ (k + 1) - 1 = k
        BY <1>1
      <4> QED BY <4>1, <1>7
    <3>2. lastXRef # 0 => SectionAt(k) = lastXRef
      BY <1>0 DEF ChainIsRight
    <3>3. SectionAt(Len(xrefList))' = SectionAt(k + 1)'
      BY <1>2 DEF SectionAt
    <3> QED BY <3>1, <3>2, <3>3
  <2> QED BY <2>1, <2>2, <2>3, <2>4, <2>5 DEF ChainIsRight
<1>11. FileOK'
  BY DEF ChainType, FileOK, IsFile
<1>12. xrefList' # <<>>
  BY <1>1, <1>2
<1> QED BY <1>2, <1>4, <1>10, <1>11, <1>12 DEF ChainType

-----------------------------------------------------------------------------
(* The steps.                                                              *)

(* The chain of one section.                                               *)
LEMMA ChainStarts ==
    ASSUME ChainType, NEW x \in Nat, NEW s \in Nat,
           \/ x = lastXRef /\ Is(lastXRef, "table")
           \/ x = 0 /\ s = lastXRef /\ Is(lastXRef, "stream"),
           xrefList' = <<x>>, streamList' = <<s>>, seen' = {lastXRef},
           prev' = At(lastXRef).trailer.prev,
           UNCHANGED <<file, lastXRef>>, pc' \in {"find", "entries"}
    PROVE  ChainType' /\ ChainIsRight' /\ xrefList' # <<>>
<1>1. lastXRef \in Nat /\ lastXRef > 0
  BY SectionFacts DEF ChainType
<1>2. /\ DOMAIN xrefList' = {1} /\ DOMAIN streamList' = {1}
      /\ Len(xrefList') = 1
      /\ xrefList'[1] = x /\ streamList'[1] = s
      /\ xrefList' \in Seq(Nat) /\ streamList' \in Seq(Nat)
      /\ xrefList' # <<>>
  OBVIOUS
<1>3. SectionAt(1)' = lastXRef
  BY <1>1, <1>2 DEF SectionAt
<1>4. Chain' = {lastXRef}
  BY <1>2, <1>3 DEF Chain
<1>5. \A p, kind : Is(p, kind)' = Is(p, kind) /\ At(p)' = At(p)
  BY DEF Is, At, Junk
<1>6. (\A i \in DOMAIN xrefList :
         /\ Is(SectionAt(i), IF xrefList[i] > 0 THEN "table" ELSE "stream")
         /\ At(SectionAt(i)).trailer.prev = IF i = 1 THEN prev
                                            ELSE SectionAt(i - 1))'
  BY <1>1, <1>2, <1>3, <1>5
<1>7. SectionAt(Len(xrefList))' = lastXRef'
  BY <1>2, <1>3 DEF SectionAt
<1>8. ChainIsRight'
  BY <1>2, <1>4, <1>6, <1>7 DEF ChainIsRight
<1>9. FileOK'
  BY DEF ChainType, FileOK, IsFile
<1> QED BY <1>2, <1>8, <1>9 DEF ChainType

(* A step that leaves the chain alone.                                     *)
LEMMA ChainStays ==
    ASSUME ChainType, ChainIsRight, UNCHANGED <<file, chainVars>>,
           lastXRef' \in {lastXRef, 0} \/ xrefList = <<>>,
           pc' \in {"front", "verify", "second", "table"} => prev = 0
    PROVE  ChainType' /\ ChainIsRight'
BY DEF ChainType, ChainIsRight, FileOK, chainVars, Chain, SectionAt, Is, At, Junk

(* A parser starts with an empty chain.                                    *)
LEMMA InitIInv == FileOK /\ FreshParser => IInv
BY DEF FreshParser, IInv, ChainType, Progress, Searching, ChainIsRight, Chain,
       SectionAt

(* Every step of the loading keeps the invariant.                          *)
LEMMA StepIInv == IInv /\ [LoadStep]_<<file, loadVars, mem>> => IInv'
<1> SUFFICES ASSUME IInv, [LoadStep]_<<file, loadVars, mem>>
             PROVE  IInv'
  OBVIOUS
<1> USE DEF IInv
<1>1. CASE StartParse
  <2>1. pc = "start" /\ xrefList = <<>> /\ streamList = <<>> /\ seen = {}
    BY <1>1 DEF StartParse, Progress
  <2>2. pc' \in {"main", "scan"}
    BY <1>1 DEF StartParse, StartRebuild
  <2>3. UNCHANGED <<file, chainVars>>
    BY <1>1 DEF StartParse
  <2> QED BY <2>1, <2>2, <2>3, ChainStays DEF Progress, Searching, chainVars
<1>2. CASE MainTable
  <2>1. lastXRef \in Nat /\ At(lastXRef).trailer.xrefstm \in Nat
    BY <1>2, SectionFacts DEF MainTable, ChainType
  <2> QED BY <1>2, <2>1, ChainStarts DEF MainTable, Progress, Searching, resultVars
<1>3. CASE MainStream
  <2>1. CASE At(lastXRef).ok
    <3>1. lastXRef \in Nat
      BY <1>3, SectionFacts DEF MainStream, ChainType
    <3> QED BY <1>3, <2>1, <3>1, ChainStarts
            DEF MainStream, StartEntries, Progress, Searching, resultVars
  <2>2. CASE ~At(lastXRef).ok
    <3>1. /\ UNCHANGED <<file, lastXRef, chainVars>>
          /\ pc' = "scan"
      BY <1>3, <2>2 DEF MainStream, StartRebuild, resultVars
    <3> QED BY <3>1, ChainStays DEF Progress, Searching, chainVars
  <2> QED BY <2>1, <2>2
<1>4. CASE FindTable
  <2>1. prev \in Nat /\ At(prev).trailer.xrefstm \in Nat
    BY <1>4, SectionFacts DEF FindTable, ChainType
  <2>2. xrefList # <<>> /\ prev \notin seen
    BY <1>4 DEF FindTable, Circular, Progress, Searching
  <2> QED BY <1>4, <2>1, <2>2, ChainGrows
          DEF FindTable, Progress, Searching, resultVars
<1>5. CASE FindStream
  <2>1. CASE At(prev).ok
    <3>1. prev \in Nat
      BY <1>5, SectionFacts DEF FindStream, ChainType
    <3>2. xrefList # <<>> /\ prev \notin seen
      BY <1>5 DEF FindStream, Circular, Progress, Searching
    <3> QED BY <1>5, <2>1, <3>1, <3>2, ChainGrows
            DEF FindStream, StartEntries, Progress, Searching, resultVars
  <2>2. CASE ~At(prev).ok
    <3>1. /\ UNCHANGED <<file, lastXRef, chainVars>>
          /\ pc' = "scan"
      BY <1>5, <2>2 DEF FindStream, StartRebuild, resultVars
    <3> QED BY <3>1, ChainStays DEF Progress, Searching, chainVars
  <2> QED BY <2>1, <2>2
<1>6. CASE FindEnds \/ LoadFront \/ VerifyCrossRefTable \/ EntriesRead \/ ReadEntry
  <2>1. UNCHANGED <<file, lastXRef, chainVars>>
    BY <1>6 DEF FindEnds, LoadFront, VerifyCrossRefTable, EntriesRead, ReadEntry,
                resultVars
  <2>2. CASE FindEnds
    <3>1. prev = 0 /\ pc' = "front"
      BY <2>2 DEF FindEnds
    <3> QED BY <2>1, <3>1, ChainStays DEF Progress, Searching, chainVars
  <2>3. CASE LoadFront
    <3>1. prev = 0
      BY <2>3 DEF LoadFront, ChainIsRight
    <3>2. pc' = "second" \/ (pc' = "entries" /\ next' = "verify")
      BY <2>3 DEF LoadFront, StartEntries
    <3> QED BY <2>1, <3>1, <3>2, ChainStays DEF Progress, Searching, chainVars
  <2>4. CASE VerifyCrossRefTable
    <3>1. prev = 0
      BY <2>4 DEF VerifyCrossRefTable, ChainIsRight
    <3>2. pc' \in {"second", "scan"}
      BY <2>4 DEF VerifyCrossRefTable, StartRebuild
    <3> QED BY <2>1, <3>1, <3>2, ChainStays DEF Progress, Searching, chainVars
  <2>5. CASE EntriesRead
    <3>1. pc = "entries" /\ pc' = next
      BY <2>5 DEF EntriesRead
    <3>2. next = "find" => xrefList # <<>>
      BY <3>1 DEF Progress, Searching
    <3> QED BY <2>1, <3>1, <3>2, ChainStays DEF Progress, Searching, chainVars
  <2>6. CASE ReadEntry
    <3>1. pc = "entries" /\ UNCHANGED <<pc, next>>
      BY <2>6 DEF ReadEntry
    <3> QED BY <2>1, <3>1, ChainStays DEF Progress, Searching, chainVars
  <2> QED BY <1>6, <2>2, <2>3, <2>4, <2>5, <2>6
<1>7. CASE SecondStream \/ SecondTable
  <2>1. UNCHANGED <<file, lastXRef, chainVars>> /\ pc \in {"second", "table"}
    BY <1>7 DEF SecondStream, SecondTable, resultVars
  <2>2. prev = 0
    BY <2>1 DEF ChainIsRight
  <2>3. \/ pc' \in {"table", "second", "scan"}
        \/ pc' = "entries" /\ next' \in {"table", "second"}
    BY <1>7 DEF SecondStream, SecondTable, StartEntries, StartRebuild
  <2> QED BY <2>1, <2>2, <2>3, ChainStays DEF Progress, Searching, chainVars
<1>8. CASE \/ MainFails \/ FindFails \/ AllLoaded
           \/ ScanObject \/ ScanMember \/ ScanStream \/ ScanOther \/ ScanEnds
           \/ SetEncryptHandler \/ FindRoot
  <2>1. UNCHANGED <<file, chainVars>> /\ lastXRef' \in {lastXRef, 0}
    BY <1>8 DEF MainFails, FindFails, AllLoaded, ScanObject, ScanMember, ScanStream,
                ScanOther, ScanEnds, SetEncryptHandler, FindRoot, resultVars
  <2>2. pc' \in {"scan", "encrypt", "root", "open", "failed"}
    BY <1>8 DEF MainFails, FindFails, AllLoaded, ScanObject, ScanMember, ScanStream,
                ScanOther, ScanEnds, SetEncryptHandler, FindRoot, StartRebuild,
                Scanning
  <2> QED BY <2>1, <2>2, ChainStays DEF Progress, Searching, chainVars
<1>9. CASE UNCHANGED <<file, loadVars, mem>>
  <2>1. UNCHANGED <<file, lastXRef, chainVars, pc, next>>
    BY <1>9 DEF loadVars, resultVars, jobVars
  <2>2. pc' \in {"front", "verify", "second", "table"} => prev = 0
    BY <2>1 DEF ChainIsRight
  <2> QED BY <2>1, <2>2, ChainStays DEF Progress, Searching, chainVars
<1> QED BY <1>1, <1>2, <1>3, <1>4, <1>5, <1>6, <1>7, <1>8, <1>9 DEF LoadStep

-----------------------------------------------------------------------------
(* Tables.                                                                 *)
IsTable(t) ==
    /\ DOMAIN t \subseteq Nat /\ IsFiniteSet(DOMAIN t)
    /\ \A n \in DOMAIN t : t[n] \in ObjectInfo

LEMMA NoInfoTyped == NoInfo \in ObjectInfo
BY DEF NoInfo, ObjectInfo, ObjectType

LEMMA EmptyTable == IsTable(EmptyInfo) /\ DOMAIN EmptyInfo = {}
BY FS_EmptySet DEF EmptyInfo, IsTable

LEMMA InfoOfTyped ==
    ASSUME NEW t, IsTable(t), NEW n
    PROVE  /\ InfoOf(t, n) \in ObjectInfo
           /\ n \notin DOMAIN t => InfoOf(t, n) = NoInfo
BY NoInfoTyped DEF InfoOf, IsTable

(* An entry that is put has its place; the others stay.                    *)
LEMMA PutFacts ==
    ASSUME NEW t, IsTable(t), NEW n \in Nat, NEW info \in ObjectInfo
    PROVE  /\ IsTable(Put(t, n, info))
           /\ DOMAIN Put(t, n, info) = DOMAIN t \cup {n}
           /\ \A m : InfoOf(Put(t, n, info), m) = IF m = n THEN info
                                                  ELSE InfoOf(t, m)
<1>1. IsFiniteSet(DOMAIN t \cup {n})
  BY FS_AddElement DEF IsTable
<1> QED BY <1>1 DEF Put, InfoOf, IsTable

(* What is the same for a reader who does not ask whether an object is a   *)
(* stream of objects.                                                      *)
SameEntry(t, u, n) ==
    /\ n \in DOMAIN t => n \in DOMAIN u
    /\ InfoOf(u, n).type = InfoOf(t, n).type
    /\ InfoOf(u, n).gen = InfoOf(t, n).gen
    /\ InfoOf(u, n).pos = InfoOf(t, n).pos
    /\ InfoOf(u, n).archive = InfoOf(t, n).archive

LEMMA AddNormalFacts ==
    ASSUME NEW t, IsTable(t), NEW n \in Nat, NEW gen \in Nat, NEW pos \in Nat
    PROVE  LET u == AddNormal(t, n, gen, pos)
           IN  /\ IsTable(u)
               /\ DOMAIN t \subseteq DOMAIN u
               /\ \A m : m # n => InfoOf(u, m) = InfoOf(t, m)
               /\ InfoOf(u, n).stm = InfoOf(t, n).stm
               /\ InfoOf(t, n).gen > gen => u = t
               /\ ~(InfoOf(t, n).gen > gen) =>
                    /\ n \in DOMAIN u /\ InfoOf(u, n).type = "normal"
                    /\ InfoOf(u, n).gen = gen /\ InfoOf(u, n).pos = pos
                    /\ InfoOf(u, n).archive = 0
<1> DEFINE info == [type |-> "normal", stm |-> InfoOf(t, n).stm, gen |-> gen,
                    pos |-> pos, archive |-> 0]
<1>1. InfoOf(t, n) \in ObjectInfo
  BY InfoOfTyped
<1>2. info \in ObjectInfo
  BY <1>1 DEF ObjectInfo, ObjectType
<1>3. CASE InfoOf(t, n).gen > gen
  <2>1. AddNormal(t, n, gen, pos) = t
    BY <1>3 DEF AddNormal
  <2> QED BY <2>1, <1>3
<1>4. CASE ~(InfoOf(t, n).gen > gen)
  <2>1. AddNormal(t, n, gen, pos) = Put(t, n, info)
    BY <1>4 DEF AddNormal
  <2>2. /\ info.type = "normal" /\ info.stm = InfoOf(t, n).stm
        /\ info.gen = gen /\ info.pos = pos /\ info.archive = 0
    OBVIOUS
  <2> HIDE DEF info
  <2>3. /\ IsTable(Put(t, n, info))
        /\ DOMAIN Put(t, n, info) = DOMAIN t \cup {n}
        /\ \A m : InfoOf(Put(t, n, info), m) = IF m = n THEN info
                                               ELSE InfoOf(t, m)
    BY <1>2, PutFacts
  <2> QED BY <2>1, <2>2, <2>3, <1>4
<1> QED BY <1>3, <1>4

LEMMA SetFreeFacts ==
    ASSUME NEW t, IsTable(t), NEW n \in Nat, NEW gen \in Nat
    PROVE  LET u == SetFree(t, n, gen)
           IN  /\ IsTable(u)
               /\ DOMAIN t \subseteq DOMAIN u
               /\ \A m : m # n => InfoOf(u, m) = InfoOf(t, m)
               /\ n \in DOMAIN u
               /\ InfoOf(u, n) = [type |-> "free", stm |-> InfoOf(t, n).stm,
                                  gen |-> gen, pos |-> 0, archive |-> 0]
<1> DEFINE info == [type |-> "free", stm |-> InfoOf(t, n).stm, gen |-> gen,
                    pos |-> 0, archive |-> 0]
<1>0. InfoOf(t, n) \in ObjectInfo
  BY InfoOfTyped
<1>1. info \in ObjectInfo
  BY <1>0 DEF ObjectInfo, ObjectType
<1>2. SetFree(t, n, gen) = Put(t, n, info)
  BY DEF SetFree
<1> HIDE DEF info
<1>3. /\ IsTable(Put(t, n, info))
      /\ DOMAIN Put(t, n, info) = DOMAIN t \cup {n}
      /\ \A m : InfoOf(Put(t, n, info), m) = IF m = n THEN info ELSE InfoOf(t, m)
  BY <1>1, PutFacts
<1> QED BY <1>2, <1>3 DEF info

LEMMA AddCompressedFacts ==
    ASSUME NEW t, IsTable(t), NEW n \in Nat, NEW a \in Nat
    PROVE  LET u == AddCompressed(t, n, a)
           IN  /\ IsTable(u)
               /\ DOMAIN t \subseteq DOMAIN u
               /\ \A m : m # n => SameEntry(t, u, m)
               /\ \A m : m \notin {n, a} => InfoOf(u, m) = InfoOf(t, m)
               /\ \/ u = t /\ (InfoOf(t, n).gen > 0 \/ InfoOf(t, n).stm)
                  \/ /\ ~(InfoOf(t, n).gen > 0 \/ InfoOf(t, n).stm)
                     /\ n \in DOMAIN u /\ InfoOf(u, n).type = "compressed"
                     /\ InfoOf(u, n).gen = 0 /\ InfoOf(u, n).pos = 0
                     /\ InfoOf(u, n).archive = a
                     /\ n # a => InfoOf(u, n).stm = FALSE
<1> DEFINE u == AddCompressed(t, n, a)
           info == [type |-> "compressed", stm |-> FALSE, gen |-> 0,
                    pos |-> 0, archive |-> a]
           put == Put(t, n, info)
           owner == [InfoOf(put, a) EXCEPT !.stm = TRUE]
<1>0. InfoOf(t, n) \in ObjectInfo
  BY InfoOfTyped
<1>1. info \in ObjectInfo
  BY DEF ObjectInfo, ObjectType
<1>2. /\ IsTable(put) /\ DOMAIN put = DOMAIN t \cup {n}
      /\ \A m : InfoOf(put, m) = IF m = n THEN info ELSE InfoOf(t, m)
  <2> HIDE DEF info
  <2> QED BY <1>1, PutFacts
<1>3. InfoOf(put, a) \in ObjectInfo
  BY <1>2, InfoOfTyped
<1>4. /\ owner \in ObjectInfo /\ owner.stm = TRUE
      /\ owner.type = InfoOf(put, a).type /\ owner.gen = InfoOf(put, a).gen
      /\ owner.pos = InfoOf(put, a).pos
      /\ owner.archive = InfoOf(put, a).archive
  BY <1>3 DEF ObjectInfo
<1>5. CASE InfoOf(t, n).gen > 0 \/ InfoOf(t, n).stm
  <2>1. u = t
    BY <1>5 DEF AddCompressed
  <2> QED BY <2>1, <1>5 DEF SameEntry
<1>6. CASE ~(InfoOf(t, n).gen > 0 \/ InfoOf(t, n).stm)
  <2>1. u = Put(put, a, owner)
    BY <1>6 DEF AddCompressed
  <2> HIDE DEF u, put, owner
  <2>2. /\ IsTable(u) /\ DOMAIN u = DOMAIN put \cup {a}
        /\ \A m : InfoOf(u, m) = IF m = a THEN owner ELSE InfoOf(put, m)
    <3>1. IsTable(put) /\ owner \in ObjectInfo
      BY <1>2, <1>4
    <3>2. /\ IsTable(Put(put, a, owner))
          /\ DOMAIN Put(put, a, owner) = DOMAIN put \cup {a}
          /\ \A m : InfoOf(Put(put, a, owner), m) =
                     IF m = a THEN owner ELSE InfoOf(put, m)
      BY <3>1, PutFacts
    <3> QED BY <2>1, <3>2
  <2>3. DOMAIN u = DOMAIN t \cup {n, a}
    BY <2>2, <1>2
  <2>4. ASSUME NEW m, m # n
        PROVE  SameEntry(t, u, m)
    <3>1. InfoOf(put, m) = InfoOf(t, m)
      BY <1>2, <2>4
    <3>2. m = a => InfoOf(u, m) = owner
      BY <2>2
    <3>3. m # a => InfoOf(u, m) = InfoOf(t, m)
      BY <2>2, <3>1
    <3> QED BY <3>1, <3>2, <3>3, <2>3, <1>4 DEF SameEntry
  <2>5. \A m : m \notin {n, a} => InfoOf(u, m) = InfoOf(t, m)
    BY <2>2, <1>2
  <2>6. InfoOf(put, n) = info
    BY <1>2
  <2>7. /\ InfoOf(u, n).type = "compressed" /\ InfoOf(u, n).gen = 0
        /\ InfoOf(u, n).pos = 0 /\ InfoOf(u, n).archive = a
        /\ n # a => InfoOf(u, n).stm = FALSE
    BY <2>2, <2>6, <1>4
  <2> QED BY <2>2, <2>3, <2>4, <2>5, <2>7, <1>6 DEF u
<1> QED BY <1>5, <1>6

LEMMA SetObjectMapSizeFacts ==
    ASSUME NEW t, IsTable(t), NEW size \in Nat
    PROVE  LET u == SetObjectMapSize(t, size)
           IN  /\ IsTable(u)
               /\ size > 0 => size - 1 \in DOMAIN u
               /\ \A n \in DOMAIN u : n \notin DOMAIN t => u[n] = NoInfo
               /\ \A n \in DOMAIN t : n < size => n \in DOMAIN u /\ u[n] = t[n]
               /\ \A n \in DOMAIN u : n \in DOMAIN t => u[n] = t[n]
<1> DEFINE kept == [n \in {m \in DOMAIN t : m < size} |-> t[n]]
<1>1. CASE size = 0
  BY <1>1, EmptyTable DEF SetObjectMapSize, IsTable
<1>2. CASE size > 0
  <2>1. DOMAIN kept = {m \in DOMAIN t : m < size}
    OBVIOUS
  <2>2. IsFiniteSet(DOMAIN kept)
    BY <2>1, FS_Subset DEF IsTable
  <2>3. IsTable(kept)
    BY <2>1, <2>2 DEF IsTable
  <2>4. size - 1 \in Nat /\ size - 1 < size
    BY <1>2
  <2>5. CASE size - 1 \in DOMAIN kept
    <3>1. SetObjectMapSize(t, size) = kept
      BY <1>2, <2>5 DEF SetObjectMapSize
    <3> QED BY <3>1, <2>1, <2>3, <2>5
  <2>6. CASE size - 1 \notin DOMAIN kept
    <3>1. SetObjectMapSize(t, size) = Put(kept, size - 1, NoInfo)
      BY <1>2, <2>6 DEF SetObjectMapSize
    <3>2. IsTable(Put(kept, size - 1, NoInfo))
      BY <2>3, <2>4, NoInfoTyped, PutFacts
    <3>3. /\ DOMAIN Put(kept, size - 1, NoInfo) = DOMAIN kept \cup {size - 1}
          /\ \A n \in DOMAIN kept \cup {size - 1} :
               Put(kept, size - 1, NoInfo)[n] =
                 IF n = size - 1 THEN NoInfo ELSE t[n]
      BY DEF Put
    <3>4. size - 1 \notin DOMAIN t
      BY <2>1, <2>4, <2>6
    <3> HIDE DEF kept
    <3> QED BY <3>1, <3>2, <3>3, <3>4, <2>1
  <2> QED BY <2>5, <2>6
<1> QED BY <1>1, <1>2

(* A table that grows loses nothing.                                       *)
LEMMA GrownFacts ==
    ASSUME NEW t, IsTable(t), NEW size \in Nat \ {0}
    PROVE  LET u == Grown(t, size)
           IN  /\ IsTable(u) /\ DOMAIN t \subseteq DOMAIN u
               /\ \A n : InfoOf(u, n) = InfoOf(t, n)
               /\ IsValidObjectNumber(u, size - 1)
<1>1. CASE IsValidObjectNumber(t, size - 1)
  BY <1>1 DEF Grown
<1>2. CASE ~IsValidObjectNumber(t, size - 1)
  <2> DEFINE u == SetObjectMapSize(t, size)
  <2>1. Grown(t, size) = u
    BY <1>2 DEF Grown
  <2>2. /\ IsTable(u) /\ size - 1 \in DOMAIN u
        /\ \A n \in DOMAIN u : n \notin DOMAIN t => u[n] = NoInfo
        /\ \A n \in DOMAIN t : n < size => n \in DOMAIN u /\ u[n] = t[n]
    BY SetObjectMapSizeFacts
  <2>3. \A n \in DOMAIN t : n < size
    BY <1>2 DEF IsValidObjectNumber, IsTable
  <2> HIDE DEF u
  <2>4. \A n : InfoOf(u, n) = InfoOf(t, n)
    BY <2>2, <2>3 DEF InfoOf
  <2>5. IsValidObjectNumber(u, size - 1)
    BY <2>2 DEF IsValidObjectNumber
  <2> QED BY <2>1, <2>2, <2>3, <2>4, <2>5
<1> QED BY <1>1, <1>2

LEMMA UpdateInfoFacts ==
    ASSUME NEW cur, IsTable(cur), NEW new, IsTable(new)
    PROVE  LET u == UpdateInfo(cur, new)
           IN  /\ IsTable(u)
               /\ DOMAIN u = DOMAIN cur \cup DOMAIN new
               /\ \A n \in DOMAIN new : /\ u[n].type = new[n].type
                                        /\ u[n].gen = new[n].gen
                                        /\ u[n].pos = new[n].pos
<1> DEFINE u == UpdateInfo(cur, new)
<1>1. CASE DOMAIN new = {}
  BY <1>1 DEF UpdateInfo
<1>2. CASE DOMAIN new # {}
  <2>1. DOMAIN u = DOMAIN cur \cup DOMAIN new
    BY <1>2 DEF UpdateInfo
  <2>2. IsFiniteSet(DOMAIN cur \cup DOMAIN new)
    BY FS_Union DEF IsTable
  <2>3. \A n \in DOMAIN u : \/ n \notin DOMAIN new /\ u[n] = cur[n]
                            \/ n \in DOMAIN new /\ u[n] = new[n]
                            \/ /\ n \in DOMAIN new
                               /\ u[n] = [new[n] EXCEPT !.stm = TRUE]
    BY <1>2 DEF UpdateInfo
  <2> HIDE DEF u
  <2>4. \A n \in DOMAIN new : /\ [new[n] EXCEPT !.stm = TRUE] \in ObjectInfo
                              /\ [new[n] EXCEPT !.stm = TRUE].type = new[n].type
                              /\ [new[n] EXCEPT !.stm = TRUE].gen = new[n].gen
                              /\ [new[n] EXCEPT !.stm = TRUE].pos = new[n].pos
    BY DEF IsTable, ObjectInfo
  <2>5. \A n \in DOMAIN u : u[n] \in ObjectInfo
    BY <2>1, <2>3, <2>4 DEF IsTable
  <2>6. IsTable(u)
    BY <2>1, <2>2, <2>5 DEF IsTable
  <2> QED BY <2>1, <2>3, <2>4, <2>6 DEF u
<1> QED BY <1>1, <1>2

(* A trailer's /Root is the newer one's, when that has one.                *)
LEMMA UpdateTrailerFacts ==
    ASSUME NEW cur \in Trailer, NEW new \in Trailer
    PROVE  LET u == UpdateTrailer(cur, new)
           IN  /\ u \in Trailer
               /\ new.root > 0 => u.root = new.root
               /\ cur.root > 0 /\ new.root = 0 => u.root = cur.root
               /\ new = NoTrailer => u = cur
<1> DEFINE u == UpdateTrailer(cur, new)
<1>1. CASE new = NoTrailer
  BY <1>1 DEF UpdateTrailer, NoTrailer
<1>2. CASE new # NoTrailer /\ cur = NoTrailer
  <2>1. u = [new EXCEPT !.num = cur.num]
    BY <1>2 DEF UpdateTrailer
  <2>2. u \in Trailer /\ u.root = new.root
    BY <2>1 DEF Trailer
  <2>3. cur.root = -1
    BY <1>2 DEF NoTrailer
  <2> HIDE DEF u
  <2> QED BY <1>2, <2>2, <2>3 DEF u
<1>3. CASE new # NoTrailer /\ cur # NoTrailer
  <2>1. u = [ cur EXCEPT !.root = IF new.root # 0 THEN new.root ELSE @,
                         !.size = IF new.size # 0 THEN new.size ELSE @,
                         !.enc  = IF new.enc # 0 THEN new.enc ELSE @ ]
    BY <1>3 DEF UpdateTrailer
  <2>2. u.root = IF new.root # 0 THEN new.root ELSE cur.root
    BY <2>1 DEF Trailer
  <2>3. u \in Trailer
    BY <2>1 DEF Trailer
  <2>4. new.root \in Int
    BY DEF Trailer
  <2> HIDE DEF u
  <2>5. new.root > 0 => new.root # 0
    BY <2>4
  <2> QED BY <2>2, <2>3, <2>5, <1>3 DEF u
<1> QED BY <1>1, <1>2, <1>3

(* A finite set of numbers has a last one.                                 *)
LEMMA LastNumber ==
    ASSUME NEW S \in SUBSET Nat, IsFiniteSet(S), S # {}
    PROVE  \E x \in S : \A y \in S : y <= x
<1> DEFINE From(x) == {m \in S : x <= m}
           F == {From(x) : x \in S}
<1>1. F \in SUBSET FiniteSubsetsOf(S) /\ F # {}
  <2>1. \A x \in S : From(x) \in SUBSET S
    OBVIOUS
  <2>2. \A x \in S : IsFiniteSet(From(x))
    BY <2>1, FS_Subset
  <2> HIDE DEF From
  <2> QED BY <2>1, <2>2 DEF FiniteSubsetsOf
<1> HIDE DEF F
<1>2. PICK X \in F : \A Y \in F : ~(<<Y, X>> \in StrictSubsetOrdering(S))
  BY <1>1, FS_StrictSubsetOrderingWellFounded, WFMin
<1>3. PICK x \in S : X = From(x)
  BY DEF F
<1>4. \A y \in S : y <= x
  <2> SUFFICES ASSUME NEW y \in S, x < y
               PROVE  FALSE
    OBVIOUS
  <2>1. From(y) \in F
    BY DEF F
  <2>2. x \in From(x) /\ x \notin From(y)
    OBVIOUS
  <2>0. x \in Nat /\ y \in Nat /\ S \subseteq Nat
    OBVIOUS
  <2>a. From(y) \subseteq From(x)
    <3> SUFFICES ASSUME NEW m \in S, y <= m
                 PROVE  x <= m
      OBVIOUS
    <3> QED BY <2>0
  <2>3. From(y) \subseteq From(x) /\ From(y) # From(x)
    BY <2>2, <2>a
  <2>4. From(y) \in SUBSET S /\ From(x) \in SUBSET S
    OBVIOUS
  <2>5. From(y) \in FiniteSubsetsOf(S)
    BY <2>1, <1>1
  <2>6. From(x) \in FiniteSubsetsOf(S)
    BY <1>1, <1>3
  <2> HIDE DEF From
  <2>7. <<From(y), From(x)>> \in StrictSubsetOrdering(S)
    BY <2>3, <2>4, <2>5, <2>6 DEF StrictSubsetOrdering
  <2> QED BY <2>1, <2>7, <1>2, <1>3
<1> QED BY <1>4

-----------------------------------------------------------------------------
(* What is in a file.                                                      *)
LEMMA ItemFacts ==
    ASSUME FileOK, NEW p, At(p).kind # "junk"
    PROVE  /\ p \in DOMAIN file /\ p \in Nat /\ p > 0 /\ p <= Len(file)
           /\ At(p) = file[p] /\ IsItem(At(p))
BY DEF FileOK, IsFile, At, Junk

LEMMA SectionItem ==
    ASSUME FileOK, NEW p, At(p).kind \in {"table", "stream"}
    PROVE  /\ p \in Nat /\ p > 0 /\ p \in DOMAIN file
           /\ At(p).trailer \in Trailer
           /\ DOMAIN At(p).entries \subseteq Nat
           /\ IsFiniteSet(DOMAIN At(p).entries)
           /\ \A n \in DOMAIN At(p).entries :
                /\ At(p).entries[n] \in Entry
                /\ At(p).kind = "table" => At(p).entries[n].type # "compressed"
<1>1. p \in Nat /\ p > 0 /\ p \in DOMAIN file /\ IsItem(At(p))
  BY ItemFacts
<1> QED BY <1>1 DEF IsItem

LEMMA NumberedItem ==
    ASSUME FileOK, NEW p, At(p).kind \in Numbered
    PROVE  /\ p \in Nat /\ p > 0 /\ p \in DOMAIN file
           /\ At(p).num \in Nat /\ At(p).gen \in Nat
<1>1. p \in Nat /\ p > 0 /\ p \in DOMAIN file /\ IsItem(At(p))
  BY ItemFacts DEF Numbered
<1> QED BY <1>1 DEF IsItem

LEMMA SegmentEndFacts ==
    ASSUME FileOK, NEW p, At(p).kind \in {"table", "stream"},
           NEW n \in DOMAIN At(p).entries
    PROVE  SegmentEnd(p, n) \in Nat \ {0} /\ n < SegmentEnd(p, n)
<1> DEFINE D == DOMAIN At(p).entries
           E == {m \in D : n <= m /\ n .. m \subseteq D}
           Ends(m) == n <= m /\ n .. m \subseteq D /\ m + 1 \notin D
<1>1. D \in SUBSET Nat /\ IsFiniteSet(D) /\ n \in D /\ n \in Nat
  BY SectionItem
<1>2. SegmentEnd(p, n) = 1 + CHOOSE m \in D : Ends(m)
  BY DEF SegmentEnd
<1> HIDE DEF D
<1>3. n \in E
  BY <1>1
<1>4. E \in SUBSET Nat /\ IsFiniteSet(E) /\ E # {}
  <2>1. E \subseteq D
    OBVIOUS
  <2> HIDE DEF E
  <2> QED BY <1>1, <1>3, <2>1, FS_Subset
<1>5. PICK x \in E : \A y \in E : y <= x
  <2> HIDE DEF E
  <2> QED BY <1>4, LastNumber
<1>6. x + 1 \notin D
  <2> SUFFICES ASSUME x + 1 \in D
               PROVE  FALSE
    OBVIOUS
  <2>1. x \in Nat /\ n <= x + 1
    BY <1>1
  <2>2. n .. (x + 1) \subseteq D
    <3> SUFFICES ASSUME NEW k \in n .. (x + 1)
                 PROVE  k \in D
      OBVIOUS
    <3>1. k = x + 1 \/ k \in n .. x
      BY <2>1, <1>1
    <3> QED BY <3>1
  <2>3. x + 1 \in E
    BY <2>1, <2>2
  <2> QED BY <2>1, <2>3, <1>5
<1>7. \E m \in D : Ends(m)
  BY <1>5, <1>6
<1> DEFINE e == CHOOSE m \in D : Ends(m)
<1>8. e \in D /\ Ends(e)
  <2> HIDE DEF Ends
  <2> QED BY <1>7
<1>9. SegmentEnd(p, n) = 1 + e
  BY <1>2
<1> HIDE DEF e
<1> QED BY <1>1, <1>8, <1>9

(* The table once a segment's numbers have their place.                    *)
LEMMA WithSizeFacts ==
    ASSUME FileOK, NEW p, At(p).kind \in {"table", "stream"},
           NEW n \in DOMAIN At(p).entries, NEW t, IsTable(t)
    PROVE  LET u == WithSize(t, n, p)
           IN  /\ IsTable(u) /\ DOMAIN t \subseteq DOMAIN u
               /\ \A m : InfoOf(u, m) = InfoOf(t, m)
               /\ Is(p, "stream") =>
                    IsValidObjectNumber(u, SegmentEnd(p, n) - 1)
<1>1. SegmentEnd(p, n) \in Nat \ {0}
  BY SegmentEndFacts
<1>2. CASE Is(p, "stream")
  <2>1. WithSize(t, n, p) = Grown(t, SegmentEnd(p, n))
    BY <1>2 DEF WithSize
  <2> QED BY <1>1, <2>1, GrownFacts
<1>3. CASE ~Is(p, "stream")
  <2>1. WithSize(t, n, p) = t
    BY <1>3 DEF WithSize
  <2> QED BY <1>3, <2>1
<1> QED BY <1>2, <1>3

(* An entry that is read changes that of its own number and, at most, says *)
(* that another object is a stream of objects.                             *)
LEMMA MergedFacts ==
    ASSUME FileOK, NEW p, At(p).kind \in {"table", "stream"},
           NEW n \in DOMAIN At(p).entries, NEW t, IsTable(t)
    PROVE  LET u == Merged(t, n, p)
           IN  /\ IsTable(u) /\ DOMAIN t \subseteq DOMAIN u
               /\ \A m : m # n => SameEntry(t, u, m)
<1> DEFINE e == At(p).entries[n]
           u == Merged(t, n, p)
<1>1. n \in Nat /\ e \in Entry
  BY SectionItem
<1>2. e.gen \in Nat /\ e.pos \in Nat /\ e.archive \in Nat
  BY <1>1 DEF Entry
<1>3. \/ u = t
      \/ u = AddNormal(t, n, e.gen, e.pos)
      \/ u = SetFree(t, n, e.gen)
      \/ u = AddCompressed(t, n, e.archive)
  BY DEF Merged, MergeTableEntry, ProcessCrossRefStreamEntry
<1>4. \A v, m : InfoOf(v, m) = InfoOf(t, m) /\ DOMAIN t \subseteq DOMAIN v =>
                SameEntry(t, v, m)
  BY DEF SameEntry
<1> HIDE DEF e, u
<1>5. CASE u = t
  BY <1>5, <1>4 DEF u
<1>6. CASE u = AddNormal(t, n, e.gen, e.pos)
  <2>0. LET v == AddNormal(t, n, e.gen, e.pos)
        IN  /\ IsTable(v) /\ DOMAIN t \subseteq DOMAIN v
            /\ \A m : m # n => InfoOf(v, m) = InfoOf(t, m)
    <3>1. \A gen, pos \in Nat :
             LET v == AddNormal(t, n, gen, pos)
             IN  /\ IsTable(v) /\ DOMAIN t \subseteq DOMAIN v
                 /\ \A m : m # n => InfoOf(v, m) = InfoOf(t, m)
      BY <1>1, AddNormalFacts
    <3> QED BY <3>1, <1>2
  <2>1. /\ IsTable(u) /\ DOMAIN t \subseteq DOMAIN u
        /\ \A m : m # n => InfoOf(u, m) = InfoOf(t, m)
    BY <2>0, <1>6
  <2>2. \A m : m # n => SameEntry(t, u, m)
    BY <2>1, <1>4
  <2> QED BY <2>1, <2>2 DEF u
<1>7. CASE u = SetFree(t, n, e.gen)
  <2>0. LET v == SetFree(t, n, e.gen)
        IN  /\ IsTable(v) /\ DOMAIN t \subseteq DOMAIN v
            /\ \A m : m # n => InfoOf(v, m) = InfoOf(t, m)
    BY <1>1, <1>2, SetFreeFacts
  <2>1. /\ IsTable(u) /\ DOMAIN t \subseteq DOMAIN u
        /\ \A m : m # n => InfoOf(u, m) = InfoOf(t, m)
    BY <2>0, <1>7
  <2>2. \A m : m # n => SameEntry(t, u, m)
    BY <2>1, <1>4
  <2> QED BY <2>1, <2>2 DEF u
<1>8. CASE u = AddCompressed(t, n, e.archive)
  <2>1. /\ IsTable(u) /\ DOMAIN t \subseteq DOMAIN u
        /\ \A m : m # n => SameEntry(t, u, m)
    BY <1>1, <1>2, <1>8, AddCompressedFacts
  <2> QED BY <2>1 DEF u
<1> QED BY <1>3, <1>5, <1>6, <1>7, <1>8

-----------------------------------------------------------------------------
(* Objects that are read.                                                  *)
StreamsTyped == \A a \in DOMAIN streamMap : streamMap[a] = 0
                                           \/ Is(streamMap[a], "objstm")
MemTyped == \A n \in DOMAIN mem : n \in ObjNums /\ mem[n] \in Value

LEMMA ObjectStreamPosFacts ==
    ASSUME StreamsTyped, NEW a
    PROVE  ObjectStreamPos(a) = 0 \/ Is(ObjectStreamPos(a), "objstm")
BY DEF ObjectStreamPos, StreamsTyped

LEMMA ParseFacts ==
    ASSUME FileOK, StreamsTyped, NEW n
    PROVE  Parse(n) \in Value \cup {Null}
<1>1. \A p : ObjectAt(p, n) \in Value \cup {Null}
  <2> SUFFICES ASSUME NEW p, Is(p, "obj")
               PROVE  Decrypted(At(p), At(p).val) \in Value \cup {Null}
    BY DEF ObjectAt
  <2>1. At(p).val \in Value
    BY ItemFacts DEF Is, IsItem
  <2> QED BY <2>1 DEF Decrypted, Value
<1>2. \A a : MemberOf(ObjectStreamPos(a), n) \in Value \cup {Null}
  <2> SUFFICES ASSUME NEW a, ObjectStreamPos(a) # 0,
                      n \in DOMAIN At(ObjectStreamPos(a)).members
               PROVE  At(ObjectStreamPos(a)).members[n] \in Value \cup {Null}
    BY DEF MemberOf
  <2>1. Is(ObjectStreamPos(a), "objstm")
    BY ObjectStreamPosFacts
  <2> QED BY <2>1, ItemFacts DEF Is, IsItem
<1> QED BY <1>1, <1>2 DEF Parse

LEMMA GotFacts ==
    ASSUME FileOK, StreamsTyped, MemTyped, NEW n
    PROVE  /\ Got(n) \in Value \cup {Null}
           /\ Got(n) # Null => n \in ObjNums
BY ParseFacts DEF Got, MemTyped

LEMMA ReadFacts ==
    ASSUME FileOK, StreamsTyped, MemTyped, UNCHANGED file,
           NEW ns, mem' = Holding(ns), NEW ms, streamMap' = StreamsAfter(ms)
    PROVE  StreamsTyped' /\ MemTyped'
<1>1. \A p, kind : Is(p, kind)' = Is(p, kind)
  BY DEF Is, At, Junk
<1>2. StreamsTyped'
  <2>1. \A a \in DOMAIN streamMap' : streamMap'[a] = ObjectStreamPos(a)
    BY DEF StreamsAfter
  <2> QED BY <2>1, <1>1, ObjectStreamPosFacts DEF StreamsTyped
<1>3. MemTyped'
  <2>1. /\ DOMAIN mem' = DOMAIN mem \cup {m \in ns : Got(m) # Null}
        /\ \A n \in DOMAIN mem' : mem'[n] = Got(n)
    BY DEF Holding
  <2>2. \A n \in DOMAIN mem : Got(n) = mem[n]
    BY DEF Got
  <2>3. ASSUME NEW n \in DOMAIN mem'
        PROVE  n \in ObjNums /\ mem'[n] \in Value
    <3>1. CASE n \in DOMAIN mem
      BY <2>1, <2>2, <3>1 DEF MemTyped
    <3>2. CASE n \notin DOMAIN mem
      BY <2>1, <3>2, GotFacts
    <3> QED BY <3>1, <3>2
  <2> QED BY <2>3 DEF MemTyped
<1> QED BY <1>2, <1>3

LEMMA HoldFacts ==
    ASSUME FileOK, StreamsTyped, MemTyped, NEW ns, Hold(ns), UNCHANGED file
    PROVE  StreamsTyped' /\ MemTyped'
BY ReadFacts DEF Hold

-----------------------------------------------------------------------------
(* The types of the variables.                                             *)
IsScan(s) ==
    /\ s = [pos |-> s.pos, table |-> s.table, trailer |-> s.trailer]
    /\ s.pos \in Nat /\ IsTable(s.table) /\ s.trailer \in Trailer

Typed ==
    /\ FileOK
    /\ IsTable(table) /\ trailer \in Trailer
    /\ lastXRef \in Nat /\ prev \in Nat /\ sec \in Nat /\ idx \in Nat
    /\ pc \in Steps /\ next \in Steps \cup {"none"}
    /\ {xrefStream, rebuilt, handler, retried} \subseteq BOOLEAN
    /\ IsScan(scan) /\ StreamsTyped /\ MemTyped

(* The entries and members still to be read, and the section being read.   *)
Place ==
    /\ pc \notin {"entries", "scan"} => todo = {}
    /\ pc = "entries" => /\ At(sec).kind \in {"table", "stream"}
                         /\ todo \subseteq DOMAIN At(sec).entries
    /\ (pc = "scan" /\ todo # {}) => /\ Is(sec, "objstm")
                                     /\ todo \subseteq DOMAIN At(sec).members
    /\ pc \in {"front", "verify", "second", "table"} => xrefList # <<>>
    /\ pc = "entries" => xrefList # <<>>
    /\ pc \in {"verify", "second", "table"} => idx \in DOMAIN xrefList
    /\ pc = "verify" => idx = 1
    /\ pc = "table" => idx > 1
    /\ (pc = "entries" /\ next = "find") =>
         xrefList[1] = 0 /\ sec = streamList[1] /\ Is(sec, "stream")
    /\ (pc = "entries" /\ next = "verify") =>
         idx = 1 /\ sec = xrefList[1] /\ Is(sec, "table")
    /\ (pc = "entries" /\ next = "table") =>
         /\ idx \in DOMAIN xrefList /\ idx > 1
         /\ sec = streamList[idx] /\ Is(sec, "stream") /\ At(sec).ok
    /\ (pc = "entries" /\ next = "second") =>
         /\ idx \in DOMAIN xrefList /\ idx > 1
         /\ sec = xrefList[idx] /\ Is(sec, "table")

LoadInv == Typed /\ IInv /\ Place

LEMMA NoScanTyped ==
    /\ NoTrailer \in Trailer
    /\ IsScan(NoScan) /\ IsScan([NoScan EXCEPT !.pos = 1])
    /\ [NoScan EXCEPT !.pos = 1].pos = 1
    /\ [NoScan EXCEPT !.pos = 1].table = EmptyInfo
    /\ [NoScan EXCEPT !.pos = 1].trailer = NoTrailer
BY EmptyTable DEF NoScan, IsScan, Trailer, NoTrailer

LEMMA ScanTrailerFacts ==
    ASSUME FileOK, NEW p
    PROVE  /\ ScanTrailer(At(p)) \in Trailer
           /\ IsTrailer(At(p)) => ScanTrailer(At(p)) = At(p).trailer
           /\ ~IsTrailer(At(p)) => ScanTrailer(At(p)) = NoTrailer
BY NoScanTyped, SectionItem DEF ScanTrailer, IsTrailer

(* A section of the chain is where the lists say.                          *)
LEMMA ChainSections ==
    ASSUME IInv, NEW i \in DOMAIN xrefList
    PROVE  /\ xrefList[i] \in Nat /\ streamList[i] \in Nat
           /\ xrefList[i] > 0 => Is(xrefList[i], "table")
           /\ xrefList[i] = 0 => Is(streamList[i], "stream")
<1>1. /\ DOMAIN streamList = DOMAIN xrefList
      /\ Is(SectionAt(i), IF xrefList[i] > 0 THEN "table" ELSE "stream")
  BY DEF IInv, ChainIsRight
<1>2. xrefList[i] \in Nat /\ streamList[i] \in Nat
  BY <1>1 DEF IInv, ChainType
<1> QED BY <1>1, <1>2 DEF SectionAt

LEMMA FirstOfChain ==
    ASSUME IInv, xrefList # <<>>
    PROVE  1 \in DOMAIN xrefList /\ Len(xrefList) \in DOMAIN xrefList
           /\ DOMAIN xrefList = 1 .. Len(xrefList) /\ Len(xrefList) \in Nat
BY DEF IInv, ChainType

-----------------------------------------------------------------------------
LEMMA TableTyped ==
    ASSUME LoadInv, LoadStep
    PROVE  IsTable(table)'
<1> USE DEF LoadInv
<1>1. CASE MainTable
  <2>1. At(lastXRef).trailer \in Trailer
    BY <1>1, SectionItem DEF MainTable, Is, Typed
  <2>2. IsTable(SetObjectMapSize(table, At(lastXRef).trailer.size))
    BY <2>1, SetObjectMapSizeFacts DEF Typed, Trailer
  <2> QED BY <1>1, <2>2 DEF MainTable, Typed
<1>2. CASE MainStream
  <2>1. At(lastXRef).trailer \in Trailer /\ FileOK /\ At(lastXRef).kind = "stream"
    BY <1>2, SectionItem DEF MainStream, Is, Typed
  <2>2. IsTable(SetObjectMapSize(EmptyInfo, At(lastXRef).trailer.size))
    BY <2>1, SetObjectMapSizeFacts, EmptyTable DEF Trailer
  <2>3. table' = SetObjectMapSize(EmptyInfo, At(lastXRef).trailer.size)
    BY <1>2 DEF MainStream, LoadMainStream
  <2> QED BY <2>2, <2>3
<1>3. CASE FindStream
  BY <1>3 DEF FindStream, LoadOlderStream, Typed, IsTable
<1>4. CASE ReadEntry
  <2>1. PICK n \in todo : table' = Merged(WithSize(table, n, sec), n, sec)
    BY <1>4 DEF ReadEntry
  <2>2. /\ FileOK /\ IsTable(table) /\ At(sec).kind \in {"table", "stream"}
        /\ n \in DOMAIN At(sec).entries
    BY <1>4 DEF ReadEntry, Typed, Place
  <2>3. IsTable(WithSize(table, n, sec))
    BY <2>2, WithSizeFacts
  <2> QED BY <2>1, <2>2, <2>3, MergedFacts
<1>5. CASE SecondStream
  BY <1>5 DEF SecondStream, LoadOlderStream, Typed, IsTable
<1>6. CASE ScanEnds
  <2>1. IsTable(table) /\ IsTable(scan.table) /\ table' = UpdateInfo(table, scan.table)
    BY <1>6 DEF ScanEnds, Typed, IsScan
  <2> QED BY <2>1, UpdateInfoFacts
<1>7. CASE UNCHANGED table
  BY <1>7 DEF Typed, IsTable
<1>8. \/ MainTable \/ MainStream \/ FindStream \/ ReadEntry \/ SecondStream
      \/ ScanEnds \/ UNCHANGED table
  BY DEF LoadStep, StartParse, MainFails, FindTable, FindFails, FindEnds,
         EntriesRead, LoadFront, VerifyCrossRefTable, SecondTable, AllLoaded,
         ScanObject, ScanMember, ScanStream, ScanOther, SetEncryptHandler,
         FindRoot
<1> QED BY <1>1, <1>2, <1>3, <1>4, <1>5, <1>6, <1>7, <1>8

LEMMA TrailerTyped ==
    ASSUME LoadInv, LoadStep
    PROVE  trailer' \in Trailer
<1> USE DEF LoadInv
<1>1. CASE MainTable
  BY <1>1, SectionItem DEF MainTable, Is, Typed
<1>2. CASE MainStream
  BY <1>2, SectionItem DEF MainStream, LoadMainStream, Is, Typed
<1>3. CASE FindTable \/ FindStream
  <2>1. /\ At(prev).trailer \in Trailer /\ trailer \in Trailer
        /\ trailer' = UpdateTrailer(At(prev).trailer, trailer)
    BY <1>3, SectionItem DEF FindTable, FindStream, LoadOlderStream, Is, Typed
  <2> QED BY <2>1, UpdateTrailerFacts
<1>4. CASE SecondStream
  <2>1. CASE trailer' = trailer
    BY <2>1 DEF Typed
  <2>2. CASE trailer' # trailer
    <3> DEFINE p == streamList[idx + 1]
    <3>1. /\ Is(p, "stream")
          /\ trailer' = UpdateTrailer(At(p).trailer, trailer)
      BY <1>4, <2>2 DEF SecondStream, LoadOlderStream
    <3>2. At(p).trailer \in Trailer /\ trailer \in Trailer
      BY <3>1, SectionItem DEF Is, Typed
    <3> QED BY <3>1, <3>2, UpdateTrailerFacts
  <2> QED BY <2>1, <2>2
<1>5. CASE ScanEnds
  <2>1. /\ trailer \in Trailer /\ scan.trailer \in Trailer
        /\ trailer' = UpdateTrailer(trailer, scan.trailer)
    BY <1>5 DEF ScanEnds, Typed, IsScan
  <2> QED BY <2>1, UpdateTrailerFacts
<1>6. CASE UNCHANGED trailer
  BY <1>6 DEF Typed
<1>7. \/ MainTable \/ MainStream \/ FindTable \/ FindStream \/ SecondStream
      \/ ScanEnds \/ UNCHANGED trailer
  BY DEF LoadStep, StartParse, MainFails, FindFails, FindEnds, ReadEntry,
         EntriesRead, LoadFront, VerifyCrossRefTable, SecondTable, AllLoaded,
         ScanObject, ScanMember, ScanStream, ScanOther, SetEncryptHandler,
         FindRoot
<1> QED BY <1>1, <1>2, <1>3, <1>4, <1>5, <1>6, <1>7

(* One more object, or one more trailer, in what a scan makes.             *)
LEMMA ScanTyped ==
    ASSUME LoadInv, LoadStep
    PROVE  IsScan(scan)'
<1> USE DEF LoadInv
<1>0. /\ scan.pos \in Nat /\ IsTable(scan.table) /\ scan.trailer \in Trailer
      /\ scan = [pos |-> scan.pos, table |-> scan.table, trailer |-> scan.trailer]
  BY DEF Typed, IsScan
<1>1. CASE ScanObject \/ ScanStream
  <2> DEFINE item == At(scan.pos)
             t == AddNormal(scan.table, item.num, item.gen, scan.pos)
  <2>1. FileOK /\ item.kind \in Numbered
    BY <1>1 DEF ScanObject, ScanStream, Numbered, Typed, Is
  <2>2. item.num \in Nat /\ item.gen \in Nat
    BY <2>1, NumberedItem
  <2>3. IsTable(t)
    BY <1>0, <2>2, AddNormalFacts
  <2>4. /\ scan' = [pos |-> scan'.pos, table |-> scan'.table, trailer |-> scan'.trailer]
        /\ scan'.pos = scan.pos + 1 /\ scan'.table = t
        /\ ScanObject => scan'.trailer = scan.trailer
        /\ ScanStream => scan'.trailer = UpdateTrailer(scan.trailer,
                                                       ScanTrailer(item))
    BY <1>0, <1>1 DEF ScanObject, ScanStream
  <2>5. CASE ScanObject
    BY <1>0, <2>3, <2>4, <2>5 DEF IsScan
  <2>6. CASE ScanStream
    <3>1. ScanTrailer(item) \in Trailer
      BY <2>1, ScanTrailerFacts
    <3>2. UpdateTrailer(scan.trailer, ScanTrailer(item)) \in Trailer
      BY <3>1, <1>0, UpdateTrailerFacts
    <3> QED BY <1>0, <2>3, <2>4, <2>6, <3>2 DEF IsScan
  <2> QED BY <1>1, <2>5, <2>6
<1>2. CASE ScanMember
  <2>1. PICK n \in todo :
          scan' = [scan EXCEPT !.table = AddCompressed(@, n, At(sec).num)]
    BY <1>2 DEF ScanMember
  <2>2. Is(sec, "objstm") /\ n \in DOMAIN At(sec).members /\ FileOK
    BY <1>2 DEF ScanMember, Place, Typed
  <2>3. n \in Nat /\ At(sec).num \in Nat
    <3>1. IsItem(At(sec))
      BY <2>2, ItemFacts DEF Is
    <3>2. n \in Nat
      BY <2>2, <3>1 DEF IsItem, Is
    <3> QED BY <3>2, <2>2, NumberedItem DEF Is, Numbered
  <2>4. IsTable(AddCompressed(scan.table, n, At(sec).num))
    BY <1>0, <2>3, AddCompressedFacts
  <2>5. /\ scan' = [pos |-> scan'.pos, table |-> scan'.table, trailer |-> scan'.trailer]
        /\ scan'.pos = scan.pos /\ scan'.trailer = scan.trailer
        /\ scan'.table = AddCompressed(scan.table, n, At(sec).num)
    BY <1>0, <2>1
  <2> QED BY <1>0, <2>4, <2>5 DEF IsScan
<1>3. CASE ScanOther
  <2>1. /\ scan' = [pos |-> scan'.pos, table |-> scan'.table, trailer |-> scan'.trailer]
        /\ scan'.pos = scan.pos + 1 /\ scan'.table = scan.table
        /\ scan'.trailer = UpdateTrailer(scan.trailer, ScanTrailer(At(scan.pos)))
    BY <1>0, <1>3 DEF ScanOther
  <2>2. UpdateTrailer(scan.trailer, ScanTrailer(At(scan.pos))) \in Trailer
    BY <1>0, ScanTrailerFacts, UpdateTrailerFacts DEF Typed
  <2> QED BY <1>0, <2>1, <2>2 DEF IsScan
<1>4. CASE scan' \in {NoScan, [NoScan EXCEPT !.pos = 1], scan}
  BY <1>4, NoScanTyped DEF Typed, IsScan, IsTable
<1>5. \/ ScanObject \/ ScanMember \/ ScanStream \/ ScanOther
      \/ scan' \in {NoScan, [NoScan EXCEPT !.pos = 1], scan}
  BY DEF LoadStep, StartParse, MainTable, MainStream, MainFails, FindTable,
         FindStream, FindFails, FindEnds, ReadEntry, EntriesRead, LoadFront,
         VerifyCrossRefTable, SecondStream, SecondTable, AllLoaded, ScanEnds,
         SetEncryptHandler, FindRoot, StartRebuild
<1> QED BY <1>1, <1>2, <1>3, <1>4, <1>5

(* "startxref" leads to a number.                                          *)
LEMMA StartXRefTyped ==
    ASSUME FileOK
    PROVE  StartXRef \subseteq Nat
<1> DEFINE S == {q \in DOMAIN file : Is(q, "startxref")}
<1>1. S \in SUBSET Nat /\ IsFiniteSet(S)
  <2>1. DOMAIN file = 1 .. Len(file) /\ Len(file) \in Nat
    BY DEF FileOK, IsFile
  <2>2. IsFiniteSet(1 .. Len(file))
    BY <2>1, FS_Interval
  <2>3. S \subseteq 1 .. Len(file)
    BY <2>1
  <2> HIDE DEF S
  <2>4. IsFiniteSet(S)
    BY <2>2, <2>3, FS_Subset
  <2> QED BY <2>1, <2>3, <2>4
<1>2. CASE S = {}
  BY <1>2 DEF StartXRef
<1>3. CASE S # {}
  <2> DEFINE p == CHOOSE q \in S : \A r \in S : r <= q
  <2>1. \E q \in S : \A r \in S : r <= q
    <3> HIDE DEF S
    <3> QED BY <1>1, <1>3, LastNumber
  <2>2. p \in S
    <3> HIDE DEF S
    <3> QED BY <2>1
  <2>3. Is(p, "startxref")
    <3> HIDE DEF p
    <3> QED BY <2>2
  <2>4. At(p).pos \in Nat
    <3> HIDE DEF p
    <3> QED BY <2>3, ItemFacts DEF Is, IsItem
  <2>5. StartXRef \in {{At(p).pos}, {0, At(p).pos}}
    BY <1>3 DEF StartXRef
  <2> HIDE DEF p
  <2> QED BY <2>4, <2>5
<1> QED BY <1>2, <1>3

LEMMA PlacesTyped ==
    ASSUME LoadInv, LoadStep
    PROVE  /\ FileOK'
           /\ lastXRef' \in Nat /\ prev' \in Nat /\ sec' \in Nat /\ idx' \in Nat
           /\ pc' \in Steps /\ next' \in Steps \cup {"none"}
           /\ {xrefStream', rebuilt', handler', retried'} \subseteq BOOLEAN
<1> USE DEF LoadInv
<1>1. FileOK'
  <2>1. UNCHANGED file
    BY DEF LoadStep, StartParse, MainTable, MainStream, MainFails, FindTable,
           FindStream, FindFails, FindEnds, ReadEntry, EntriesRead, LoadFront,
           VerifyCrossRefTable, SecondStream, SecondTable, AllLoaded, ScanObject,
           ScanMember, ScanStream, ScanOther, ScanEnds, SetEncryptHandler, FindRoot
  <2> QED BY <2>1 DEF Typed, FileOK, IsFile
<1>2. lastXRef' \in Nat
  <2>1. StartParse => lastXRef' \in StartXRef
    BY DEF StartParse
  <2>2. ~StartParse => lastXRef' \in {lastXRef, 0}
    BY DEF LoadStep, MainTable, MainStream, MainFails, FindTable, FindStream,
           FindFails, FindEnds, ReadEntry, EntriesRead, LoadFront,
           VerifyCrossRefTable, SecondStream, SecondTable, AllLoaded, ScanObject,
           ScanMember, ScanStream, ScanOther, ScanEnds, SetEncryptHandler,
           FindRoot, resultVars
  <2> QED BY <2>1, <2>2, StartXRefTyped DEF Typed
<1>3. prev' \in Nat
  <2>1. CASE MainTable \/ MainStream
    <3>1. /\ At(lastXRef).trailer \in Trailer
          /\ prev' \in {prev, At(lastXRef).trailer.prev}
      BY <2>1, SectionItem DEF MainTable, MainStream, Is, Typed, chainVars
    <3> QED BY <3>1 DEF Typed, Trailer
  <2>2. CASE FindTable \/ FindStream
    <3>1. /\ At(prev).trailer \in Trailer
          /\ prev' \in {prev, At(prev).trailer.prev}
      BY <2>2, SectionItem DEF FindTable, FindStream, Is, Typed, chainVars
    <3> QED BY <3>1 DEF Typed, Trailer
  <2>3. CASE UNCHANGED prev
    BY <2>3 DEF Typed
  <2>4. \/ MainTable \/ MainStream \/ FindTable \/ FindStream \/ UNCHANGED prev
    BY DEF LoadStep, StartParse, MainFails, FindFails, FindEnds, ReadEntry,
           EntriesRead, LoadFront, VerifyCrossRefTable, SecondStream, SecondTable,
           AllLoaded, ScanObject, ScanMember, ScanStream, ScanOther, ScanEnds,
           SetEncryptHandler, FindRoot, chainVars
  <2> QED BY <2>1, <2>2, <2>3, <2>4
<1>4. sec' \in Nat /\ next' \in Steps \cup {"none"}
  <2>1. CASE MainStream
    BY <2>1 DEF MainStream, StartEntries, jobVars, Typed, Steps
  <2>2. CASE FindStream
    BY <2>2 DEF FindStream, StartEntries, jobVars, Typed, Steps
  <2>3. CASE LoadFront
    <3>1. xrefList[1] \in Nat
      BY <2>3, ChainSections, FirstOfChain DEF LoadFront, Place
    <3> QED BY <2>3, <3>1 DEF LoadFront, StartEntries, jobVars, Typed, Steps
  <2>4. CASE SecondStream
    <3>1. idx + 1 \in DOMAIN xrefList
      BY <2>4, FirstOfChain DEF SecondStream, Place
    <3>2. streamList[idx + 1] \in Nat
      BY <3>1, ChainSections
    <3> QED BY <2>4, <3>2 DEF SecondStream, StartEntries, jobVars, Typed, Steps
  <2>5. CASE SecondTable
    <3>1. xrefList[idx] \in Nat
      BY <2>5, ChainSections DEF SecondTable, Place
    <3> QED BY <2>5, <3>1 DEF SecondTable, StartEntries, jobVars, Typed, Steps
  <2>6. CASE ScanObject
    BY <2>6 DEF ScanObject, Typed, IsScan
  <2>7. CASE UNCHANGED <<sec, next>>
    BY <2>7 DEF Typed
  <2>8. \/ MainStream \/ FindStream \/ LoadFront \/ SecondStream \/ SecondTable
        \/ ScanObject \/ UNCHANGED <<sec, next>>
    BY DEF LoadStep, StartParse, MainTable, MainFails, FindTable, FindFails,
           FindEnds, ReadEntry, EntriesRead, VerifyCrossRefTable, AllLoaded,
           ScanMember, ScanStream, ScanOther, ScanEnds, SetEncryptHandler,
           FindRoot, jobVars
  <2> QED BY <2>1, <2>2, <2>3, <2>4, <2>5, <2>6, <2>7, <2>8
<1>5. idx' \in Nat
  <2>1. idx' \in {idx, 1, idx + 1}
    BY DEF LoadStep, StartParse, MainTable, MainStream, MainFails, FindTable,
           FindStream, FindFails, FindEnds, ReadEntry, EntriesRead, LoadFront,
           VerifyCrossRefTable, SecondStream, SecondTable, AllLoaded, ScanObject,
           ScanMember, ScanStream, ScanOther, ScanEnds, SetEncryptHandler,
           FindRoot, jobVars
  <2> QED BY <2>1 DEF Typed
<1>6. pc' \in Steps
  <2>1. CASE EntriesRead
    <3>1. pc' = next /\ pc = "entries"
      BY <2>1 DEF EntriesRead
    <3> QED BY <3>1 DEF IInv, Progress, Steps
  <2>2. CASE ~EntriesRead
    BY <2>2 DEF LoadStep, StartParse, MainTable, MainStream, MainFails, FindTable,
           FindStream, FindFails, FindEnds, ReadEntry, LoadFront,
           VerifyCrossRefTable, SecondStream, SecondTable, AllLoaded, ScanObject,
           ScanMember, ScanStream, ScanOther, ScanEnds, SetEncryptHandler,
           FindRoot, StartRebuild, StartEntries, Steps, Typed
  <2> QED BY <2>1, <2>2
<1>7. {xrefStream', rebuilt', handler', retried'} \subseteq BOOLEAN
  <2>1. xrefStream' \in {xrefStream, TRUE}
    BY DEF LoadStep, StartParse, MainTable, MainStream, MainFails, FindTable,
           FindStream, FindFails, FindEnds, ReadEntry, EntriesRead, LoadFront,
           VerifyCrossRefTable, SecondStream, SecondTable, AllLoaded, ScanObject,
           ScanMember, ScanStream, ScanOther, ScanEnds, SetEncryptHandler,
           FindRoot, resultVars
  <2>2. rebuilt' = rebuilt \/ rebuilt' = (rebuilt \/ ~retried)
    BY DEF LoadStep, StartParse, MainTable, MainStream, MainFails, FindTable,
           FindStream, FindFails, FindEnds, ReadEntry, EntriesRead, LoadFront,
           VerifyCrossRefTable, SecondStream, SecondTable, AllLoaded, ScanObject,
           ScanMember, ScanStream, ScanOther, ScanEnds, SetEncryptHandler,
           FindRoot, resultVars
  <2>3. handler' \in {handler, FALSE} \/ handler' = (EncryptDict = EncDict)
    BY DEF LoadStep, StartParse, MainTable, MainStream, MainFails, FindTable,
           FindStream, FindFails, FindEnds, ReadEntry, EntriesRead, LoadFront,
           VerifyCrossRefTable, SecondStream, SecondTable, AllLoaded, ScanObject,
           ScanMember, ScanStream, ScanOther, ScanEnds, SetEncryptHandler, FindRoot
  <2>4. retried' \in {retried, TRUE}
    BY DEF LoadStep, StartParse, MainTable, MainStream, MainFails, FindTable,
           FindStream, FindFails, FindEnds, ReadEntry, EntriesRead, LoadFront,
           VerifyCrossRefTable, SecondStream, SecondTable, AllLoaded, ScanObject,
           ScanMember, ScanStream, ScanOther, ScanEnds, SetEncryptHandler, FindRoot
  <2> QED BY <2>1, <2>2, <2>3, <2>4 DEF Typed
<1> QED BY <1>1, <1>2, <1>3, <1>4, <1>5, <1>6, <1>7

LEMMA MemoryTyped ==
    ASSUME LoadInv, LoadStep
    PROVE  StreamsTyped' /\ MemTyped'
<1> USE DEF LoadInv
<1>0. FileOK /\ StreamsTyped /\ MemTyped /\ UNCHANGED file
  BY DEF Typed, LoadStep, StartParse, MainTable, MainStream, MainFails, FindTable,
         FindStream, FindFails, FindEnds, ReadEntry, EntriesRead, LoadFront,
         VerifyCrossRefTable, SecondStream, SecondTable, AllLoaded, ScanObject,
         ScanMember, ScanStream, ScanOther, ScanEnds, SetEncryptHandler, FindRoot
<1>1. CASE SetEncryptHandler \/ FindRoot
  <2>1. Hold({trailer.enc}) \/ Hold({trailer.root, PagesRoot})
    BY <1>1 DEF SetEncryptHandler, FindRoot
  <2> QED BY <1>0, <2>1, HoldFacts
<1>2. CASE AllLoaded
  <2>1. UNCHANGED mem /\ (UNCHANGED streamMap \/ DOMAIN streamMap' = {})
    BY <1>2 DEF AllLoaded
  <2> QED BY <1>0, <2>1 DEF StreamsTyped, MemTyped, Is, At, Junk
<1>3. CASE UNCHANGED <<mem, streamMap>>
  BY <1>0, <1>3 DEF StreamsTyped, MemTyped, Is, At, Junk
<1>4. \/ SetEncryptHandler \/ FindRoot \/ AllLoaded \/ UNCHANGED <<mem, streamMap>>
  BY DEF LoadStep, StartParse, MainTable, MainStream, MainFails, FindTable,
         FindStream, FindFails, FindEnds, ReadEntry, EntriesRead, LoadFront,
         VerifyCrossRefTable, SecondStream, SecondTable, ScanObject,
         ScanMember, ScanStream, ScanOther, ScanEnds
<1> QED BY <1>1, <1>2, <1>3, <1>4

LEMMA StepTyped ==
    ASSUME LoadInv, LoadStep
    PROVE  Typed'
BY PlacesTyped, TableTyped, TrailerTyped, ScanTyped, MemoryTyped DEF Typed

LEMMA StepPlace ==
    ASSUME LoadInv, LoadStep
    PROVE  Place'
<1> USE DEF LoadInv
<1>0. \A p, kind : Is(p, kind)' = Is(p, kind) /\ At(p)' = At(p)
  <2>1. UNCHANGED file
    BY DEF LoadStep, StartParse, MainTable, MainStream, MainFails, FindTable,
           FindStream, FindFails, FindEnds, ReadEntry, EntriesRead, LoadFront,
           VerifyCrossRefTable, SecondStream, SecondTable, AllLoaded, ScanObject,
           ScanMember, ScanStream, ScanOther, ScanEnds, SetEncryptHandler, FindRoot
  <2> QED BY <2>1 DEF Is, At, Junk
<1>1. CASE StartParse \/ MainTable \/ MainFails \/ FindTable \/ FindFails
  <2>1. pc' \in {"main", "scan", "find"} /\ todo' = {}
    BY <1>1 DEF StartParse, MainTable, MainFails, FindTable, FindFails,
                StartRebuild, jobVars, Place
  <2> QED BY <2>1 DEF Place
<1>2. CASE MainStream
  <2>1. CASE At(lastXRef).ok
    <3>1. /\ pc' = "entries" /\ next' = "find" /\ sec' = lastXRef
          /\ todo' = DOMAIN At(lastXRef).entries
          /\ xrefList' = <<0>> /\ streamList' = <<lastXRef>>
          /\ Is(lastXRef, "stream")
      BY <1>2, <2>1 DEF MainStream, StartEntries
    <3> QED BY <3>1, <1>0 DEF Place, Is
  <2>2. CASE ~At(lastXRef).ok
    <3>1. pc' = "scan" /\ todo' = {}
      BY <1>2, <2>2 DEF MainStream, StartRebuild, jobVars, Place
    <3> QED BY <3>1 DEF Place
  <2> QED BY <2>1, <2>2
<1>3. CASE FindStream
  <2>1. CASE At(prev).ok
    <3>1. /\ pc' = "entries" /\ next' = "find" /\ sec' = prev
          /\ todo' = DOMAIN At(prev).entries
          /\ xrefList' = <<0>> \o xrefList /\ streamList' = <<prev>> \o streamList
          /\ Is(prev, "stream")
      BY <1>3, <2>1 DEF FindStream, StartEntries
    <3>2. xrefList'[1] = 0 /\ streamList'[1] = prev /\ xrefList' # <<>>
      <4>1. xrefList' \in Seq(Nat) /\ Len(xrefList') = Len(xrefList) + 1
            /\ Len(xrefList) \in Nat /\ xrefList'[1] = 0
        BY <3>1, FrontFacts DEF IInv, ChainType
      <4>2. prev \in Nat
        BY DEF Typed
      <4>3. streamList'[1] = prev
        BY <3>1, <4>2, FrontFacts DEF IInv, ChainType
      <4> QED BY <4>1, <4>3
    <3> QED BY <3>1, <3>2, <1>0 DEF Place, Is
  <2>2. CASE ~At(prev).ok
    <3>1. pc' = "scan" /\ todo' = {}
      BY <1>3, <2>2 DEF FindStream, StartRebuild, jobVars, Place
    <3> QED BY <3>1 DEF Place
  <2> QED BY <2>1, <2>2
<1>4. CASE FindEnds
  <2>1. pc = "find" /\ pc' = "front" /\ UNCHANGED <<chainVars, jobVars>>
    BY <1>4 DEF FindEnds
  <2> QED BY <2>1 DEF Place, IInv, Progress, Searching, chainVars, jobVars
<1>5. CASE ReadEntry
  <2>1. /\ todo' \subseteq todo
        /\ UNCHANGED <<pc, sec, next, idx, xrefList, streamList>>
    BY <1>5 DEF ReadEntry, chainVars
  <2>2. pc = "entries"
    BY <1>5 DEF ReadEntry
  <2> QED BY <2>1, <2>2, <1>0 DEF Place
<1>6. CASE EntriesRead
  <2>1. /\ pc = "entries" /\ todo = {} /\ pc' = next
        /\ UNCHANGED <<xrefList, streamList, sec, todo, next, idx>>
    BY <1>6 DEF EntriesRead, chainVars, jobVars
  <2>2. next \in {"find", "verify", "table", "second"} /\ xrefList # <<>>
    BY <2>1 DEF IInv, Progress, Place
  <2>3. next = "verify" => idx = 1 /\ idx \in DOMAIN xrefList
    BY <2>1, <2>2, FirstOfChain DEF Place
  <2>4. next \in {"table", "second"} => idx \in DOMAIN xrefList /\ idx > 1
    BY <2>1 DEF Place
  <2> QED BY <2>1, <2>2, <2>3, <2>4 DEF Place
<1>7. CASE LoadFront
  <2>1. pc = "front" /\ idx' = 1 /\ UNCHANGED <<xrefList, streamList>>
    BY <1>7 DEF LoadFront, chainVars
  <2>2. xrefList # <<>> /\ todo = {}
    BY <2>1 DEF Place
  <2>3. 1 \in DOMAIN xrefList /\ xrefList[1] \in Nat
        /\ (xrefList[1] > 0 => Is(xrefList[1], "table"))
    BY <2>2, FirstOfChain, ChainSections
  <2>4. CASE xrefList[1] > 0
    <3>1. /\ pc' = "entries" /\ next' = "verify" /\ sec' = xrefList[1]
          /\ todo' = DOMAIN At(xrefList[1]).entries
      BY <1>7, <2>4 DEF LoadFront, StartEntries
    <3> QED BY <2>1, <2>2, <2>3, <2>4, <3>1, <1>0 DEF Place, Is
  <2>5. CASE ~(xrefList[1] > 0)
    <3>1. pc' = "second" /\ todo' = {}
      BY <1>7, <2>2, <2>5 DEF LoadFront
    <3> QED BY <2>1, <2>2, <2>3, <3>1 DEF Place
  <2> QED BY <2>4, <2>5
<1>8. CASE VerifyCrossRefTable
  <2>1. /\ pc = "verify" /\ pc' \in {"second", "scan"}
        /\ UNCHANGED <<xrefList, streamList, sec, todo, next, idx>>
    BY <1>8 DEF VerifyCrossRefTable, StartRebuild, chainVars, jobVars
  <2> QED BY <2>1 DEF Place
<1>9. CASE SecondStream
  <2> DEFINE p == streamList[idx + 1]
  <2>1. /\ pc = "second" /\ idx' = idx + 1 /\ UNCHANGED <<xrefList, streamList>>
        /\ idx < Len(xrefList)
    BY <1>9 DEF SecondStream, chainVars
  <2>2. xrefList # <<>> /\ todo = {} /\ idx \in DOMAIN xrefList
    BY <2>1 DEF Place
  <2>3. idx' \in DOMAIN xrefList /\ idx' > 1
    BY <2>1, <2>2, FirstOfChain
  <2>4. CASE p = 0
    <3>1. pc' = "table" /\ todo' = {}
      BY <1>9, <2>2, <2>4 DEF SecondStream
    <3> QED BY <2>1, <2>2, <2>3, <3>1 DEF Place
  <2>5. CASE p # 0 /\ Is(p, "stream") /\ At(p).ok
    <3>1. /\ pc' = "entries" /\ next' = "table" /\ sec' = p
          /\ todo' = DOMAIN At(p).entries
      BY <1>9, <2>5 DEF SecondStream, StartEntries
    <3>2. sec' = streamList'[idx']
      BY <2>1, <3>1
    <3> QED BY <2>1, <2>2, <2>3, <2>5, <3>1, <3>2, <1>0 DEF Place, Is
  <2>6. CASE p # 0 /\ ~(Is(p, "stream") /\ At(p).ok)
    <3>1. pc' = "scan" /\ todo' = {}
      BY <1>9, <2>2, <2>6 DEF SecondStream, StartRebuild
    <3> QED BY <3>1 DEF Place
  <2> QED BY <2>4, <2>5, <2>6
<1>10. CASE SecondTable
  <2>1. pc = "table" /\ UNCHANGED <<xrefList, streamList, idx>>
    BY <1>10 DEF SecondTable, chainVars
  <2>2. xrefList # <<>> /\ todo = {} /\ idx \in DOMAIN xrefList /\ idx > 1
    BY <2>1 DEF Place
  <2>3. xrefList[idx] \in Nat /\ (xrefList[idx] > 0 => Is(xrefList[idx], "table"))
    BY <2>2, ChainSections
  <2>4. CASE xrefList[idx] > 0
    <3>1. /\ pc' = "entries" /\ next' = "second" /\ sec' = xrefList[idx]
          /\ todo' = DOMAIN At(xrefList[idx]).entries
      BY <1>10, <2>4 DEF SecondTable, StartEntries
    <3> QED BY <2>1, <2>2, <2>3, <2>4, <3>1, <1>0 DEF Place, Is
  <2>5. CASE ~(xrefList[idx] > 0)
    <3>1. pc' = "second" /\ todo' = {}
      BY <1>10, <2>2, <2>5 DEF SecondTable
    <3> QED BY <2>1, <2>2, <3>1 DEF Place
  <2> QED BY <2>4, <2>5
<1>11. CASE AllLoaded \/ SetEncryptHandler \/ FindRoot
  <2>1. todo' = {} /\ pc' \in {"encrypt", "root", "open", "failed", "scan"}
    BY <1>11 DEF AllLoaded, SetEncryptHandler, FindRoot, StartRebuild, jobVars, Place
  <2> QED BY <2>1 DEF Place
<1>12. CASE ScanObject
  <2>1. /\ pc' = "scan" /\ sec' = scan.pos
        /\ todo' = IF /\ At(scan.pos).kind = "objstm"
                      /\ ~At(scan.pos).locked
                   THEN DOMAIN At(scan.pos).members ELSE {}
    BY <1>12 DEF ScanObject, Scanning
  <2> QED BY <2>1, <1>0 DEF Place, Is
<1>13. CASE ScanMember
  <2>1. /\ pc = "scan" /\ pc' = "scan" /\ todo # {} /\ todo' \subseteq todo
        /\ sec' = sec
    BY <1>13 DEF ScanMember
  <2> QED BY <2>1, <1>0 DEF Place
<1>14. CASE ScanStream \/ ScanOther \/ ScanEnds
  <2>1. todo' = {} /\ pc' \in {"scan", "encrypt", "failed"}
    BY <1>14 DEF ScanStream, ScanOther, ScanEnds, Scanning, jobVars
  <2> QED BY <2>1 DEF Place
<1> QED BY <1>1, <1>2, <1>3, <1>4, <1>5, <1>6, <1>7, <1>8, <1>9, <1>10, <1>11,
           <1>12, <1>13, <1>14 DEF LoadStep

-----------------------------------------------------------------------------
(* What a scan has found so far: of the objects with the number n that are *)
(* before k, the last one with the highest generation.                     *)
Newest(t, n, k) ==
    \/ InfoOf(t, n).gen = 0 /\ \A p \in Objects(n) : p >= k
    \/ \E p \in Objects(n) :
         /\ p < k
         /\ \A q \in Objects(n) :
              q < k => \/ At(q).gen < At(p).gen
                       \/ q <= p /\ At(q).gen = At(p).gen
         /\ n \in DOMAIN t /\ InfoOf(t, n).type = "normal"
         /\ InfoOf(t, n).pos = p /\ InfoOf(t, n).gen = At(p).gen

NamesRootBefore(p, r, k) ==
    /\ p \in Trailers /\ p < k /\ At(p).trailer.root = r
    /\ \A q \in Trailers : q > p /\ q < k => At(q).trailer.root \in {0, r}

ScanRight ==
    /\ \A n \in ObjNums : ~Archived(n) => Newest(scan.table, n, scan.pos)
    /\ \A r \in ObjNums, p \in DOMAIN file :
         NamesRootBefore(p, r, scan.pos) => scan.trailer.root = r

FindsRoot == \A r \in ObjNums, p \in DOMAIN file : NamesRoot(p, r) => trailer.root = r

(* An object is kept in memory as it is somewhere in the file.             *)
CatalogsRead ==
    \A r \in DOMAIN mem :
      (~Archived(r) /\ \A c \in Objects(r) : Is(c, "obj") => IsCatalog(At(c).val))
        => IsCatalog(mem[r])

(* What opening a rebuilt file has read is the last object of its number,  *)
(* unless decrypting may change it.                                        *)
LastValue(n, v) ==
    \A p \in LastOf(n) :
      (~Archived(n) /\ Is(p, "obj") /\ At(p).val \notin Data \ Paged)
        => v = At(p).val
LastKept ==
    /\ (~rebuilt /\ ~retried /\ pc \notin {"root", "open", "failed"}) =>
         DOMAIN mem = {}
    /\ (rebuilt /\ pc \in {"encrypt", "root"}) =>
         \A n \in DOMAIN mem : LastValue(n, mem[n])

RebuildInv ==
    /\ pc = "scan" => ScanRight
    /\ RebuildFindsLast /\ (Rebuilt => FindsRoot)
    /\ rebuilt \/ retried => pc \in {"scan", "encrypt", "root", "open", "failed"}
    /\ rebuilt => ~retried /\ pc # "scan"
    /\ pc # "open" => CatalogsRead
    /\ LastKept
    /\ IntactOpens

LEMMA ObjectsFacts ==
    ASSUME FileOK, NEW n, NEW p \in Objects(n)
    PROVE  /\ p \in Nat /\ p > 0 /\ p <= Len(file) /\ Len(file) \in Nat
           /\ At(p).gen \in Nat /\ At(p).num = n /\ At(p).kind \in Numbered
<1>1. At(p).kind \in Numbered /\ At(p).num = n /\ p \in DOMAIN file
  BY DEF Objects
<1> QED BY <1>1, NumberedItem DEF FileOK, IsFile

LEMMA TrailersFacts ==
    ASSUME FileOK, NEW p \in Trailers
    PROVE  /\ p \in Nat /\ p > 0 /\ p <= Len(file) /\ Len(file) \in Nat
           /\ At(p).trailer \in Trailer /\ At(p).trailer.root \in Int
<1>1. At(p).kind \in {"table", "stream"} /\ p \in DOMAIN file
  BY DEF Trailers, IsTrailer
<1> QED BY <1>1, SectionItem DEF FileOK, IsFile, Trailer

LEMMA NewestNormal ==
    ASSUME FileOK, NEW t, IsTable(t), NEW n \in Nat, NEW k \in Nat,
           At(k).kind \in Numbered, Newest(t, n, k)
    PROVE  Newest(AddNormal(t, At(k).num, At(k).gen, k), n, k + 1)
<1> DEFINE u == AddNormal(t, At(k).num, At(k).gen, k)
<1>1. /\ k \in DOMAIN file /\ At(k).num \in Nat /\ At(k).gen \in Nat
  BY NumberedItem
<1>2. /\ DOMAIN t \subseteq DOMAIN u
      /\ \A m : m # At(k).num => InfoOf(u, m) = InfoOf(t, m)
      /\ InfoOf(t, At(k).num).gen > At(k).gen => u = t
      /\ ~(InfoOf(t, At(k).num).gen > At(k).gen) =>
           /\ At(k).num \in DOMAIN u /\ InfoOf(u, At(k).num).type = "normal"
           /\ InfoOf(u, At(k).num).gen = At(k).gen
           /\ InfoOf(u, At(k).num).pos = k
  <2> DEFINE num == At(k).num
             gen == At(k).gen
  <2>1. num \in Nat /\ gen \in Nat
    BY <1>1
  <2> HIDE DEF num, gen
  <2>2. LET v == AddNormal(t, num, gen, k)
        IN  /\ DOMAIN t \subseteq DOMAIN v
            /\ \A m : m # num => InfoOf(v, m) = InfoOf(t, m)
            /\ InfoOf(t, num).gen > gen => v = t
            /\ ~(InfoOf(t, num).gen > gen) =>
                 /\ num \in DOMAIN v /\ InfoOf(v, num).type = "normal"
                 /\ InfoOf(v, num).gen = gen /\ InfoOf(v, num).pos = k
    BY ONLY <2>1, IsTable(t), k \in Nat, AddNormalFacts, SMTT(60)
  <2> QED BY <2>2 DEF num, gen
<1> HIDE DEF u
<1>3. \A q \in Objects(n) : q \in Nat /\ At(q).gen \in Nat
  BY ObjectsFacts
<1>4. CASE At(k).num # n
  <2>1. \A q \in Objects(n) : q # k
    BY <1>4 DEF Objects
  <2>2. \A q \in Objects(n) : (q < k + 1 <=> q < k) /\ (q >= k => q >= k + 1)
    BY <2>1, <1>3
  <2>3. InfoOf(u, n) = InfoOf(t, n) /\ (n \in DOMAIN t => n \in DOMAIN u)
    BY <1>2, <1>4
  <2> QED BY <2>2, <2>3 DEF Newest, u
<1>5. CASE At(k).num = n
  <2>1. k \in Objects(n)
    BY <1>1, <1>5 DEF Objects
  <2>2. CASE InfoOf(t, n).gen = 0 /\ \A p \in Objects(n) : p >= k
    <3>1. ~(InfoOf(t, At(k).num).gen > At(k).gen)
      BY <2>2, <1>1, <1>5
    <3>2. \A q \in Objects(n) : q < k + 1 => q <= k /\ At(q).gen = At(k).gen
      BY <2>2, <1>3
    <3> QED BY <3>1, <3>2, <2>1, <1>2, <1>5 DEF Newest, u
  <2>3. CASE \E p \in Objects(n) :
               /\ p < k
               /\ \A q \in Objects(n) :
                    q < k => \/ At(q).gen < At(p).gen
                             \/ q <= p /\ At(q).gen = At(p).gen
               /\ n \in DOMAIN t /\ InfoOf(t, n).type = "normal"
               /\ InfoOf(t, n).pos = p /\ InfoOf(t, n).gen = At(p).gen
    <3>1. PICK p \in Objects(n) :
            /\ p < k
            /\ \A q \in Objects(n) :
                 q < k => \/ At(q).gen < At(p).gen
                          \/ q <= p /\ At(q).gen = At(p).gen
            /\ n \in DOMAIN t /\ InfoOf(t, n).type = "normal"
            /\ InfoOf(t, n).pos = p /\ InfoOf(t, n).gen = At(p).gen
      BY <2>3
    <3>2. \A q \in Objects(n) : q < k + 1 => q < k \/ q = k
      BY <1>3
    <3>3. p \in Nat /\ At(p).gen \in Nat
      BY <1>3
    <3>4. CASE At(p).gen > At(k).gen
      <4>1. u = t
        BY <3>1, <3>4, <1>2, <1>5
      <4>2. \A q \in Objects(n) :
              q < k + 1 => \/ At(q).gen < At(p).gen
                           \/ q <= p /\ At(q).gen = At(p).gen
        BY <3>1, <3>2, <3>4, <1>1, <3>3
      <4>3. p < k + 1
        BY <3>1, <3>3
      <4> QED BY <3>1, <4>1, <4>2, <4>3 DEF Newest, u
    <3>5. CASE ~(At(p).gen > At(k).gen)
      <4>1. /\ n \in DOMAIN u /\ InfoOf(u, n).type = "normal"
            /\ InfoOf(u, n).gen = At(k).gen /\ InfoOf(u, n).pos = k
        BY <3>1, <3>5, <1>2, <1>5
      <4>2. \A q \in Objects(n) :
              q < k + 1 => \/ At(q).gen < At(k).gen
                           \/ q <= k /\ At(q).gen = At(k).gen
        <5> SUFFICES ASSUME NEW q \in Objects(n), q < k + 1
                     PROVE  \/ At(q).gen < At(k).gen
                            \/ q <= k /\ At(q).gen = At(k).gen
          OBVIOUS
        <5>1. q \in Nat /\ At(q).gen \in Nat /\ q <= k
          BY <1>3
        <5>2. CASE q = k
          BY <5>2
        <5>3. CASE q < k
          <6>1. At(q).gen <= At(p).gen
            BY <3>1, <5>1, <5>3, <3>3
          <6> QED BY <6>1, <5>1, <3>3, <3>5, <1>1
        <5> QED BY <3>2, <5>2, <5>3
      <4>3. k < k + 1
        OBVIOUS
      <4> QED BY <4>1, <4>2, <4>3, <2>1 DEF Newest, u
    <3> QED BY <3>4, <3>5
  <2> QED BY <2>2, <2>3 DEF Newest
<1> QED BY <1>4, <1>5

LEMMA NewestOther ==
    ASSUME FileOK, NEW t, NEW n \in Nat, NEW k \in Nat,
           At(k).kind \notin Numbered, Newest(t, n, k)
    PROVE  Newest(t, n, k + 1)
<1>1. \A q \in Objects(n) : q \in Nat /\ q # k
  BY ObjectsFacts
<1>2. \A q \in Objects(n) : (q < k + 1 <=> q < k) /\ (q >= k => q >= k + 1)
  BY <1>1
<1> QED BY <1>2 DEF Newest

LEMMA NewestMember ==
    ASSUME NEW t, NEW u, NEW n, NEW k, SameEntry(t, u, n), Newest(t, n, k)
    PROVE  Newest(u, n, k)
BY DEF Newest, SameEntry

(* What a trailer that is met says of the catalog.                         *)
LEMMA RootBefore ==
    ASSUME FileOK, NEW k \in Nat, NEW cur \in Trailer, NEW new \in Trailer,
           NEW r \in Nat \ {0}, NEW p, NamesRootBefore(p, r, k + 1),
           k \in Trailers => new = UpdateTrailer(cur, At(k).trailer),
           k \notin Trailers => new = cur,
           NamesRootBefore(p, r, k) => cur.root = r
    PROVE  new.root = r
<1>1. /\ p \in Trailers /\ p < k + 1 /\ At(p).trailer.root = r
      /\ \A q \in Trailers : q > p /\ q < k + 1 => At(q).trailer.root \in {0, r}
  BY DEF NamesRootBefore
<1>2. \A q \in Trailers : q \in Nat /\ At(q).trailer \in Trailer
  BY TrailersFacts
<1>3. CASE p = k
  BY <1>1, <1>2, <1>3, UpdateTrailerFacts
<1>4. CASE p # k
  <2>1. p < k
    BY <1>1, <1>2, <1>4
  <2>2. \A q \in Trailers : q > p /\ q < k => At(q).trailer.root \in {0, r}
    BY <1>1, <1>2
  <2>3. cur.root = r
    BY <1>1, <2>1, <2>2 DEF NamesRootBefore
  <2>4. CASE k \in Trailers
    <3>1. At(k).trailer.root \in {0, r} /\ At(k).trailer \in Trailer
      BY <1>1, <1>2, <2>1, <2>4
    <3> QED BY <2>3, <2>4, <3>1, UpdateTrailerFacts
  <2>5. CASE k \notin Trailers
    BY <2>3, <2>5
  <2> QED BY <2>4, <2>5
<1> QED BY <1>3, <1>4

(* The properties of a file do not change while it is loaded.              *)
LEMMA FileFixed ==
    ASSUME UNCHANGED file
    PROVE  /\ \A p : At(p)' = At(p)
           /\ \A p, kind : Is(p, kind)' = Is(p, kind)
           /\ \A n : Objects(n)' = Objects(n) /\ LastOf(n)' = LastOf(n)
                     /\ Archived(n)' = Archived(n)
           /\ Trailers' = Trailers /\ (DOMAIN file)' = DOMAIN file
           /\ \A p, r : NamesRoot(p, r)' = NamesRoot(p, r)
           /\ \A p, r, k : NamesRootBefore(p, r, k)' = NamesRootBefore(p, r, k)
<1>1. \A p : At(p)' = At(p)
  BY DEF At, Junk
<1>2. \A p, kind : Is(p, kind)' = Is(p, kind)
  BY <1>1 DEF Is
<1>3. \A n : Objects(n)' = Objects(n)
  BY <1>1 DEF Objects
<1>4. \A n : LastOf(n)' = LastOf(n)
  BY <1>1, <1>3 DEF LastOf
<1>5. \A n : Archived(n)' = Archived(n)
  BY <1>1, <1>2 DEF Archived
<1>6. Trailers' = Trailers
  BY <1>1 DEF Trailers, IsTrailer
<1>7. \A p, r : NamesRoot(p, r)' = NamesRoot(p, r)
  BY <1>1, <1>6 DEF NamesRoot
<1>8. \A p, r, k : NamesRootBefore(p, r, k)' = NamesRootBefore(p, r, k)
  BY <1>1, <1>6 DEF NamesRootBefore
<1> QED BY <1>1, <1>2, <1>3, <1>4, <1>5, <1>6, <1>7, <1>8

LEMMA RecoverableFixed ==
    ASSUME UNCHANGED file
    PROVE  Recoverable' = Recoverable
<1>1. /\ \A p : At(p)' = At(p)
      /\ \A p, kind : Is(p, kind)' = Is(p, kind)
      /\ \A n : Objects(n)' = Objects(n) /\ LastOf(n)' = LastOf(n)
                /\ Archived(n)' = Archived(n)
      /\ \A p, r : NamesRoot(p, r)' = NamesRoot(p, r)
      /\ (DOMAIN file)' = DOMAIN file
  BY FileFixed
<1>2. \A n : PagesWhole(n)' = PagesWhole(n)
  BY <1>1 DEF PagesWhole, HasPages
<1> QED BY <1>1, <1>2 DEF Recoverable, IsCatalog

LEMMA StepKeepsFile == LoadStep => UNCHANGED file
BY DEF LoadStep, StartParse, MainTable, MainStream, MainFails, FindTable,
       FindStream, FindFails, FindEnds, ReadEntry, EntriesRead, LoadFront,
       VerifyCrossRefTable, SecondStream, SecondTable, AllLoaded, ScanObject,
       ScanMember, ScanStream, ScanOther, ScanEnds, SetEncryptHandler, FindRoot

(* A scan starts with nothing found, ...                                   *)
LEMMA ScanStarts ==
    ASSUME FileOK, UNCHANGED file, StartRebuild
    PROVE  ScanRight'
<1>1. /\ scan'.pos = 1 /\ scan'.table = EmptyInfo
  BY NoScanTyped DEF StartRebuild
<1>2. \A n : InfoOf(EmptyInfo, n).gen = 0
  BY EmptyTable DEF InfoOf, NoInfo
<1>3. \A n : \A p \in Objects(n) : p >= 1
  BY ObjectsFacts
<1>4. \A n : Newest(EmptyInfo, n, 1)
  BY <1>2, <1>3 DEF Newest
<1>5. \A p, r : ~NamesRootBefore(p, r, 1)
  BY TrailersFacts DEF NamesRootBefore
<1>6. \A n : Objects(n)' = Objects(n) /\ Archived(n)' = Archived(n)
  BY FileFixed
<1>7. \A p, r, k : NamesRootBefore(p, r, k)' = NamesRootBefore(p, r, k)
  BY FileFixed
<1>8. \A n : Newest(scan.table, n, scan.pos)' = Newest(scan'.table, n, scan'.pos)
  BY <1>6, FileFixed DEF Newest, InfoOf
<1>9. \A p, r : NamesRootBefore(p, r, scan.pos)' = NamesRootBefore(p, r, scan'.pos)
  BY FileFixed DEF NamesRootBefore
<1> QED BY <1>1, <1>4, <1>5, <1>8, <1>9 DEF ScanRight

(* ... each of its steps finds what there is at its place, ...             *)
LEMMA ScanGoesOn ==
    ASSUME LoadInv, ScanRight, UNCHANGED file,
           ScanObject \/ ScanMember \/ ScanStream \/ ScanOther
    PROVE  ScanRight'
<1> USE DEF LoadInv
<1>0. /\ FileOK /\ IsTable(scan.table) /\ scan.pos \in Nat
      /\ scan.trailer \in Trailer
      /\ scan = [pos |-> scan.pos, table |-> scan.table, trailer |-> scan.trailer]
  BY DEF Typed, IsScan
<1>a. \A n \in ObjNums : n \in Nat /\ n \in Nat \ {0}
  BY LoadAssumption
<1>b. \A n : Archived(n)' = Archived(n)
  BY FileFixed
<1>c. \A n : Newest(scan.table, n, scan.pos)' = Newest(scan'.table, n, scan'.pos)
  BY FileFixed DEF Newest, InfoOf
<1>d. \A p, r : NamesRootBefore(p, r, scan.pos)' = NamesRootBefore(p, r, scan'.pos)
  BY FileFixed DEF NamesRootBefore
<1>e. (DOMAIN file)' = DOMAIN file
  BY FileFixed
<1>1. CASE ScanMember
  <2>1. PICK m \in todo :
          scan' = [scan EXCEPT !.table = AddCompressed(@, m, At(sec).num)]
    BY <1>1 DEF ScanMember
  <2>2. Is(sec, "objstm") /\ m \in DOMAIN At(sec).members
    BY <1>1 DEF ScanMember, Place
  <2>3. m \in Nat /\ At(sec).num \in Nat /\ sec \in DOMAIN file
    <3>1. IsItem(At(sec))
      BY <2>2, <1>0, ItemFacts DEF Is
    <3>2. m \in Nat
      BY <2>2, <3>1 DEF IsItem, Is
    <3> QED BY <3>2, <2>2, <1>0, NumberedItem DEF Is, Numbered
  <2>4. Archived(m)
    BY <2>2, <2>3 DEF Archived
  <2>5. /\ scan'.pos = scan.pos /\ scan'.trailer = scan.trailer
        /\ scan'.table = AddCompressed(scan.table, m, At(sec).num)
    BY <1>0, <2>1
  <2>6. \A n : n # m => SameEntry(scan.table, scan'.table, n)
    <3>1. \A t, a : (IsTable(t) /\ a \in Nat) =>
            \A n : n # m => SameEntry(t, AddCompressed(t, m, a), n)
      BY ONLY <2>3, AddCompressedFacts
    <3> QED BY ONLY <1>0, <3>1, <2>3, <2>5
  <2>7. \A n \in ObjNums : ~Archived(n) => Newest(scan'.table, n, scan'.pos)
    <3> SUFFICES ASSUME NEW n \in ObjNums, ~Archived(n)
                 PROVE  Newest(scan'.table, n, scan'.pos)
      OBVIOUS
    <3>1. n # m /\ Newest(scan.table, n, scan.pos)
      BY <2>4 DEF ScanRight
    <3> QED BY <3>1, <2>5, <2>6, NewestMember
  <2> QED BY <2>5, <2>7, <1>b, <1>c, <1>d, <1>e DEF ScanRight
<1>2. CASE ScanObject \/ ScanStream \/ ScanOther
  <2>1. scan'.pos = scan.pos + 1
    BY <1>0, <1>2 DEF ScanObject, ScanStream, ScanOther
  <2>2. \A n \in ObjNums : ~Archived(n) => Newest(scan'.table, n, scan'.pos)
    <3> SUFFICES ASSUME NEW n \in ObjNums, ~Archived(n)
                 PROVE  Newest(scan'.table, n, scan'.pos)
      OBVIOUS
    <3>1. Newest(scan.table, n, scan.pos)
      BY DEF ScanRight
    <3>2. CASE ScanObject \/ ScanStream
      <4>1. At(scan.pos).kind \in Numbered
        BY <3>2 DEF ScanObject, ScanStream, Is, Numbered
      <4>2. scan'.table = AddNormal(scan.table, At(scan.pos).num, At(scan.pos).gen,
                                    scan.pos)
        BY <3>2, <1>0 DEF ScanObject, ScanStream
      <4> QED BY <3>1, <4>1, <4>2, <2>1, <1>0, <1>a, NewestNormal
    <3>3. CASE ScanOther
      <4>1. At(scan.pos).kind \notin Numbered
        BY <3>3 DEF ScanOther, Numbered
      <4>2. scan'.table = scan.table
        BY <3>3, <1>0 DEF ScanOther
      <4> QED BY <3>1, <4>1, <4>2, <2>1, <1>0, <1>a, NewestOther
    <3> QED BY <1>2, <3>2, <3>3
  <2>3. /\ scan.pos \in Trailers =>
             scan'.trailer = UpdateTrailer(scan.trailer, At(scan.pos).trailer)
        /\ scan.pos \notin Trailers => scan'.trailer = scan.trailer
    <3> DEFINE item == At(scan.pos)
    <3>1. scan.pos \in Trailers <=> IsTrailer(item)
      BY <1>0, ItemFacts DEF Trailers, IsTrailer
    <3>2. CASE ScanObject
      <4>1. ~IsTrailer(item) /\ scan'.trailer = scan.trailer
        BY <3>2, <1>0 DEF ScanObject, IsTrailer
      <4> QED BY <3>1, <4>1
    <3>3. CASE ScanStream \/ ScanOther
      <4>1. scan'.trailer = UpdateTrailer(scan.trailer, ScanTrailer(item))
        BY <3>3, <1>0 DEF ScanStream, ScanOther
      <4>2. CASE IsTrailer(item)
        BY <3>1, <4>1, <4>2, <1>0, ScanTrailerFacts
      <4>3. CASE ~IsTrailer(item)
        <5>1. ScanTrailer(item) = NoTrailer /\ NoTrailer \in Trailer
          BY <4>3, <1>0, ScanTrailerFacts, NoScanTyped
        <5>2. scan'.trailer = scan.trailer
          BY <4>1, <5>1, <1>0, UpdateTrailerFacts
        <5> QED BY <3>1, <4>3, <5>2
      <4> QED BY <4>2, <4>3
    <3> QED BY <1>2, <3>2, <3>3
  <2>4. IsScan(scan)'
    <3>1. LoadStep
      BY <1>2 DEF LoadStep
    <3> QED BY <3>1, ScanTyped
  <2>5. \A r \in ObjNums, p \in DOMAIN file :
          NamesRootBefore(p, r, scan'.pos) => scan'.trailer.root = r
    <3> SUFFICES ASSUME NEW r \in ObjNums, NEW p \in DOMAIN file,
                        NamesRootBefore(p, r, scan.pos + 1)
                 PROVE  scan'.trailer.root = r
      BY <2>1
    <3>1. NamesRootBefore(p, r, scan.pos) => scan.trailer.root = r
      BY DEF ScanRight
    <3>2. scan'.trailer \in Trailer
      BY <2>4 DEF IsScan
    <3> QED BY <3>1, <3>2, <2>3, <1>0, <1>a, RootBefore
  <2> QED BY <2>2, <2>5, <1>b, <1>c, <1>d, <1>e DEF ScanRight
<1> QED BY <1>1, <1>2

(* ... and its end gives the last object of each number and the catalog.   *)
LEMMA ScanEndsRight ==
    ASSUME LoadInv, ScanRight, ScanEnds
    PROVE  /\ \A n \in ObjNums : \A p \in LastOf(n) :
                ~Archived(n) => /\ n \in DOMAIN table'
                                /\ table'[n].type = "normal"
                                /\ table'[n].pos = p
           /\ \A r \in ObjNums, p \in DOMAIN file :
                NamesRoot(p, r) => trailer'.root = r
<1> USE DEF LoadInv
<1>0. /\ FileOK /\ IsTable(table) /\ IsTable(scan.table) /\ scan.pos \in Nat
      /\ scan.trailer \in Trailer /\ trailer \in Trailer
  BY DEF Typed, IsScan
<1>1. /\ table' = UpdateInfo(table, scan.table)
      /\ trailer' = UpdateTrailer(trailer, scan.trailer)
      /\ scan.pos > Len(file)
  BY DEF ScanEnds
<1>2. ASSUME NEW n \in ObjNums, NEW p \in LastOf(n), ~Archived(n)
      PROVE  n \in DOMAIN table' /\ table'[n].type = "normal" /\ table'[n].pos = p
  <2>1. /\ p \in Objects(n)
        /\ \A q \in Objects(n) : \/ At(q).gen < At(p).gen
                                 \/ q <= p /\ At(q).gen = At(p).gen
    BY DEF LastOf
  <2>2. \A q \in Objects(n) : q \in Nat /\ q < scan.pos /\ At(q).gen \in Nat
    BY <1>0, <1>1, ObjectsFacts
  <2>3. Newest(scan.table, n, scan.pos)
    BY <1>2 DEF ScanRight
  <2>a. ~(\A q \in Objects(n) : q >= scan.pos)
    <3>1. p \in Nat /\ p < scan.pos
      BY <2>1, <2>2
    <3>2. ~(p >= scan.pos)
      BY ONLY <3>1, <1>0
    <3> QED BY <3>2, <2>1
  <2>b. \A q \in Objects(n) : q < scan.pos
    BY <2>2
  <2>4. PICK q \in Objects(n) :
          /\ \A o \in Objects(n) :
               o < scan.pos => \/ At(o).gen < At(q).gen
                               \/ o <= q /\ At(o).gen = At(q).gen
          /\ n \in DOMAIN scan.table
          /\ InfoOf(scan.table, n).type = "normal"
          /\ InfoOf(scan.table, n).pos = q
    BY ONLY <2>a, <2>3, Zenon DEF Newest
  <2>5. p = q
    BY <2>1, <2>2, <2>4
  <2>6. /\ n \in DOMAIN scan.table /\ scan.table[n].type = "normal"
        /\ scan.table[n].pos = p
    BY <2>4, <2>5 DEF InfoOf
  <2>7. ASSUME NEW cur, NEW new, IsTable(cur), IsTable(new), n \in DOMAIN new
        PROVE  /\ n \in DOMAIN UpdateInfo(cur, new)
               /\ UpdateInfo(cur, new)[n].type = new[n].type
               /\ UpdateInfo(cur, new)[n].pos = new[n].pos
    <3>1. /\ DOMAIN UpdateInfo(cur, new) = DOMAIN cur \cup DOMAIN new
          /\ \A m \in DOMAIN new : /\ UpdateInfo(cur, new)[m].type = new[m].type
                                   /\ UpdateInfo(cur, new)[m].gen = new[m].gen
                                   /\ UpdateInfo(cur, new)[m].pos = new[m].pos
      BY <2>7, SMTT(30) DEF UpdateInfo, IsTable
    <3> QED BY ONLY <2>7, <3>1
  <2>8. IsTable(table) /\ IsTable(scan.table) /\ n \in DOMAIN scan.table
    BY <1>0, <2>6
  <2>9. /\ n \in DOMAIN UpdateInfo(table, scan.table)
        /\ UpdateInfo(table, scan.table)[n].type = scan.table[n].type
        /\ UpdateInfo(table, scan.table)[n].pos = scan.table[n].pos
    BY ONLY <2>7, <2>8, Zenon
  <2> QED BY ONLY <2>6, <2>9, <1>1
<1>3. ASSUME NEW r \in ObjNums, NEW p \in DOMAIN file, NamesRoot(p, r)
      PROVE  trailer'.root = r
  <2>1. p < scan.pos
    BY <1>0, <1>1, <1>3, TrailersFacts DEF NamesRoot
  <2>2. NamesRootBefore(p, r, scan.pos)
    BY <1>3, <2>1 DEF NamesRoot, NamesRootBefore
  <2>3. scan.trailer.root = r /\ r > 0
    BY <2>2, LoadAssumption DEF ScanRight
  <2> QED BY <2>3, <1>0, <1>1, UpdateTrailerFacts
<1> QED BY <1>2, <1>3

-----------------------------------------------------------------------------
(* Objects that are read from a file are in it.                            *)
OnlyCatalogs(r) ==
    ~Archived(r) /\ \A c \in Objects(r) : Is(c, "obj") => IsCatalog(At(c).val)

LEMMA ParsedCatalog ==
    ASSUME FileOK, StreamsTyped, NEW r, OnlyCatalogs(r), Parse(r) # Null
    PROVE  IsCatalog(Parse(r))
<1>1. \A p : MemberOf(ObjectStreamPos(p), r) = Null
  <2> SUFFICES ASSUME NEW p, ObjectStreamPos(p) # 0,
                      r \in DOMAIN At(ObjectStreamPos(p)).members
               PROVE  FALSE
    BY DEF MemberOf
  <2>1. Is(ObjectStreamPos(p), "objstm")
    BY ObjectStreamPosFacts
  <2>2. ObjectStreamPos(p) \in DOMAIN file
    BY <2>1, ItemFacts DEF Is
  <2> QED BY <2>1, <2>2 DEF OnlyCatalogs, Archived
<1>2. PICK p : Parse(r) = ObjectAt(p, r)
  BY <1>1 DEF Parse
<1>3. Is(p, "obj") /\ At(p).num = r /\ Parse(r) = Decrypted(At(p), At(p).val)
  BY <1>2 DEF ObjectAt
<1>4. p \in Objects(r)
  BY <1>3, ItemFacts DEF Objects, Is, Numbered
<1>5. IsCatalog(At(p).val)
  BY <1>3, <1>4 DEF OnlyCatalogs
<1> QED BY <1>3, <1>5, CatalogAssumption DEF Decrypted, IsCatalog

LEMMA CatalogsHeld ==
    ASSUME LoadInv, CatalogsRead, UNCHANGED file,
           UNCHANGED mem \/ \E ns : Hold(ns)
    PROVE  CatalogsRead'
<1> USE DEF LoadInv
<1>1. \A r : OnlyCatalogs(r)' = OnlyCatalogs(r)
  BY FileFixed DEF OnlyCatalogs, IsCatalog
<1>2. \A r \in DOMAIN mem : OnlyCatalogs(r) => IsCatalog(mem[r])
  BY DEF CatalogsRead, OnlyCatalogs
<1>3. ASSUME NEW r \in DOMAIN mem', OnlyCatalogs(r)
      PROVE  IsCatalog(mem'[r])
  <2>1. CASE UNCHANGED mem
    BY <1>2, <1>3, <2>1
  <2>2. CASE \E ns : Hold(ns)
    <3>1. PICK ns : Hold(ns)
      BY <2>2
    <3>2. mem'[r] = Got(r) /\ (r \in DOMAIN mem \/ Got(r) # Null)
      BY <3>1 DEF Hold, Holding
    <3>3. CASE r \in DOMAIN mem
      BY <1>2, <1>3, <3>2, <3>3 DEF Got
    <3>4. CASE r \notin DOMAIN mem
      <4>1. Got(r) = Parse(r) /\ Parse(r) # Null
        BY <3>2, <3>4 DEF Got
      <4> QED BY <1>3, <3>2, <4>1, ParsedCatalog DEF Typed
    <3> QED BY <3>3, <3>4
  <2> QED BY <2>1, <2>2
<1>4. \A r \in DOMAIN mem' : OnlyCatalogs(r)' => IsCatalog(mem'[r])
  BY <1>1, <1>3
<1> QED BY <1>4 DEF CatalogsRead, OnlyCatalogs, IsCatalog

(* What a rebuilt table leads to is the last object of a number.           *)
LEMMA LastParsed ==
    ASSUME Rebuilt, RebuildFindsLast, NEW n \in ObjNums
    PROVE  LastValue(n, Parse(n))
<1> SUFFICES ASSUME NEW p \in LastOf(n), ~Archived(n), Is(p, "obj"),
                    At(p).val \notin Data \ Paged
             PROVE  Parse(n) = At(p).val
  BY DEF LastValue
<1>1. n \in DOMAIN table /\ table[n].type = "normal" /\ table[n].pos = p
  BY DEF RebuildFindsLast
<1>2. At(p).num = n
  BY DEF LastOf, Objects
<1>3. Parse(n) = Decrypted(At(p), At(p).val)
  BY <1>1, <1>2 DEF Parse, InfoOf, ObjectAt
<1> QED BY <1>3 DEF Decrypted

LEMMA LastHeld ==
    ASSUME LoadInv, Rebuilt, RebuildFindsLast, UNCHANGED file, NEW ns, Hold(ns),
           \A n \in DOMAIN mem : LastValue(n, mem[n])
    PROVE  (\A n \in DOMAIN mem : LastValue(n, mem[n]))'
<1>1. ASSUME NEW n \in DOMAIN mem'
      PROVE  LastValue(n, mem'[n])
  <2>1. mem'[n] = Got(n) /\ (n \in DOMAIN mem \/ Got(n) # Null)
    BY DEF Hold, Holding
  <2>2. CASE n \in DOMAIN mem
    BY <2>1, <2>2 DEF Got
  <2>3. CASE n \notin DOMAIN mem
    <3>1. n \in ObjNums
      BY <2>1, <2>3 DEF Got
    <3>2. Got(n) = Parse(n)
      BY <2>3, <3>1 DEF Got
    <3> QED BY <2>1, <3>1, <3>2, LastParsed
  <2> QED BY <2>2, <2>3
<1>2. /\ \A p : At(p)' = At(p)
      /\ \A p, kind : Is(p, kind)' = Is(p, kind)
      /\ \A n : LastOf(n)' = LastOf(n) /\ Archived(n)' = Archived(n)
  BY FileFixed
<1>3. \A n : LastValue(n, mem[n])' = LastValue(n, mem'[n])
  BY <1>2 DEF LastValue
<1> QED BY <1>1, <1>3

(* With what a scan found, a catalog and pages that can be found are.      *)
LEMMA RecoverableRoot ==
    ASSUME LoadInv, RebuildInv, Rebuilt, pc = "root", Recoverable
    PROVE  TryInit \/ (retried /\ IsCatalog(Root))
<1> USE DEF LoadInv
<1>1. PICK r \in ObjNums :
        /\ \E p \in DOMAIN file : NamesRoot(p, r)
        /\ ~Archived(r)
        /\ \A c \in Objects(r) : Is(c, "obj") => IsCatalog(At(c).val)
        /\ \E c \in LastOf(r) : Is(c, "obj") /\ PagesWhole(At(c).val.pages)
  BY DEF Recoverable
<1>2. PICK c \in LastOf(r) : Is(c, "obj") /\ PagesWhole(At(c).val.pages)
  BY <1>1
<1>3. trailer.root = r
  BY <1>1 DEF FindsRoot, RebuildInv
<1>4. IsCatalog(At(c).val) /\ At(c).val \notin Data \ Paged
  <2>1. c \in Objects(r)
    BY DEF LastOf
  <2> QED BY <1>1, <1>2, <2>1, CatalogAssumption DEF IsCatalog
<1>5. CASE retried
  <2>1. CASE r \in DOMAIN mem
    BY <1>1, <1>3, <1>5, <2>1 DEF RebuildInv, CatalogsRead, Root, Got
  <2>2. CASE r \notin DOMAIN mem
    <3>1. Root = Parse(r)
      BY <1>3, <2>2 DEF Root, Got
    <3>2. Parse(r) = At(c).val
      BY <1>1, <1>2, <1>4, LastParsed DEF LastValue, RebuildInv
    <3> QED BY <1>4, <1>5, <3>1, <3>2
  <2> QED BY <2>1, <2>2
<1>6. CASE ~retried
  <2>1. rebuilt
    BY <1>6 DEF Rebuilt
  <2>2. ASSUME NEW n \in ObjNums
        PROVE  LastValue(n, Got(n))
    <3>1. CASE n \in DOMAIN mem
      BY <2>1, <3>1 DEF RebuildInv, LastKept, Got
    <3>2. CASE n \notin DOMAIN mem
      <4>1. Got(n) = Parse(n)
        BY <3>2 DEF Got
      <4> QED BY <4>1, LastParsed DEF RebuildInv
    <3> QED BY <3>1, <3>2
  <2>3. Root = At(c).val
    BY <1>1, <1>2, <1>3, <1>4, <2>2 DEF LastValue, Root
  <2> DEFINE n == At(c).val.pages
  <2>4. n \in ObjNums /\ ~Archived(n)
    BY <1>2 DEF PagesWhole
  <2>5. PICK p \in LastOf(n) : Is(p, "obj") /\ HasPages(At(p).val)
    BY <1>2 DEF PagesWhole
  <2>6. At(p).val \notin Data \ Paged
    BY <2>5, CatalogAssumption, LoadAssumption DEF HasPages
  <2>7. PagesRoot = n
    BY <1>4, <2>3 DEF PagesRoot
  <2>8. LastValue(n, Got(n))
    BY <2>2, <2>4
  <2> HIDE DEF n
  <2>9. Got(n) = At(p).val
    BY <2>4, <2>5, <2>6, <2>8 DEF LastValue
  <2> QED BY <1>4, <2>3, <2>5, <2>7, <2>9 DEF TryInit
<1> QED BY <1>5, <1>6

-----------------------------------------------------------------------------
LEMMA InitRebuild == FreshParser => RebuildInv
BY DEF FreshParser, RebuildInv, RebuildFindsLast, Rebuilt, CatalogsRead, LastKept,
       IntactOpens

(* Nothing that a scan is the start of is concerned.                       *)
LEMMA RebuildNotYet ==
    ASSUME LoadInv, RebuildInv, UNCHANGED <<file, mem, rebuilt, retried>>,
           pc \notin {"scan", "encrypt", "root", "open", "failed"},
           pc' \notin {"scan", "open", "failed"}
    PROVE  RebuildInv'
<1>1. ~rebuilt /\ ~retried
  BY DEF RebuildInv
<1>2. CatalogsRead'
  BY CatalogsHeld DEF RebuildInv
<1>3. LastKept'
  BY <1>1 DEF RebuildInv, LastKept
<1> QED BY <1>1, <1>2, <1>3 DEF RebuildInv, RebuildFindsLast, Rebuilt, IntactOpens

LEMMA RebuildStarts ==
    ASSUME LoadInv, RebuildInv, UNCHANGED <<file, mem, rebuilt, retried>>,
           pc \notin {"scan", "encrypt", "root", "open", "failed"}, StartRebuild
    PROVE  RebuildInv'
<1>1. ScanRight'
  BY ScanStarts DEF LoadInv, Typed
<1>2. CatalogsRead' /\ pc' = "scan"
  BY CatalogsHeld DEF RebuildInv, StartRebuild
<1>3. LastKept' /\ ~rebuilt
  BY <1>2 DEF RebuildInv, LastKept
<1> QED BY <1>1, <1>2, <1>3 DEF RebuildInv, RebuildFindsLast, Rebuilt, IntactOpens

LEMMA StepRebuild ==
    ASSUME LoadInv, RebuildInv, LoadStep
    PROVE  RebuildInv'
<1>0. UNCHANGED file
  BY StepKeepsFile
<1>1. CASE \/ StartParse \/ MainTable \/ MainStream \/ MainFails
           \/ FindTable \/ FindStream \/ FindFails \/ FindEnds
           \/ ReadEntry \/ EntriesRead \/ LoadFront \/ VerifyCrossRefTable
           \/ SecondStream \/ SecondTable \/ AllLoaded
  <2>1. /\ pc \notin {"scan", "encrypt", "root", "open", "failed"}
        /\ UNCHANGED <<mem, rebuilt, retried>>
    BY <1>1 DEF StartParse, MainTable, MainStream, MainFails, FindTable,
           FindStream, FindFails, FindEnds, ReadEntry, EntriesRead, LoadFront,
           VerifyCrossRefTable, SecondStream, SecondTable, AllLoaded, resultVars
  <2>2. StartRebuild \/ pc' \notin {"scan", "open", "failed"}
    <3>1. CASE EntriesRead
      BY <3>1 DEF EntriesRead, LoadInv, IInv, Progress
    <3>2. CASE ~EntriesRead
      BY <1>1, <3>2 DEF StartParse, MainTable, MainStream, MainFails, FindTable,
           FindStream, FindFails, FindEnds, ReadEntry, LoadFront, StartEntries,
           VerifyCrossRefTable, SecondStream, SecondTable, AllLoaded
    <3> QED BY <3>1, <3>2
  <2>3. CASE StartRebuild
    BY <2>1, <2>3, <1>0, RebuildStarts
  <2>4. CASE pc' \notin {"scan", "open", "failed"}
    BY <2>1, <2>4, <1>0, RebuildNotYet
  <2> QED BY <2>2, <2>3, <2>4
<1>2. CASE ScanObject \/ ScanMember \/ ScanStream \/ ScanOther
  <2>1. pc = "scan" /\ pc' = "scan" /\ UNCHANGED <<mem, rebuilt, retried>>
    BY <1>2 DEF ScanObject, ScanMember, ScanStream, ScanOther, Scanning, resultVars
  <2>2. ScanRight'
    BY <1>0, <1>2, <2>1, ScanGoesOn DEF RebuildInv
  <2>3. CatalogsRead'
    BY <1>0, <2>1, CatalogsHeld DEF RebuildInv
  <2>4. LastKept'
    BY <2>1 DEF RebuildInv, LastKept
  <2> QED BY <2>1, <2>2, <2>3, <2>4 DEF RebuildInv, RebuildFindsLast, Rebuilt,
                                       IntactOpens
<1>3. CASE ScanEnds
  <2>1. /\ pc = "scan" /\ UNCHANGED <<mem, retried>> /\ rebuilt' = (rebuilt \/ ~retried)
        /\ pc' = IF trailer' = NoTrailer \/ DOMAIN table' = {} THEN "failed"
                 ELSE "encrypt"
    BY <1>3 DEF ScanEnds, Scanning
  <2>2. /\ \A n \in ObjNums : \A p \in LastOf(n) :
             ~Archived(n) => /\ n \in DOMAIN table'
                             /\ table'[n].type = "normal"
                             /\ table'[n].pos = p
        /\ \A r \in ObjNums, p \in DOMAIN file :
             NamesRoot(p, r) => trailer'.root = r
    BY <1>3, <2>1, ScanEndsRight DEF RebuildInv
  <2>3. RebuildFindsLast' /\ FindsRoot'
    BY <2>2, <1>0, FileFixed DEF RebuildFindsLast, FindsRoot
  <2>4. CatalogsRead'
    BY <1>0, <2>1, CatalogsHeld DEF RebuildInv
  <2>a. ~rebuilt
    BY <2>1 DEF RebuildInv
  <2>b. LastKept'
    <3>1. CASE retried
      BY <2>1, <2>a, <3>1 DEF LastKept
    <3>2. CASE ~retried
      BY <2>1, <2>a, <3>2 DEF RebuildInv, LastKept
    <3> QED BY <3>1, <3>2
  <2>5. Recoverable => pc' # "failed"
    <3> SUFFICES ASSUME Recoverable
                 PROVE  trailer' # NoTrailer /\ DOMAIN table' # {}
      BY <2>1
    <3>1. PICK r \in ObjNums : /\ \E p \in DOMAIN file : NamesRoot(p, r)
                               /\ ~Archived(r)
                               /\ \E c \in LastOf(r) : Is(c, "obj")
      BY DEF Recoverable
    <3>2. trailer'.root = r /\ r \in DOMAIN table'
      BY <2>2, <3>1
    <3>3. r # -1
      BY LoadAssumption
    <3> QED BY <3>2, <3>3 DEF NoTrailer
  <2>6. IntactOpens'
    BY <2>5, <1>0, RecoverableFixed DEF IntactOpens
  <2> QED BY <2>1, <2>3, <2>4, <2>6, <2>a, <2>b DEF RebuildInv
<1>4. CASE SetEncryptHandler
  <2>1. /\ pc = "encrypt" /\ pc' = "root" /\ Hold({trailer.enc})
        /\ UNCHANGED <<table, trailer, rebuilt, retried>>
    BY <1>4 DEF SetEncryptHandler, resultVars
  <2>2. CatalogsRead'
    BY <1>0, <2>1, CatalogsHeld DEF RebuildInv
  <2>3. RebuildFindsLast'
    BY <2>1, <1>0, FileFixed DEF RebuildInv, RebuildFindsLast, Rebuilt
  <2>4. (Rebuilt => FindsRoot)'
    BY <2>1, <1>0, FileFixed DEF RebuildInv, FindsRoot, Rebuilt
  <2>5. LastKept'
    <3> SUFFICES ASSUME rebuilt
                 PROVE  (\A n \in DOMAIN mem : LastValue(n, mem[n]))'
      BY <2>1 DEF LastKept
    <3>1. Rebuilt /\ RebuildFindsLast
      BY <2>1 DEF Rebuilt, RebuildInv
    <3>2. \A n \in DOMAIN mem : LastValue(n, mem[n])
      BY <2>1 DEF RebuildInv, LastKept
    <3> QED BY <2>1, <3>1, <3>2, <1>0, LastHeld
  <2> QED BY <2>1, <2>2, <2>3, <2>4, <2>5 DEF RebuildInv, IntactOpens
<1>5. CASE FindRoot
  <2>1. /\ pc = "root" /\ Hold({trailer.root, PagesRoot})
        /\ UNCHANGED <<table, trailer, rebuilt>>
    BY <1>5 DEF FindRoot, resultVars
  <2>2. CatalogsRead'
    BY <1>0, <2>1, CatalogsHeld DEF RebuildInv
  <2> DEFINE Found == TryInit \/ (retried /\ IsCatalog(Root))
  <2>3. CASE Found
    <3>1. pc' = "open" /\ UNCHANGED retried
      BY <1>5, <2>3 DEF FindRoot
    <3>2. RebuildFindsLast'
      BY <2>1, <3>1, <1>0, FileFixed DEF RebuildInv, RebuildFindsLast, Rebuilt
    <3>3. (Rebuilt => FindsRoot)'
      BY <2>1, <3>1, <1>0, FileFixed DEF RebuildInv, FindsRoot, Rebuilt
    <3> QED BY <2>1, <2>2, <3>1, <3>2, <3>3 DEF RebuildInv, LastKept, IntactOpens
  <2>4. CASE ~Found /\ (rebuilt \/ retried)
    <3>1. pc' = "failed" /\ Rebuilt /\ UNCHANGED retried
      BY <1>5, <2>1, <2>4 DEF FindRoot, Rebuilt
    <3>2. ~Recoverable
      BY <2>1, <2>4, <3>1, RecoverableRoot
    <3>3. ~Recoverable'
      BY <3>2, <1>0, RecoverableFixed
    <3> QED BY <2>1, <2>2, <3>1, <3>3 DEF RebuildInv, RebuildFindsLast, Rebuilt,
                                         LastKept, IntactOpens
  <2>5. CASE ~Found /\ ~(rebuilt \/ retried)
    <3>1. StartRebuild /\ retried'
      BY <1>5, <2>5 DEF FindRoot
    <3>2. ScanRight' /\ pc' = "scan"
      BY <3>1, <1>0, ScanStarts DEF LoadInv, Typed, StartRebuild
    <3> QED BY <2>1, <2>2, <2>5, <3>1, <3>2 DEF RebuildInv, RebuildFindsLast,
                                               Rebuilt, LastKept, IntactOpens
  <2> QED BY <2>3, <2>4, <2>5
<1> QED BY <1>1, <1>2, <1>3, <1>4, <1>5 DEF LoadStep

LEMMA InitLoad == FileOK /\ FreshParser => LoadInv /\ RebuildInv
<1> SUFFICES ASSUME FileOK, FreshParser
             PROVE  LoadInv /\ RebuildInv
  OBVIOUS
<1>1. Typed
  <2>1. IsTable(table) /\ trailer \in Trailer /\ IsScan(scan)
    BY EmptyTable, NoScanTyped DEF FreshParser
  <2>2. StreamsTyped /\ MemTyped
    BY DEF FreshParser, StreamsTyped, MemTyped
  <2> QED BY <2>1, <2>2 DEF Typed, FreshParser, Steps
<1>2. Place
  BY DEF FreshParser, Place
<1> QED BY <1>1, <1>2, InitIInv, InitRebuild DEF LoadInv

LEMMA StutterLoad ==
    ASSUME LoadInv, RebuildInv, UNCHANGED <<file, loadVars, mem>>
    PROVE  Typed' /\ Place' /\ RebuildInv'
<1> USE DEF LoadInv
<1>1. UNCHANGED <<file, pc, table, trailer, lastXRef, xrefStream, rebuilt, handler,
                  streamMap, mem, xrefList, streamList, prev, seen, sec, todo, next,
                  idx, scan, retried>>
  BY DEF loadVars, resultVars, chainVars, jobVars
<1>2. Typed'
  BY <1>1 DEF Typed, FileOK, IsFile, IsItem, IsTable, IsScan, StreamsTyped, MemTyped, Is, At
<1>3. Place'
  BY <1>1 DEF Place, Is, At
<1>4. ScanRight' = ScanRight
  BY <1>1 DEF ScanRight, Newest, NamesRootBefore, InfoOf, Objects, Archived, Trailers, Is, At
<1>5. /\ RebuildFindsLast' = RebuildFindsLast /\ FindsRoot' = FindsRoot
      /\ CatalogsRead' = CatalogsRead /\ IntactOpens' = IntactOpens /\ Rebuilt' = Rebuilt
      /\ LastKept' = LastKept
  BY <1>1, FileFixed, RecoverableFixed
     DEF RebuildFindsLast, FindsRoot, CatalogsRead, IntactOpens, Rebuilt, IsCatalog,
         LastKept, LastValue
<1> QED BY <1>1, <1>2, <1>3, <1>4, <1>5 DEF RebuildInv

LEMMA StepLoad ==
    LoadInv /\ RebuildInv /\ [LoadStep]_<<file, loadVars, mem>>
      => LoadInv' /\ RebuildInv'
<1> SUFFICES ASSUME LoadInv, RebuildInv, [LoadStep]_<<file, loadVars, mem>>
             PROVE  LoadInv' /\ RebuildInv'
  OBVIOUS
<1>1. IInv'
  BY StepIInv DEF LoadInv
<1>2. CASE LoadStep
  BY <1>1, <1>2, StepTyped, StepPlace, StepRebuild DEF LoadInv
<1>3. CASE UNCHANGED <<file, loadVars, mem>>
  BY <1>1, <1>3, StutterLoad DEF LoadInv
<1> QED BY <1>2, <1>3

-----------------------------------------------------------------------------
(* What reading an entry does to a table.                                  *)
Shows(t, n, e) ==
    /\ n \in DOMAIN t /\ InfoOf(t, n).type = e.type
    /\ InfoOf(t, n).pos = e.pos /\ InfoOf(t, n).archive = e.archive

(* A generation comes from the entry, or from before it, or is gone; an    *)
(* object is known as a stream of objects when the entry names it.         *)
Entered(t, u, n, e) ==
    /\ \A m : InfoOf(u, m).gen \in {InfoOf(t, m).gen, 0}
              \/ (m = n /\ InfoOf(u, m).gen = e.gen)
    /\ \A m : InfoOf(u, m).stm => InfoOf(t, m).stm \/ m = e.archive

LEMMA EntryFacts ==
    ASSUME NEW e \in Entry
    PROVE  /\ e.type \in ObjectType /\ e.gen \in Nat /\ e.pos \in Nat
           /\ e.archive \in Nat
           /\ e.type = "free" => e.pos = 0 /\ e.archive = 0
           /\ e.type = "normal" => e.archive = 0
           /\ e.type = "compressed" => e.gen = 0 /\ e.pos = 0
BY DEF Entry, ObjectType

LEMMA NormalEntered ==
    ASSUME NEW t, IsTable(t), NEW n \in Nat, NEW e \in Entry, e.type = "normal"
    PROVE  LET u == AddNormal(t, n, e.gen, e.pos)
           IN  /\ Entered(t, u, n, e)
               /\ InfoOf(t, n).gen <= e.gen => Shows(u, n, e)
<1> DEFINE u == AddNormal(t, n, e.gen, e.pos)
<1>1. e.gen \in Nat /\ e.pos \in Nat /\ e.archive = 0
  BY EntryFacts
<1>2. InfoOf(t, n).gen \in Nat
  BY InfoOfTyped DEF ObjectInfo
<1>3. /\ \A m : m # n => InfoOf(u, m) = InfoOf(t, m)
      /\ InfoOf(u, n).stm = InfoOf(t, n).stm
      /\ InfoOf(t, n).gen > e.gen => u = t
      /\ ~(InfoOf(t, n).gen > e.gen) =>
           /\ n \in DOMAIN u /\ InfoOf(u, n).type = "normal"
           /\ InfoOf(u, n).gen = e.gen /\ InfoOf(u, n).pos = e.pos
           /\ InfoOf(u, n).archive = 0
  <2>1. \A gen, pos \in Nat :
          LET v == AddNormal(t, n, gen, pos)
          IN  /\ \A m : m # n => InfoOf(v, m) = InfoOf(t, m)
              /\ InfoOf(v, n).stm = InfoOf(t, n).stm
              /\ InfoOf(t, n).gen > gen => v = t
              /\ ~(InfoOf(t, n).gen > gen) =>
                   /\ n \in DOMAIN v /\ InfoOf(v, n).type = "normal"
                   /\ InfoOf(v, n).gen = gen /\ InfoOf(v, n).pos = pos
                   /\ InfoOf(v, n).archive = 0
    BY AddNormalFacts
  <2> QED BY <1>1, <2>1
<1> HIDE DEF u
<1>4. Entered(t, u, n, e)
  BY <1>1, <1>2, <1>3 DEF Entered
<1>5. InfoOf(t, n).gen <= e.gen => Shows(u, n, e)
  BY <1>1, <1>2, <1>3 DEF Shows
<1> QED BY <1>4, <1>5 DEF u

LEMMA FreeEntered ==
    ASSUME NEW t, IsTable(t), NEW n \in Nat, NEW e \in Entry, e.type = "free"
    PROVE  LET u == SetFree(t, n, e.gen)
           IN  Entered(t, u, n, e) /\ Shows(u, n, e)
<1> DEFINE u == SetFree(t, n, e.gen)
<1>1. e.gen \in Nat /\ e.pos = 0 /\ e.archive = 0
  BY EntryFacts
<1>3. /\ \A m : m # n => InfoOf(u, m) = InfoOf(t, m)
      /\ n \in DOMAIN u
      /\ InfoOf(u, n) = [type |-> "free", stm |-> InfoOf(t, n).stm, gen |-> e.gen,
                         pos |-> 0, archive |-> 0]
  <2>1. \A gen \in Nat :
          LET v == SetFree(t, n, gen)
          IN  /\ \A m : m # n => InfoOf(v, m) = InfoOf(t, m)
              /\ n \in DOMAIN v
              /\ InfoOf(v, n) = [type |-> "free", stm |-> InfoOf(t, n).stm,
                                 gen |-> gen, pos |-> 0, archive |-> 0]
    BY SetFreeFacts
  <2> QED BY <1>1, <2>1
<1> HIDE DEF u
<1>4. Entered(t, u, n, e)
  BY <1>1, <1>3 DEF Entered
<1>5. Shows(u, n, e)
  BY <1>1, <1>3 DEF Shows
<1> QED BY <1>4, <1>5 DEF u

LEMMA CompressedEntered ==
    ASSUME NEW t, IsTable(t), NEW n \in Nat, NEW e \in Entry, e.type = "compressed"
    PROVE  LET u == AddCompressed(t, n, e.archive)
           IN  /\ Entered(t, u, n, e)
               /\ InfoOf(t, n).gen = 0 /\ ~InfoOf(t, n).stm => Shows(u, n, e)
<1> DEFINE u == AddCompressed(t, n, e.archive)
<1>1. e.gen = 0 /\ e.pos = 0 /\ e.archive \in Nat
  BY EntryFacts
<1>2. \A m : InfoOf(t, m) \in ObjectInfo
  BY InfoOfTyped
<1>3. /\ \A m : m # n => SameEntry(t, u, m)
      /\ \A m : m \notin {n, e.archive} => InfoOf(u, m) = InfoOf(t, m)
      /\ \/ u = t /\ (InfoOf(t, n).gen > 0 \/ InfoOf(t, n).stm)
         \/ /\ ~(InfoOf(t, n).gen > 0 \/ InfoOf(t, n).stm)
            /\ n \in DOMAIN u /\ InfoOf(u, n).type = "compressed"
            /\ InfoOf(u, n).gen = 0 /\ InfoOf(u, n).pos = 0
            /\ InfoOf(u, n).archive = e.archive
            /\ n # e.archive => InfoOf(u, n).stm = FALSE
  BY <1>1, AddCompressedFacts
<1> HIDE DEF u
<1>4. \A m : InfoOf(u, m).gen \in {InfoOf(t, m).gen, 0}
  BY <1>3 DEF SameEntry
<1>5. \A m : InfoOf(u, m).stm => InfoOf(t, m).stm \/ m = e.archive
  BY <1>3
<1>6. InfoOf(t, n).gen = 0 /\ ~InfoOf(t, n).stm => Shows(u, n, e)
  BY <1>1, <1>2, <1>3 DEF Shows, ObjectInfo
<1> QED BY <1>4, <1>5, <1>6 DEF u, Entered

(* The entry n of the section at p, read into the table t.                 *)
Layered(p, n) == Is(p, "stream") \/ At(p).entries[n].type # "free"

LEMMA MergedEntered ==
    ASSUME FileOK, NEW p, At(p).kind \in {"table", "stream"},
           NEW n \in DOMAIN At(p).entries, NEW t, IsTable(t)
    PROVE  LET u == Merged(t, n, p)
               e == At(p).entries[n]
           IN  /\ u = t \/ (Layered(p, n) /\ Entered(t, u, n, e))
               /\ (/\ Layered(p, n) /\ InfoOf(t, n).gen <= e.gen
                   /\ e.type = "compressed" => /\ IsValidObjectNumber(t, e.archive)
                                               /\ ~InfoOf(t, n).stm)
                    => Shows(u, n, e)
<1> DEFINE u == Merged(t, n, p)
           e == At(p).entries[n]
<1>1. /\ n \in Nat /\ e \in Entry
      /\ At(p).kind = "table" => e.type # "compressed"
  BY SectionItem
<1>2. e.type \in ObjectType /\ (e.type = "compressed" => e.gen = 0)
  BY <1>1, EntryFacts
<1>3. InfoOf(t, n).gen \in Nat
  BY InfoOfTyped DEF ObjectInfo
<1>4. /\ e.type = "normal" => u = AddNormal(t, n, e.gen, e.pos)
      /\ e.type = "free" => u = IF At(p).kind = "table" THEN t
                                ELSE SetFree(t, n, e.gen)
      /\ e.type = "compressed" => u = IF IsValidObjectNumber(t, e.archive)
                                      THEN AddCompressed(t, n, e.archive) ELSE t
  BY <1>1, <1>2 DEF Merged, MergeTableEntry, ProcessCrossRefStreamEntry, Is
<1>5. Layered(p, n) <=> ~(At(p).kind = "table" /\ e.type = "free")
  BY DEF Layered, Is
<1> HIDE DEF u, e
<1>6. CASE e.type = "normal"
  BY <1>1, <1>4, <1>5, <1>6, NormalEntered DEF e, u
<1>7. CASE e.type = "free"
  BY <1>1, <1>4, <1>5, <1>7, FreeEntered DEF e, u
<1>8. CASE e.type = "compressed"
  BY <1>1, <1>2, <1>3, <1>4, <1>5, <1>8, CompressedEntered DEF e, u
<1> QED BY <1>2, <1>6, <1>7, <1>8 DEF ObjectType

-----------------------------------------------------------------------------
(* Loading.  What is known of the table while the sections are loaded: a   *)
(* generation and an object stream are those of an entry of a layer, and   *)
(* the layers up to Level are in it, but for what is left of the section   *)
(* being read.                                                             *)
Loading == {"find", "entries", "front", "verify", "second", "table"}
Loaded == pc \in {"encrypt", "root", "open"} /\ ~rebuilt /\ ~retried

Level ==
    LET at == IF pc = "entries" THEN next ELSE pc
    IN  IF at \in {"find", "front"} THEN 2
        ELSE IF at = "table" THEN 2 * idx
        ELSE IF at \in {"verify", "second"} THEN 2 * idx + 1
        ELSE 2 * Len(xrefList) + 1

LevelOf(n) == IF n \in todo THEN Level - 1 ELSE Level

Settled(t, n, r) ==
    \A l \in LayersOf(n) :
      (/\ l[1] <= r /\ Regular(n, l)
       /\ \A o \in LayersOf(n) : o[1] <= r => o[1] <= l[1])
        => Shows(t, n, At(l[2]).entries[n])

GensKnown(t) ==
    \A n : InfoOf(t, n).gen = 0
           \/ \E o \in LayersOf(n) : At(o[2]).entries[n].gen = InfoOf(t, n).gen
ArchivesKnown(t) ==
    \A n : InfoOf(t, n).stm =>
             \E o \in Layers : \E m \in DOMAIN At(o[2]).entries :
               At(o[2]).entries[m].archive = n

WinsInv ==
    /\ pc \in {"start", "main"} => table = EmptyInfo
    /\ pc \in Loading \/ Loaded =>
         /\ GensKnown(table) /\ ArchivesKnown(table)
         /\ \A n \in ObjNums : Settled(table, n, LevelOf(n))

(* The ranks of the layers, and what is at each of them.                   *)
LEMMA LayerFacts ==
    ASSUME IInv, NEW l \in Layers
    PROVE  /\ l[1] \in Nat /\ l[1] >= 2 /\ l[1] <= 2 * Len(xrefList) + 1
           /\ At(l[2]).kind \in {"table", "stream"}
           /\ \A i \in Nat : l[1] = 2 * i + 1 =>
                i \in DOMAIN xrefList /\ l[2] = xrefList[i] /\ xrefList[i] > 0
           /\ \A i \in Nat : l[1] = 2 * i =>
                /\ i \in DOMAIN xrefList /\ l[2] = streamList[i]
                /\ Is(l[2], "stream") /\ (i > 1 \/ xrefList[i] = 0)
<1>0. DOMAIN xrefList = 1 .. Len(xrefList) /\ Len(xrefList) \in Nat
  BY DEF IInv, ChainType
<1>1. CASE l \in LayerTables
  <2>1. PICK j \in DOMAIN xrefList : xrefList[j] > 0 /\ l = <<2 * j + 1, xrefList[j]>>
    BY <1>1 DEF LayerTables
  <2>2. j \in Nat /\ j >= 1 /\ j <= Len(xrefList)
    BY <1>0, <2>1
  <2>3. Is(l[2], "table")
    BY <2>1, ChainSections
  <2> QED BY <1>0, <2>1, <2>2, <2>3 DEF Is
<1>2. CASE l \in LayerStreams
  <2>1. PICK j \in DOMAIN xrefList : /\ Is(streamList[j], "stream")
                                     /\ j > 1 \/ xrefList[j] = 0
                                     /\ l = <<2 * j, streamList[j]>>
    BY <1>2 DEF LayerStreams
  <2>2. j \in Nat /\ j >= 1 /\ j <= Len(xrefList)
    BY <1>0, <2>1
  <2> QED BY <1>0, <2>1, <2>2 DEF Is
<1> QED BY <1>1, <1>2 DEF Layers

LEMMA SettledUp ==
    ASSUME IInv, NEW t, NEW u, NEW n, SameEntry(t, u, n), NEW r \in Int,
           Settled(t, n, r), \A o \in LayersOf(n) : o[1] # r + 1
    PROVE  Settled(u, n, r + 1)
<1>1. \A o \in LayersOf(n) : o[1] <= r + 1 <=> o[1] <= r
  BY LayerFacts DEF LayersOf
<1> QED BY <1>1 DEF Settled, Shows, SameEntry

LEMMA SettledSame ==
    ASSUME NEW t, NEW u, NEW n, SameEntry(t, u, n), NEW r, Settled(t, n, r)
    PROVE  Settled(u, n, r)
BY DEF Settled, Shows, SameEntry

(* The entry n of the section at p, the layer above those that are settled.*)
LEMMA SettledRead ==
    ASSUME IInv, FileOK, NEW t, IsTable(t), NEW r \in Int, NEW p,
           <<r + 1, p>> \in Layers, NEW n \in DOMAIN At(p).entries,
           \A o \in Layers : o[1] = r + 1 => o[2] = p,
           GensKnown(t), ArchivesKnown(t), Settled(t, n, r),
           Is(p, "stream") => IsValidObjectNumber(t, SegmentEnd(p, n) - 1)
    PROVE  Settled(Merged(t, n, p), n, r + 1)
<1> DEFINE u == Merged(t, n, p)
           e == At(p).entries[n]
<1>0. At(p).kind \in {"table", "stream"}
  BY LayerFacts
<1>1. CASE Layered(p, n)
  <2>1. <<r + 1, p>> \in LayersOf(n)
    BY <1>1 DEF LayersOf, Layered
  <2>2. SUFFICES ASSUME NEW l \in LayersOf(n), Regular(n, l), l[1] <= r + 1,
                        \A o \in LayersOf(n) : o[1] <= r + 1 => o[1] <= l[1]
                 PROVE  Shows(u, n, At(l[2]).entries[n])
    BY DEF Settled
  <2>3. l \in Layers /\ l[1] \in Nat
    BY LayerFacts DEF LayersOf
  <2>4. l[1] = r + 1
    <3>1. <<r + 1, p>>[1] <= l[1]
      BY <2>1, <2>2
    <3> QED BY <3>1, <2>2, <2>3
  <2>5. l[2] = p
    BY <2>3, <2>4
  <2>6. /\ \A o \in LayersOf(n) : At(o[2]).entries[n].gen <= e.gen
        /\ e.type = "compressed" => e.archive < SegmentEnd(p, n)
        /\ e.type = "compressed" =>
             \A o \in Layers : \A m \in DOMAIN At(o[2]).entries :
               At(o[2]).entries[m].archive # n
    BY <2>2, <2>5 DEF Regular
  <2>7. e \in Entry /\ e.gen \in Nat /\ e.archive \in Nat
        /\ (At(p).kind = "table" => e.type # "compressed")
    BY <1>0, SectionItem, EntryFacts
  <2>8. InfoOf(t, n).gen <= e.gen
    <3>1. CASE InfoOf(t, n).gen = 0
      BY <3>1, <2>7
    <3>2. CASE InfoOf(t, n).gen # 0
      <4>1. PICK o \in LayersOf(n) : At(o[2]).entries[n].gen = InfoOf(t, n).gen
        BY <3>2 DEF GensKnown
      <4> QED BY <4>1, <2>6
    <3> QED BY <3>1, <3>2
  <2>9. e.type = "compressed" => /\ IsValidObjectNumber(t, e.archive)
                                 /\ ~InfoOf(t, n).stm
    <3> SUFFICES ASSUME e.type = "compressed"
                 PROVE  IsValidObjectNumber(t, e.archive) /\ ~InfoOf(t, n).stm
      OBVIOUS
    <3>1. /\ SegmentEnd(p, n) \in Nat /\ e.archive < SegmentEnd(p, n)
          /\ Is(p, "stream")
      BY <1>0, <2>6, <2>7, SegmentEndFacts DEF Is
    <3>2. PICK m \in DOMAIN t : SegmentEnd(p, n) - 1 <= m
      BY <3>1 DEF IsValidObjectNumber
    <3>3. m \in Nat
      BY <3>2 DEF IsTable
    <3>4. IsValidObjectNumber(t, e.archive)
      BY <3>1, <3>2, <3>3, <2>7 DEF IsValidObjectNumber
    <3> QED BY <3>4, <2>6 DEF ArchivesKnown
  <2> QED BY <1>0, <1>1, <2>5, <2>8, <2>9, MergedEntered
<1>2. CASE ~Layered(p, n)
  <2>1. u = t
    BY <1>0, <1>2, MergedEntered
  <2>2. \A o \in LayersOf(n) : o[1] # r + 1
    BY <1>2 DEF LayersOf, Layered
  <2> QED BY <2>1, <2>2, SettledUp DEF SameEntry
<1> QED BY <1>1, <1>2

LEMMA KnownRead ==
    ASSUME FileOK, NEW t, IsTable(t), NEW r, NEW p, <<r, p>> \in Layers,
           At(p).kind \in {"table", "stream"}, NEW n \in DOMAIN At(p).entries,
           GensKnown(t), ArchivesKnown(t)
    PROVE  GensKnown(Merged(t, n, p)) /\ ArchivesKnown(Merged(t, n, p))
<1> DEFINE u == Merged(t, n, p)
           e == At(p).entries[n]
<1>1. u = t \/ (Layered(p, n) /\ Entered(t, u, n, e))
  BY MergedEntered
<1>2. ASSUME u = t PROVE GensKnown(u) /\ ArchivesKnown(u)
  BY <1>2
<1>3. ASSUME Layered(p, n), Entered(t, u, n, e)
      PROVE  GensKnown(u) /\ ArchivesKnown(u)
  <2>1. <<r, p>> \in LayersOf(n) /\ <<r, p>>[2] = p
    BY <1>3 DEF LayersOf, Layered
  <2> HIDE DEF u, e
  <2>2. \A m : InfoOf(u, m).gen \in {InfoOf(t, m).gen, 0}
               \/ (m = n /\ InfoOf(u, m).gen = e.gen)
    BY <1>3 DEF Entered
  <2>3. \A m : InfoOf(u, m).stm => InfoOf(t, m).stm \/ m = e.archive
    BY <1>3 DEF Entered
  <2>4. GensKnown(u)
    BY <2>1, <2>2 DEF GensKnown, e
  <2>5. ArchivesKnown(u)
    BY <2>3 DEF ArchivesKnown, e
  <2> QED BY <2>4, <2>5
<1> QED BY <1>1, <1>2, <1>3

LEMMA KnownSame ==
    ASSUME NEW t, NEW u, \A n : InfoOf(u, n) = InfoOf(t, n)
    PROVE  /\ GensKnown(t) => GensKnown(u)
           /\ ArchivesKnown(t) => ArchivesKnown(u)
           /\ \A n, r : DOMAIN t \subseteq DOMAIN u /\ Settled(t, n, r) => Settled(u, n, r)
BY DEF GensKnown, ArchivesKnown, Settled, Shows

LEMMA LayersFixed ==
    ASSUME UNCHANGED <<file, xrefList, streamList>>
    PROVE  /\ Layers' = Layers /\ \A n : LayersOf(n)' = LayersOf(n)
           /\ \A p, n : SegmentEnd(p, n)' = SegmentEnd(p, n)
           /\ \A n, l : Regular(n, l)' <=> Regular(n, l)
<1>1. /\ \A p : At(p)' = At(p)
      /\ \A p, kind : Is(p, kind)' = Is(p, kind)
  BY FileFixed
<1>2. Layers' = Layers
  BY <1>1 DEF Layers, LayerTables, LayerStreams
<1>3. \A n : LayersOf(n)' = LayersOf(n)
  BY <1>1, <1>2 DEF LayersOf
<1>4. \A p, n : SegmentEnd(p, n)' = SegmentEnd(p, n)
  BY <1>1 DEF SegmentEnd
<1>5. \A n, l : Regular(n, l)' <=> Regular(n, l)
  <2> SUFFICES ASSUME NEW n, NEW l
               PROVE  Regular(n, l)' <=> Regular(n, l)
    OBVIOUS
  <2> DEFINE e == At(l[2]).entries[n]
             Kept == \A o \in LayersOf(n) : At(o[2]).entries[n].gen <= e.gen
             NoStream == \A o \in Layers : \A m \in DOMAIN At(o[2]).entries :
                           At(o[2]).entries[m].archive # n
  <2>1. e' = e /\ SegmentEnd(l[2], n)' = SegmentEnd(l[2], n)
    BY <1>1, <1>4
  <2>2. Kept' <=> Kept
    BY <1>1, <1>3, <2>1
  <2>3. NoStream' <=> NoStream
    BY <1>1, <1>2
  <2>4. Regular(n, l) <=>
          /\ Kept /\ (e.type = "compressed" => e.archive < SegmentEnd(l[2], n))
          /\ e.type = "compressed" => NoStream
    BY DEF Regular
  <2>5. Regular(n, l)' <=>
          /\ Kept' /\ ((e.type)' = "compressed" => (e.archive)' < SegmentEnd(l[2], n)')
          /\ (e.type)' = "compressed" => NoStream'
    BY DEF Regular
  <2> QED BY <2>1, <2>2, <2>3, <2>4, <2>5
<1> QED BY <1>2, <1>3, <1>4, <1>5

(* What there is to show of a step that leaves the chain as it is.         *)
LEMMA WinsAfter ==
    ASSUME UNCHANGED <<file, xrefList, streamList>>,
           pc' \in {"start", "main"} => table' = EmptyInfo,
           pc' \in Loading \/ Loaded' =>
             /\ GensKnown(table') /\ ArchivesKnown(table')
             /\ \A n \in ObjNums : Settled(table', n, LevelOf(n)')
    PROVE  WinsInv'
<1>1. /\ \A p : At(p)' = At(p)
      /\ \A p, kind : Is(p, kind)' = Is(p, kind)
  BY FileFixed
<1>2. /\ Layers' = Layers /\ \A n : LayersOf(n)' = LayersOf(n)
      /\ \A n, l : Regular(n, l)' <=> Regular(n, l)
  BY LayersFixed
<1>3. GensKnown(table)' = GensKnown(table')
  BY <1>1, <1>2 DEF GensKnown, InfoOf
<1>4. ArchivesKnown(table)' = ArchivesKnown(table')
  BY <1>1, <1>2 DEF ArchivesKnown, InfoOf
<1>5. \A n : Settled(table, n, LevelOf(n))' = Settled(table', n, LevelOf(n)')
  BY <1>1, <1>2 DEF Settled, Shows, InfoOf
<1> QED BY <1>3, <1>4, <1>5 DEF WinsInv, Loading

LEMMA WinsOver ==
    ASSUME \/ pc' \in {"scan", "failed"}
           \/ pc' = "encrypt" /\ (rebuilt' \/ retried')
    PROVE  WinsInv'
BY DEF WinsInv, Loading, Loaded

RanksRight ==
    \A l \in Layers : /\ l[1] \in Nat /\ l[1] >= 2
                      /\ l[1] = 2 => l[2] = streamList[1] /\ xrefList[1] = 0

LEMMA LayersRanked == IInv => RanksRight
<1> SUFFICES ASSUME IInv, NEW l \in Layers
             PROVE  /\ l[1] \in Nat /\ l[1] >= 2
                    /\ l[1] = 2 => l[2] = streamList[1] /\ xrefList[1] = 0
  BY DEF RanksRight
<1>1. 1 \in Nat /\ 2 = 2 * 1 /\ ~(1 > 1)
  OBVIOUS
<1> QED BY <1>1, LayerFacts

(* The chain has a new first section.                                      *)
LEMMA WinsGrows ==
    ASSUME IInv', UNCHANGED file,
           \A l \in Layers : \E o \in Layers' : o[2] = l[2],
           GensKnown(table), ArchivesKnown(table),
           \A n : InfoOf(table', n) = InfoOf(table, n),
           \/ pc' = "find" /\ todo' = {} /\ xrefList'[1] # 0
           \/ /\ pc' = "entries" /\ next' = "find" /\ sec' = streamList'[1]
              /\ todo' = DOMAIN At(sec').entries
    PROVE  WinsInv'
<1>1. /\ \A p : At(p)' = At(p)
      /\ \A p, kind : Is(p, kind)' = Is(p, kind)
  BY FileFixed
<1>2. \A l \in Layers' : /\ l[1] \in Nat /\ l[1] >= 2
                         /\ l[1] = 2 => l[2] = streamList'[1] /\ xrefList'[1] = 0
  <2>1. RanksRight'
    BY LayersRanked, PTL
  <2> QED BY <2>1 DEF RanksRight
<1>3. Level' = 2
  BY DEF Level
<1>4. \A n : LayersOf(n)' = {l \in Layers' : /\ n \in DOMAIN At(l[2]).entries
                              /\ \/ Is(l[2], "stream")
                                 \/ At(l[2]).entries[n].type # "free"}
  BY <1>1 DEF LayersOf
<1>5. \A n : InfoOf(table, n)' = InfoOf(table, n)
  BY DEF InfoOf
<1>6. GensKnown(table)'
  <2> SUFFICES ASSUME NEW n, InfoOf(table, n).gen # 0
               PROVE  \E o \in LayersOf(n)' : At(o[2])'.entries[n].gen = InfoOf(table, n).gen
    BY <1>5 DEF GensKnown
  <2>1. PICK o \in LayersOf(n) : At(o[2]).entries[n].gen = InfoOf(table, n).gen
    BY DEF GensKnown
  <2>2. PICK x \in Layers' : x[2] = o[2]
    BY <2>1 DEF LayersOf
  <2>a. n \in DOMAIN At(o[2]).entries
        /\ (Is(o[2], "stream") \/ At(o[2]).entries[n].type # "free")
    BY <2>1 DEF LayersOf
  <2>3. x \in LayersOf(n)'
    BY <1>4, <2>2, <2>a
  <2> QED BY <1>1, <2>1, <2>2, <2>3
<1>7. ArchivesKnown(table)'
  <2> SUFFICES ASSUME NEW n, InfoOf(table, n).stm
               PROVE  \E o \in Layers' : \E m \in DOMAIN At(o[2])'.entries :
                        At(o[2])'.entries[m].archive = n
    BY <1>5 DEF ArchivesKnown
  <2>1. PICK o \in Layers : \E m \in DOMAIN At(o[2]).entries :
               At(o[2]).entries[m].archive = n
    BY DEF ArchivesKnown
  <2>2. PICK x \in Layers' : x[2] = o[2]
    BY <2>1
  <2> QED BY <1>1, <2>1, <2>2
<1>8. ASSUME NEW n \in ObjNums
      PROVE  Settled(table, n, LevelOf(n))'
  <2> SUFFICES ASSUME NEW l \in LayersOf(n)', l[1] <= LevelOf(n)'
               PROVE  FALSE
    BY DEF Settled
  <2>1. l \in Layers' /\ n \in DOMAIN At(l[2]).entries
    BY <1>4
  <2>2. l[1] = 2 /\ n \notin todo'
    BY <1>2, <1>3, <2>1 DEF LevelOf
  <2>3. l[2] = streamList'[1] /\ xrefList'[1] = 0
    BY <1>2, <2>1, <2>2
  <2> QED BY <2>1, <2>2, <2>3
<1> QED BY <1>6, <1>7, <1>8 DEF WinsInv, Loading

(* Reading an entry: its own number is settled one layer higher.           *)
LEMMA ReadEntryWins ==
    ASSUME LoadInv, WinsInv, ReadEntry
    PROVE  WinsInv'
<1> USE DEF LoadInv
<1>0. /\ FileOK /\ IsTable(table) /\ pc = "entries" /\ todo \subseteq DOMAIN At(sec).entries
      /\ At(sec).kind \in {"table", "stream"}
      /\ UNCHANGED <<file, pc, xrefList, streamList, sec, next, idx>>
  BY DEF Typed, Place, ReadEntry, chainVars
<1>1. PICK k \in todo : /\ table' = Merged(WithSize(table, k, sec), k, sec)
                        /\ todo' = todo \ {k}
  BY DEF ReadEntry
<1> DEFINE t == WithSize(table, k, sec)
<1>a. /\ IsTable(t) /\ DOMAIN table \subseteq DOMAIN t
      /\ \A n : InfoOf(t, n) = InfoOf(table, n)
      /\ Is(sec, "stream") => IsValidObjectNumber(t, SegmentEnd(sec, k) - 1)
  BY <1>0, <1>1, WithSizeFacts
<1>b. table' = Merged(t, k, sec)
  BY <1>1
<1> HIDE DEF t
<1>2. \A m : m # k => SameEntry(t, table', m)
  BY <1>0, <1>1, <1>a, <1>b, MergedFacts
<1>3. GensKnown(t) /\ ArchivesKnown(t)
      /\ \A n \in ObjNums : Settled(t, n, LevelOf(n))
  <2>1. GensKnown(table) /\ ArchivesKnown(table)
        /\ \A n \in ObjNums : Settled(table, n, LevelOf(n))
    BY <1>0 DEF WinsInv, Loading
  <2> QED BY <2>1, <1>a, KnownSame
<1>4. Level' = Level
  BY <1>0 DEF Level
<1>5. /\ Level \in Int /\ <<Level, sec>> \in Layers
      /\ \A o \in Layers : o[1] = Level => o[2] = sec
  <2>0. /\ DOMAIN xrefList = 1 .. Len(xrefList) /\ 1 \in DOMAIN xrefList
        /\ Len(xrefList) \in Nat
    BY <1>0, FirstOfChain DEF Place
  <2>1. next \in {"find", "verify", "table", "second"}
    BY <1>0 DEF IInv, Progress
  <2>2. CASE next = "find"
    <3>1. Level = 2 * 1 /\ xrefList[1] = 0 /\ sec = streamList[1] /\ Is(sec, "stream")
      BY <1>0, <2>2 DEF Level, Place
    <3>2. <<Level, sec>> \in LayerStreams
      BY <2>0, <3>1 DEF LayerStreams
    <3> QED BY <3>1, <3>2, LayerFacts DEF Layers
  <2>3. CASE next \in {"verify", "second"}
    <3>1. /\ Level = 2 * idx + 1 /\ idx \in DOMAIN xrefList /\ idx \in Nat
          /\ sec = xrefList[idx] /\ xrefList[idx] > 0
      BY <1>0, <2>0, <2>3, SectionItem DEF Level, Place
    <3>2. <<Level, sec>> \in LayerTables
      BY <2>0, <3>1 DEF LayerTables
    <3> QED BY <3>1, <3>2, LayerFacts DEF Layers
  <2>4. CASE next = "table"
    <3>1. /\ Level = 2 * idx /\ idx \in DOMAIN xrefList /\ idx \in Nat /\ idx > 1
          /\ sec = streamList[idx] /\ Is(sec, "stream")
      BY <1>0, <2>0, <2>4 DEF Level, Place
    <3>2. <<Level, sec>> \in LayerStreams
      BY <2>0, <3>1 DEF LayerStreams
    <3> QED BY <3>1, <3>2, LayerFacts DEF Layers
  <2> QED BY <2>1, <2>2, <2>3, <2>4
<1>6. GensKnown(table') /\ ArchivesKnown(table')
  BY <1>0, <1>1, <1>3, <1>5, <1>a, <1>b, KnownRead
<1>7. ASSUME NEW n \in ObjNums
      PROVE  Settled(table', n, LevelOf(n)')
  <2>1. CASE n = k
    <3>1. PICK r \in Int : r + 1 = Level /\ r = Level - 1
      BY <1>5
    <3>2. LevelOf(n)' = r + 1 /\ LevelOf(n) = r
      BY <2>1, <3>1, <1>1, <1>4 DEF LevelOf
    <3>3. Settled(t, n, r)
      BY <1>3, <3>2
    <3>4. n \in DOMAIN At(sec).entries
      BY <1>0, <2>1
    <3>5. <<r + 1, sec>> \in Layers /\ \A o \in Layers : o[1] = r + 1 => o[2] = sec
      BY <1>5, <3>1
    <3>6. Settled(Merged(t, n, sec), n, r + 1)
      BY <1>0, <1>3, <1>a, <2>1, <3>3, <3>4, <3>5, SettledRead
    <3> QED BY <1>b, <2>1, <3>2, <3>6
  <2>2. CASE n # k
    <3>1. LevelOf(n)' = LevelOf(n)
      BY <2>2, <1>1, <1>4 DEF LevelOf
    <3>2. SameEntry(t, table', n)
      BY <1>2, <2>2
    <3> QED BY <1>3, <3>1, <3>2, SettledSame
  <2> QED BY <2>1, <2>2
<1> QED BY <1>0, <1>6, <1>7, WinsAfter

(* A section that is about to be read, a layer higher.                     *)
LEMMA OpensSection ==
    ASSUME IInv, FileOK, NEW t, NEW u, \A m : SameEntry(t, u, m),
           NEW r \in Int, NEW D, NEW n, Settled(t, n, r),
           \A o \in LayersOf(n) : o[1] = r + 1 => n \in D
    PROVE  Settled(u, n, IF n \in D THEN (r + 1) - 1 ELSE r + 1)
<1>1. (r + 1) - 1 = r
  OBVIOUS
<1>2. CASE n \in D
  BY <1>1, <1>2, SettledSame
<1>3. CASE n \notin D
  <2>1. \A o \in LayersOf(n) : o[1] # r + 1
    BY <1>3
  <2> QED BY <1>3, <2>1, SettledUp
<1> QED BY <1>2, <1>3

(* From one layer to the next one.                                         *)
LEMMA NextLayer ==
    ASSUME LoadInv, WinsInv, pc \in Loading, todo = {}, NEW r \in Int, Level = r,
           UNCHANGED <<file, xrefList, streamList>>,
           pc' \in Loading, Level' = r + 1,
           DOMAIN table \subseteq DOMAIN table',
           \A n : InfoOf(table', n) = InfoOf(table, n),
           \A o \in Layers : o[1] = r + 1 => DOMAIN At(o[2]).entries \subseteq todo'
    PROVE  WinsInv'
<1>1. GensKnown(table) /\ ArchivesKnown(table)
      /\ \A n \in ObjNums : Settled(table, n, LevelOf(n))
  BY DEF WinsInv
<1>2. GensKnown(table') /\ ArchivesKnown(table')
  BY <1>1, KnownSame
<1>3. ASSUME NEW n \in ObjNums
      PROVE  Settled(table', n, LevelOf(n)')
  <2>1. Settled(table, n, r)
    BY <1>1 DEF LevelOf
  <2>2. \A m : SameEntry(table, table', m)
    BY DEF SameEntry
  <2>3. \A o \in LayersOf(n) : o[1] = r + 1 => n \in todo'
    BY DEF LayersOf
  <2>4. Settled(table', n, IF n \in todo' THEN (r + 1) - 1 ELSE r + 1)
    BY <2>1, <2>2, <2>3, OpensSection DEF LoadInv, Typed
  <2> QED BY <2>4 DEF LevelOf
<1>4. pc' \notin {"start", "main"}
  BY DEF Loading
<1> QED BY <1>2, <1>3, <1>4, WinsAfter

(* Nothing is read, and the place in the chain is the same.                *)
LEMMA SameLayer ==
    ASSUME WinsInv, pc \in Loading \/ Loaded, pc' \in Loading \/ Loaded',
           UNCHANGED <<file, xrefList, streamList, table, todo>>, Level' = Level,
           pc' # "entries"
    PROVE  WinsInv'
<1>1. GensKnown(table') /\ ArchivesKnown(table')
      /\ \A n \in ObjNums : Settled(table', n, LevelOf(n))
  BY DEF WinsInv
<1>2. \A n : LevelOf(n)' = LevelOf(n)
  BY DEF LevelOf
<1>3. pc' \notin {"start", "main"}
  BY DEF Loading, Loaded
<1> QED BY <1>1, <1>2, <1>3, WinsAfter

LEMMA LoadFrontWins ==
    ASSUME LoadInv, WinsInv, LoadFront
    PROVE  WinsInv'
<1>0. /\ UNCHANGED <<file, xrefList, streamList, table>> /\ todo = {} /\ pc = "front"
      /\ pc \in Loading /\ idx' = 1 /\ IInv /\ FileOK /\ xrefList # <<>>
  BY DEF LoadFront, chainVars, LoadInv, Place, Loading, Typed
<1>1. 1 \in DOMAIN xrefList /\ xrefList[1] \in Nat
  BY <1>0, FirstOfChain, ChainSections
<1>2. Level = 2 /\ 2 + 1 = 2 * 1 + 1 /\ 1 \in Nat /\ 2 \in Int
  BY <1>0 DEF Level
<1>3. \A o \in Layers : o[1] = 2 + 1 => o[2] = xrefList[1] /\ xrefList[1] > 0
  BY <1>0, <1>2, LayerFacts
<1>4. CASE xrefList[1] > 0
  <2>1. /\ pc' = "entries" /\ next' = "verify" /\ sec' = xrefList[1]
        /\ todo' = DOMAIN At(xrefList[1]).entries
    BY <1>4 DEF LoadFront, StartEntries
  <2>2. Level' = 2 + 1
    BY <1>0, <2>1, <1>2 DEF Level
  <2>4. pc' \in Loading
    BY <2>1 DEF Loading
  <2> QED BY <1>0, <1>2, <1>3, <2>1, <2>2, <2>4, NextLayer
<1>5. CASE ~(xrefList[1] > 0)
  <2>1. pc' = "second" /\ UNCHANGED todo
    BY <1>5 DEF LoadFront
  <2>2. Level' = 2 + 1
    BY <1>0, <2>1, <1>2 DEF Level
  <2>4. pc' \in Loading
    BY <2>1 DEF Loading
  <2> QED BY <1>0, <1>2, <1>3, <1>5, <2>1, <2>2, <2>4, NextLayer
<1> QED BY <1>4, <1>5

LEMMA SecondTableWins ==
    ASSUME LoadInv, WinsInv, SecondTable
    PROVE  WinsInv'
<1>0. /\ UNCHANGED <<file, xrefList, streamList, table, idx>> /\ todo = {} /\ pc = "table"
      /\ pc \in Loading /\ IInv /\ FileOK /\ idx \in DOMAIN xrefList /\ idx \in Nat
  BY DEF SecondTable, chainVars, LoadInv, Place, Loading, Typed
<1>1. xrefList[idx] \in Nat
  BY <1>0, ChainSections
<1>2. PICK r \in Int : r = 2 * idx /\ r + 1 = 2 * idx + 1
  BY <1>0
<1>a. Level = r
  BY <1>0, <1>2 DEF Level
<1>3. \A o \in Layers : o[1] = r + 1 => o[2] = xrefList[idx] /\ xrefList[idx] > 0
  BY <1>0, <1>2, LayerFacts
<1>4. CASE xrefList[idx] > 0
  <2>1. /\ pc' = "entries" /\ next' = "second" /\ sec' = xrefList[idx]
        /\ todo' = DOMAIN At(xrefList[idx]).entries
    BY <1>4 DEF SecondTable, StartEntries
  <2>2. Level' = r + 1
    BY <1>0, <2>1, <1>2 DEF Level
  <2>4. pc' \in Loading
    BY <2>1 DEF Loading
  <2> QED BY <1>0, <1>a, <1>3, <2>1, <2>2, <2>4, NextLayer
<1>5. CASE ~(xrefList[idx] > 0)
  <2>1. pc' = "second" /\ UNCHANGED todo
    BY <1>5 DEF SecondTable
  <2>2. Level' = r + 1
    BY <1>0, <2>1, <1>2 DEF Level
  <2>4. pc' \in Loading
    BY <2>1 DEF Loading
  <2> QED BY <1>0, <1>a, <1>3, <1>5, <2>1, <2>2, <2>4, NextLayer
<1> QED BY <1>4, <1>5

LEMMA SecondStreamWins ==
    ASSUME LoadInv, WinsInv, SecondStream
    PROVE  WinsInv'
<1> DEFINE p == streamList[idx + 1]
<1>0. /\ UNCHANGED <<file, xrefList, streamList>> /\ todo = {} /\ pc = "second"
      /\ pc \in Loading /\ IInv /\ FileOK /\ IsTable(table)
      /\ idx' = idx + 1 /\ idx \in Nat /\ idx + 1 \in Nat
  BY DEF SecondStream, chainVars, LoadInv, Place, Loading, Typed
<1>2. PICK r \in Int : r = 2 * idx + 1 /\ r + 1 = 2 * (idx + 1)
  BY <1>0
<1>a. Level = r
  BY <1>0, <1>2 DEF Level
<1>3. \A o \in Layers : o[1] = r + 1 => o[2] = p /\ Is(p, "stream")
  BY <1>0, <1>2, LayerFacts
<1>4. CASE p = 0
  <2>1. pc' = "table" /\ UNCHANGED <<table, todo>>
    BY <1>4 DEF SecondStream
  <2>2. Level' = r + 1
    BY <1>0, <2>1, <1>2 DEF Level
  <2>3. ~Is(p, "stream")
    BY <1>0, <1>4, SectionItem DEF Is
  <2>4. pc' \in Loading
    BY <2>1 DEF Loading
  <2> QED BY <1>0, <1>a, <1>3, <2>1, <2>2, <2>3, <2>4, NextLayer
<1>5. CASE p # 0 /\ (~Is(p, "stream") \/ ~At(p).ok)
  <2>1. pc' = "scan"
    BY <1>5 DEF SecondStream, StartRebuild
  <2> QED BY <2>1, WinsOver
<1>6. CASE p # 0 /\ Is(p, "stream") /\ At(p).ok
  <2>1. /\ pc' = "entries" /\ next' = "table" /\ sec' = p
        /\ todo' = DOMAIN At(p).entries /\ UNCHANGED table
    BY <1>6 DEF SecondStream, StartEntries, LoadOlderStream
  <2>2. Level' = r + 1
    BY <1>0, <2>1, <1>2 DEF Level
  <2>4. pc' \in Loading
    BY <2>1 DEF Loading
  <2> QED BY <1>0, <1>a, <1>3, <2>1, <2>2, <2>4, NextLayer
<1> QED BY <1>4, <1>5, <1>6

(* A layer stays one when the chain grows at its front.                    *)
LEMMA LayersKept ==
    ASSUME IInv, UNCHANGED file, NEW x \in Nat, NEW s \in Nat,
           xrefList' = <<x>> \o xrefList, streamList' = <<s>> \o streamList
    PROVE  \A l \in Layers : \E o \in Layers' : o[2] = l[2]
<1>0. PICK k \in Nat : k = Len(xrefList) /\ k = Len(streamList)
  BY DEF IInv, ChainType, ChainIsRight
<1>1. /\ DOMAIN xrefList = 1 .. k /\ DOMAIN xrefList' = 1 .. (k + 1)
      /\ \A i \in 1 .. k : /\ xrefList'[i + 1] = xrefList[i]
                           /\ streamList'[i + 1] = streamList[i]
  <2>1. xrefList \in Seq(Nat) /\ streamList \in Seq(Nat)
    BY DEF IInv, ChainType
  <2>2. /\ DOMAIN xrefList' = 1 .. (k + 1)
        /\ \A i \in 1 .. k : xrefList'[i + 1] = xrefList[i]
    <3>1. /\ DOMAIN xrefList' = 1 .. (Len(xrefList) + 1)
          /\ \A i \in 1 .. Len(xrefList) : xrefList'[i + 1] = xrefList[i]
      BY <2>1, FrontFacts
    <3> QED BY <3>1, <1>0
  <2>3. \A i \in 1 .. k : streamList'[i + 1] = streamList[i]
    <3>1. \A i \in 1 .. Len(streamList) : streamList'[i + 1] = streamList[i]
      BY <2>1, FrontFacts
    <3> QED BY <3>1, <1>0
  <2> QED BY <1>0, <2>1, <2>2, <2>3
<1>2. \A i \in 1 .. k : i + 1 \in 1 .. (k + 1) /\ i + 1 > 1
  BY <1>0
<1>3. \A p, kind : Is(p, kind)' = Is(p, kind)
  BY FileFixed
<1>4. ASSUME NEW l \in LayerTables
      PROVE  \E o \in LayerTables' : o[2] = l[2]
  <2>1. PICK i \in 1 .. k : xrefList[i] > 0 /\ l[2] = xrefList[i]
    BY <1>1 DEF LayerTables
  <2>2. <<2 * (i + 1) + 1, xrefList'[i + 1]>> \in LayerTables'
    BY <1>1, <1>2, <2>1 DEF LayerTables
  <2> QED BY <1>1, <2>1, <2>2
<1>5. ASSUME NEW l \in LayerStreams
      PROVE  \E o \in LayerStreams' : o[2] = l[2]
  <2>1. PICK i \in 1 .. k : Is(streamList[i], "stream") /\ l[2] = streamList[i]
    BY <1>1 DEF LayerStreams
  <2>2. Is(streamList[i + 1], "stream")'
    BY <1>1, <1>3, <2>1
  <2>3. <<2 * (i + 1), streamList'[i + 1]>> \in LayerStreams'
    BY <1>1, <1>2, <2>2 DEF LayerStreams
  <2> QED BY <1>1, <2>1, <2>3
<1> QED BY <1>4, <1>5 DEF Layers

(* The newest section: there was nothing before.                           *)
LEMMA NothingBefore ==
    ASSUME LoadInv, WinsInv, pc = "main", NEW size \in Nat
    PROVE  /\ table = EmptyInfo /\ Layers = {}
           /\ \A n : InfoOf(table, n) = NoInfo
           /\ GensKnown(table) /\ ArchivesKnown(table)
           /\ IsTable(SetObjectMapSize(table, size))
           /\ \A n : InfoOf(SetObjectMapSize(table, size), n) = NoInfo
<1>1. table = EmptyInfo /\ IsTable(table) /\ DOMAIN table = {}
  BY EmptyTable DEF WinsInv
<1>2. xrefList = <<>> /\ DOMAIN xrefList = {}
  BY DEF LoadInv, IInv, Progress
<1>3. Layers = {}
  BY <1>2 DEF Layers, LayerTables, LayerStreams
<1>4. \A n : InfoOf(table, n) = NoInfo
  BY <1>1 DEF InfoOf
<1>5. GensKnown(table) /\ ArchivesKnown(table)
  BY <1>4 DEF GensKnown, ArchivesKnown, NoInfo
<1>6. /\ IsTable(SetObjectMapSize(table, size))
      /\ \A n \in DOMAIN SetObjectMapSize(table, size) :
           n \notin DOMAIN table => SetObjectMapSize(table, size)[n] = NoInfo
  BY <1>1, SetObjectMapSizeFacts
<1>7. \A n : InfoOf(SetObjectMapSize(table, size), n) = NoInfo
  BY <1>1, <1>6 DEF InfoOf
<1> QED BY <1>1, <1>3, <1>4, <1>5, <1>6, <1>7

LEMMA MainTableWins ==
    ASSUME LoadInv, WinsInv, MainTable, IInv'
    PROVE  WinsInv'
<1> DEFINE size == At(lastXRef).trailer.size
<1>0. /\ pc = "main" /\ UNCHANGED file /\ todo = {} /\ UNCHANGED todo /\ pc' = "find"
      /\ xrefList' = <<lastXRef>>
      /\ table' = IF size > 0 THEN SetObjectMapSize(table, size) ELSE table
  BY DEF MainTable, LoadInv, Place, jobVars
<1>1. size \in Nat /\ lastXRef > 0
  BY SectionItem DEF MainTable, Is, LoadInv, Typed, Trailer
<1>2. \A n : InfoOf(table', n) = InfoOf(table, n)
  BY <1>0, <1>1, NothingBefore
<1>3. Layers = {} /\ GensKnown(table) /\ ArchivesKnown(table)
  BY <1>0, <1>1, NothingBefore
<1>4. xrefList'[1] # 0
  BY <1>0, <1>1
<1> QED BY <1>0, <1>2, <1>3, <1>4, WinsGrows

LEMMA MainStreamWins ==
    ASSUME LoadInv, WinsInv, MainStream, IInv'
    PROVE  WinsInv'
<1> DEFINE size == At(lastXRef).trailer.size
<1>0. /\ pc = "main" /\ UNCHANGED file
      /\ table' = SetObjectMapSize(EmptyInfo, size)
      /\ At(lastXRef).kind \in {"table", "stream"} /\ FileOK
  BY DEF MainStream, LoadMainStream, Is, LoadInv, Typed
<1>1. size \in Nat
  BY <1>0, SectionItem DEF Trailer
<1>2. CASE ~At(lastXRef).ok
  BY <1>2, WinsOver DEF MainStream, StartRebuild
<1>3. CASE At(lastXRef).ok
  <2>1. /\ pc' = "entries" /\ next' = "find" /\ sec' = lastXRef
        /\ todo' = DOMAIN At(lastXRef).entries /\ streamList' = <<lastXRef>>
    BY <1>3 DEF MainStream, StartEntries
  <2>2. /\ table = EmptyInfo /\ Layers = {} /\ GensKnown(table) /\ ArchivesKnown(table)
        /\ IsTable(SetObjectMapSize(EmptyInfo, size))
        /\ \A n : InfoOf(SetObjectMapSize(EmptyInfo, size), n) = InfoOf(table, n)
    BY <1>0, <1>1, NothingBefore
  <2>3. \A n : InfoOf(table', n) = InfoOf(table, n)
    BY <1>0, <2>2
  <2>4. sec' = streamList'[1]
    BY <2>1
  <2> QED BY <1>0, <2>1, <2>2, <2>3, <2>4, WinsGrows
<1> QED BY <1>2, <1>3

LEMMA FindTableWins ==
    ASSUME LoadInv, WinsInv, FindTable, IInv'
    PROVE  WinsInv'
<1>0. /\ pc = "find" /\ pc' = "find" /\ UNCHANGED <<file, table, todo>> /\ todo = {}
      /\ xrefList' = <<prev>> \o xrefList
      /\ streamList' = <<At(prev).trailer.xrefstm>> \o streamList
      /\ FileOK /\ IInv /\ xrefList \in Seq(Nat)
  BY DEF FindTable, jobVars, LoadInv, Place, Typed, IInv, ChainType
<1>1. prev \in Nat /\ prev > 0 /\ At(prev).trailer.xrefstm \in Nat
  BY <1>0, SectionFacts DEF FindTable
<1>2. \A l \in Layers : \E o \in Layers' : o[2] = l[2]
  BY <1>0, <1>1, LayersKept
<1>3. GensKnown(table) /\ ArchivesKnown(table)
  BY <1>0 DEF WinsInv, Loading
<1>4. xrefList'[1] # 0
  BY <1>0, <1>1, FrontFacts
<1> QED BY <1>0, <1>2, <1>3, <1>4, WinsGrows

LEMMA FindStreamWins ==
    ASSUME LoadInv, WinsInv, FindStream, IInv'
    PROVE  WinsInv'
<1>1. CASE ~At(prev).ok
  BY <1>1, WinsOver DEF FindStream, StartRebuild
<1>2. CASE At(prev).ok
  <2>0. /\ pc = "find" /\ UNCHANGED file
        /\ pc' = "entries" /\ next' = "find" /\ sec' = prev
        /\ todo' = DOMAIN At(prev).entries /\ UNCHANGED table
        /\ xrefList' = <<0>> \o xrefList /\ streamList' = <<prev>> \o streamList
    BY <1>2 DEF FindStream, StartEntries, LoadOlderStream
  <2>1. /\ FileOK /\ IInv /\ IsTable(table) /\ streamList \in Seq(Nat)
        /\ At(prev).kind \in {"table", "stream"}
    BY DEF LoadInv, Typed, IInv, ChainType, FindStream, Is
  <2>2. prev \in Nat
    BY <2>1, SectionItem
  <2>3. \A l \in Layers : \E o \in Layers' : o[2] = l[2]
    BY <2>0, <2>1, <2>2, LayersKept
  <2>4. GensKnown(table) /\ ArchivesKnown(table)
    BY <2>0 DEF WinsInv, Loading
  <2>5. \A n : InfoOf(table', n) = InfoOf(table, n)
    BY <2>0
  <2>6. sec' = streamList'[1]
    BY <2>0, <2>1, <2>2, FrontFacts
  <2> QED BY <2>0, <2>3, <2>4, <2>5, <2>6, WinsGrows
<1> QED BY <1>1, <1>2

-----------------------------------------------------------------------------
LEMMA OthersWin ==
    ASSUME LoadInv, WinsInv,
           \/ StartParse \/ MainFails \/ FindFails \/ FindEnds \/ EntriesRead
           \/ VerifyCrossRefTable \/ AllLoaded
           \/ ScanObject \/ ScanMember \/ ScanStream \/ ScanOther \/ ScanEnds
           \/ SetEncryptHandler \/ FindRoot
    PROVE  WinsInv'
<1> USE DEF LoadInv
<1>1. CASE StartParse
  <2>0. pc = "start" /\ table = EmptyInfo
    BY <1>1 DEF StartParse, WinsInv
  <2>1. /\ pc' \in {"main", "scan"} /\ table' = EmptyInfo
        /\ UNCHANGED <<file, xrefList, streamList>>
    BY <1>1, <2>0 DEF StartParse, StartRebuild, chainVars
  <2> QED BY <2>1, WinsAfter DEF Loading, Loaded
<1>2. CASE MainFails \/ FindFails \/ ScanObject \/ ScanMember \/ ScanStream
           \/ ScanOther \/ ScanEnds
  <2>1. \/ pc' \in {"scan", "failed"}
        \/ pc' = "encrypt" /\ (rebuilt' \/ retried')
    <3>1. CASE ScanEnds
      <4>1. rebuilt' = (rebuilt \/ ~retried) /\ retried' = retried
            /\ pc' \in {"failed", "encrypt"}
        BY <3>1 DEF ScanEnds
      <4>2. rebuilt' \/ retried'
        BY <4>1, Zenon
      <4> QED BY <4>1, <4>2
    <3>2. CASE ~ScanEnds
      BY <1>2, <3>2 DEF MainFails, FindFails, ScanObject, ScanMember, ScanStream,
                  ScanOther, StartRebuild, Scanning
    <3> QED BY <3>1, <3>2
  <2> QED BY <2>1, WinsOver
<1>3. CASE FindEnds \/ EntriesRead \/ AllLoaded \/ SetEncryptHandler
           \/ (VerifyCrossRefTable /\ pc' # "scan")
           \/ (FindRoot /\ pc' \notin {"scan", "failed"})
  <2>1. UNCHANGED <<file, xrefList, streamList, table, todo, idx>>
    BY <1>3 DEF FindEnds, EntriesRead, AllLoaded, SetEncryptHandler,
                VerifyCrossRefTable, FindRoot, chainVars, jobVars
  <2>2. \/ pc = "find" /\ pc' = "front"
        \/ pc = "entries" /\ pc' = next /\ next \in {"find", "verify", "table", "second"}
        \/ pc = "second" /\ pc' = "encrypt" /\ idx = Len(xrefList)
           /\ UNCHANGED <<rebuilt, retried>>
        \/ pc = "encrypt" /\ pc' = "root" /\ UNCHANGED <<rebuilt, retried>>
        \/ pc = "verify" /\ pc' = "second"
        \/ pc = "root" /\ pc' = "open" /\ UNCHANGED <<rebuilt, retried>>
    BY <1>3 DEF FindEnds, EntriesRead, AllLoaded, SetEncryptHandler, StartRebuild,
                VerifyCrossRefTable, FindRoot, resultVars, IInv, Progress
  <2>3. Level' = Level
    BY <2>1, <2>2 DEF Level
  <2>4. CASE (pc \in Loading \/ Loaded) /\ (pc' \in Loading \/ Loaded')
    <3>1. pc' # "entries"
      BY <2>2
    <3> QED BY <2>1, <2>3, <2>4, <3>1, SameLayer
  <2>5. CASE ~(pc' \in Loading \/ Loaded')
    BY <2>1, <2>2, <2>5, WinsAfter DEF Loading
  <2>6. CASE ~(pc \in Loading \/ Loaded)
    <3>1. ~Loaded' /\ pc' \notin Loading
      BY <2>2, <2>6 DEF Loading, Loaded
    <3> QED BY <2>5, <3>1
  <2> QED BY <2>4, <2>5, <2>6
<1>4. CASE (VerifyCrossRefTable /\ pc' = "scan") \/ (FindRoot /\ pc' \in {"scan", "failed"})
  BY <1>4, WinsOver
<1> QED BY <1>1, <1>2, <1>3, <1>4

LEMMA StepWins ==
    ASSUME LoadInv, WinsInv, LoadStep, IInv'
    PROVE  WinsInv'
BY OthersWin, MainTableWins, MainStreamWins, FindTableWins, FindStreamWins,
   ReadEntryWins, LoadFrontWins, SecondStreamWins, SecondTableWins DEF LoadStep

LEMMA StutterWins ==
    ASSUME WinsInv, UNCHANGED <<file, loadVars, mem>>
    PROVE  WinsInv'
<1>1. UNCHANGED <<file, pc, table, rebuilt, retried, xrefList, streamList, sec, todo,
                  next, idx>>
  BY DEF loadVars, resultVars, chainVars, jobVars
<1>2. Level' = Level
  BY <1>1 DEF Level
<1>3. \A n : LevelOf(n)' = LevelOf(n)
  BY <1>1, <1>2 DEF LevelOf
<1>4. Loaded' = Loaded
  BY <1>1 DEF Loaded
<1> QED BY <1>1, <1>3, <1>4, WinsAfter DEF WinsInv

LEMMA WinsIsNewest ==
    ASSUME LoadInv, WinsInv
    PROVE  NewestEntryWins
<1> USE DEF LoadInv
<1> SUFFICES ASSUME Loaded, NEW n \in ObjNums, NEW l \in LayersOf(n),
                    \A o \in LayersOf(n) : o[1] <= l[1], Regular(n, l)
             PROVE  LET e == At(l[2]).entries[n]
                    IN  /\ n \in DOMAIN table /\ table[n].type = e.type
                        /\ table[n].pos = e.pos /\ table[n].archive = e.archive
  BY DEF NewestEntryWins, Loaded
<1>1. todo = {} /\ Level = 2 * Len(xrefList) + 1
  BY DEF Place, Level, Loaded
<1>2. Settled(table, n, Level)
  BY <1>1 DEF WinsInv, LevelOf
<1>3. l[1] <= Level
  BY <1>1, LayerFacts DEF LayersOf
<1>4. Shows(table, n, At(l[2]).entries[n])
  BY <1>2, <1>3 DEF Settled
<1> QED BY <1>4 DEF Shows, InfoOf

LEMMA InitWins == FreshParser => WinsInv
BY DEF FreshParser, WinsInv, Loading, Loaded

LEMMA StepNewest ==
    LoadInv /\ RebuildInv /\ WinsInv /\ [LoadStep]_<<file, loadVars, mem>>
      => LoadInv' /\ RebuildInv' /\ WinsInv'
<1> SUFFICES ASSUME LoadInv, RebuildInv, WinsInv, [LoadStep]_<<file, loadVars, mem>>
             PROVE  LoadInv' /\ RebuildInv' /\ WinsInv'
  OBVIOUS
<1>1. LoadInv' /\ RebuildInv'
  BY StepLoad
<1>2. IInv'
  BY <1>1 DEF LoadInv
<1> QED BY <1>1, <1>2, StepWins, StutterWins

-----------------------------------------------------------------------------
(* CPDF_Parser loads the sections that /Prev leads to from the one that    *)
(* startxref names, each of them once, in every file.                      *)
THEOREM ChainIsRightAlways == LoadSpec => []ChainIsRight
<1>1. IInv => ChainIsRight
  BY DEF IInv
<1> QED BY <1>1, InitIInv, StepIInv, PTL DEF LoadSpec

(* Whatever layers of tables and streams there are, and in whatever order  *)
(* LoadAllCrossRefTablesAndStreams reads them, an object is where the      *)
(* newest layer that has an entry for it says.                             *)
THEOREM NewestEntryWinsAlways == LoadSpec => []NewestEntryWins
<1>1. LoadInv /\ WinsInv => NewestEntryWins
  BY WinsIsNewest
<1> QED BY <1>1, InitLoad, InitWins, StepNewest, PTL DEF LoadSpec

(* RebuildCrossRef finds the last object of every number in every file.    *)
THEOREM RebuildFindsLastAlways == LoadSpec => []RebuildFindsLast
<1>1. LoadInv /\ RebuildInv => RebuildFindsLast
  BY DEF RebuildInv
<1> QED BY <1>1, InitLoad, StepLoad, PTL DEF LoadSpec

(* StartParse refuses no file that still has a trailer that names the      *)
(* catalog, a whole catalog and the root of its page tree, with pages,     *)
(* whatever else of it is damaged.                                         *)
THEOREM IntactOpensAlways == LoadSpec => []IntactOpens
<1>1. LoadInv /\ RebuildInv => IntactOpens
  BY DEF RebuildInv
<1> QED BY <1>1, InitLoad, StepLoad, PTL DEF LoadSpec
=============================================================================
