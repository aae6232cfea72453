------------------------ MODULE CrossRefAvailProofs ------------------------
(***************************************************************************)
(* The answers of CrossRefAvail are right for every file, every order in   *)
(* which its bytes arrive and every read that fails.                       *)
(***************************************************************************)
EXTENDS CrossRefAvail, TLAPS

-----------------------------------------------------------------------------
(* What is asked for when a read is refused, for every size of file and    *)
(* block and every largest offset.                                         *)

(* Division with remainder: aligning down stays in the file and goes back  *)
(* by less than a block.                                                   *)
LEMMA AlignDownFacts ==
    ASSUME NEW x \in Nat
    PROVE  /\ AlignDown(x) \in 0..x
           /\ AlignDown(x) + BlockSize > x
<1> DEFINE rest == x % BlockSize
           quotient == x \div BlockSize
<1>1. BlockSize \in Nat /\ BlockSize > 0
  BY SizesAssumption
<1>2. rest \in 0 .. BlockSize - 1 /\ quotient \in Int
      /\ x = BlockSize * quotient + rest
  BY <1>1
<1>3. quotient >= 0
  <2> SUFFICES ASSUME quotient <= -1 PROVE FALSE
    BY <1>2
  <2>1. BlockSize * quotient <= BlockSize * (-1)
    BY <1>1, <1>2
  <2>2. x < 0
    BY <1>1, <1>2, <2>1
  <2> QED BY <2>2
<1>4. BlockSize * quotient >= 0
  BY <1>1, <1>2, <1>3
<1> HIDE DEF rest, quotient
<1>5. rest \in 0 .. x
  BY <1>1, <1>2, <1>4
<1> QED BY <1>1, <1>2, <1>5 DEF AlignDown, rest

(* Aligning up never falls short of the offset, although it gives up where *)
(* the arithmetic would overflow.                                          *)
LEMMA AlignUpFacts ==
    ASSUME NEW x \in Nat
    PROVE  AlignUp(x) \in Nat /\ AlignUp(x) >= x
BY AlignDownFacts, SizesAssumption DEF AlignUp

(* The segment that is asked for covers the range that was refused, begins *)
(* at a block and does not leave the file (ScheduleDownload).              *)
THEOREM SegmentCovers ==
    ASSUME NEW from \in Byte, NEW end \in from + 1 .. FileSize
    PROVE  /\ from .. end - 1 \subseteq Segment(from, end)
           /\ Segment(from, end) \subseteq Byte
           /\ AlignDown(from) \in Segment(from, end)
<1>1. from \in Nat /\ end \in Nat /\ FileSize \in Nat /\ from < end
      /\ end <= FileSize /\ Byte = 0 .. FileSize - 1
  BY SizesAssumption DEF Byte
<1>2. AlignDown(from) \in 0..from
  BY <1>1, AlignDownFacts
<1>3. AlignUp(end) \in Nat /\ AlignUp(end) >= end
  BY <1>1, AlignUpFacts
<1>4. Clipped(AlignUp(end)) \in end .. FileSize
  BY <1>1, <1>3 DEF Clipped
<1> QED BY <1>1, <1>2, <1>4 DEF Segment

-----------------------------------------------------------------------------
(* Facts about sections.                                                   *)

(* A section leads to offsets of the file.                                 *)
LEMMA LinksType ==
    ASSUME NEW o \in Offset
    PROVE  LinksOf(o) \subseteq Offset
BY CrossRefAssumption DEF LinksOf

(* What lies on the chains from s: s itself, what its members lead to, and *)
(* nothing that another such set lacks.                                    *)
LEMMA ReachableFacts ==
    ASSUME NEW s \in Starts
    PROVE  /\ Reachable[s] \subseteq Offset
           /\ s \in Reachable[s]
           /\ \A o \in Reachable[s] : LinksOf(o) \subseteq Reachable[s]
           /\ \A S \in SUBSET Offset :
                s \in S /\ (\A x \in S : LinksOf(x) \subseteq S)
                => Reachable[s] \subseteq S
BY LinksType, CrossRefAssumption DEF Reachable

(* The parts of a section.                                                 *)
LEMMA PartFacts ==
    /\ \A o \in Offset : \A k \in PartsOf(o) : <<o, k>> \in Part
    /\ \A part \in Part : part[1] \in Offset /\ part[2] \in PartsOf(part[1])
                          /\ part = <<part[1], part[2]>>
    /\ \A o \in Offset : 0 \in PartsOf(o) /\ Items[o] \in Nat
    /\ \A o \in Offset : IsTable(o) => PartsOf(o) = 0 .. Items[o] + 2
    /\ \A o \in Offset : ~IsTable(o) => PartsOf(o) = {0, 1}
BY CrossRefAssumption DEF Part, PartsOf, Trailer

-----------------------------------------------------------------------------
(* Facts about reads.                                                      *)

(* What is read stays in the file, and so does what is asked for.          *)
LEMMA RangeFacts ==
    ASSUME NEW parts \in SUBSET Part, NEW range \in Ranges(parts)
    PROVE  /\ range[1] .. range[2] - 1 \subseteq Segment(range[1], range[2])
           /\ Segment(range[1], range[2]) \subseteq Byte
<1>1. \A part \in Part : First[part] \in Byte /\ Last[part] \in Byte
  BY CrossRefAssumption
<1>2. BytesOf(parts) \subseteq Byte
  <2>1. \A part \in parts : First[part] .. Last[part] \subseteq Byte
    BY <1>1, SizesAssumption DEF Byte
  <2> QED BY <2>1 DEF BytesOf
<1>3. BlockSize \in Nat /\ BlockSize > 0 /\ FileSize \in Nat
  BY SizesAssumption
<1>4. range[1] \in Byte /\ range[2] \in range[1] + 1 .. FileSize
  <2>1. CASE \E byte \in BytesOf(parts) : range = ReadBlockAt(byte)
    <3>1. PICK byte \in BytesOf(parts) : range = ReadBlockAt(byte)
      BY <2>1
    <3>2. byte \in Byte
      BY <1>2
    <3> QED BY <1>3, <3>1, <3>2 DEF ReadBlockAt, Clipped, Byte
  <2>2. CASE \E part \in parts : \E byte \in BytesOf({part}) :
               range = RangeToCheck(byte, Last[part] + 1)
    <3>1. PICK part \in parts : \E byte \in BytesOf({part}) :
                 range = RangeToCheck(byte, Last[part] + 1)
      BY <2>2
    <3> PICK byte \in BytesOf({part}) : range = RangeToCheck(byte, Last[part] + 1)
      BY <3>1
    <3>2. byte \in First[part] .. Last[part] /\ part \in Part
      BY DEF BytesOf
    <3> QED BY <1>1, <1>3, <3>1, <3>2 DEF RangeToCheck, Clipped, Byte
  <2> QED BY <2>1, <2>2 DEF Ranges, DataRanges
<1> QED BY <1>4, SegmentCovers

(* Parts once there stay there.                                            *)
LEMMA ArrivedFacts ==
    /\ arrived \subseteq Part
    /\ downloaded \subseteq downloaded' => arrived \subseteq arrived'
    /\ downloaded' = downloaded => arrived' = arrived
BY DEF arrived

-----------------------------------------------------------------------------
(* The inductive invariant.                                                *)

InQueue(o) == \E i \in DOMAIN crossRefs.queue : crossRefs.queue[i] = o

InTable == state \in {"tableItemCheck", "tableTrailerCheck"}

(* Still to be checked, or being checked.                                  *)
Waiting(o) == InQueue(o) \/ (InTable /\ offset[1] = o)

Finished(o) ==
    /\ \A k \in PartsOf(o) : <<o, k>> \in arrived
    /\ LinksOf(o) \subseteq crossRefs.registered

(* The registered sections are on the chains, and every one of them waits  *)
(* or is finished with; the queue holds no others.                         *)
Progress ==
    /\ start \in crossRefs.registered
    /\ crossRefs.registered \subseteq Reachable[start]
    /\ \A o \in Offset : InQueue(o) => o \in crossRefs.registered
    /\ \A o \in crossRefs.registered : Waiting(o) \/ Finished(o)

(* The table being checked has been read up to the next part.              *)
TableProgress ==
    InTable =>
      /\ offset[1] \in crossRefs.registered /\ IsTable(offset[1])
      /\ \A k \in 0 .. offset[2] - 1 : <<offset[1], k>> \in arrived
      /\ state = "tableItemCheck" => offset[2] \in 1 .. Trailer(offset[1])
      /\ state = "tableTrailerCheck" => offset[2] = Trailer(offset[1]) + 1

(* The answer "available" is given once, when nothing waits.               *)
DoneIsAvailable ==
    /\ status = "available" => state = "done" /\ pc = "idle"
    /\ state = "done" => crossRefs.queue = <<>> /\ status = "available"

IInv == TypeOK /\ Progress /\ TableProgress /\ DoneIsAvailable /\ ErrorHasReason

-----------------------------------------------------------------------------
(* What AddCrossRefForCheck does.                                          *)

RefsType == [queue : Seq(Offset), registered : SUBSET Offset]

LEMMA AddedFacts ==
    ASSUME NEW refs \in RefsType, NEW o \in Offset \cup {None}
    PROVE  /\ Added(refs, o) \in RefsType
           /\ Added(refs, o).registered = refs.registered \cup ({o} \ {None})
           /\ refs.queue # <<>> =>
                /\ Added(refs, o).queue # <<>>
                /\ Head(Added(refs, o).queue) = Head(refs.queue)
           /\ \A x \in Offset :
                (\E i \in DOMAIN Added(refs, o).queue : Added(refs, o).queue[i] = x)
                <=> \/ \E i \in DOMAIN refs.queue : refs.queue[i] = x
                    \/ x = o /\ o \notin refs.registered
<1>1. CASE o = None \/ o \in refs.registered
  BY <1>1, CrossRefAssumption DEF Added, RefsType
<1>2. CASE o # None /\ o \notin refs.registered
  <2> DEFINE new == Added(refs, o)
  <2>1. new = [queue |-> Append(refs.queue, o), registered |-> refs.registered \cup {o}]
    BY <1>2 DEF Added
  <2>2. refs.queue \in Seq(Offset) /\ o \in Offset
    BY <1>2 DEF RefsType
  <2>3. /\ new.queue = Append(refs.queue, o)
        /\ new.registered = refs.registered \cup {o}
    BY <2>1
  <2>4. new \in RefsType
    BY <2>1, <2>2 DEF RefsType
  <2>5. /\ Len(new.queue) = Len(refs.queue) + 1
        /\ \A i \in 1 .. Len(refs.queue) : new.queue[i] = refs.queue[i]
        /\ new.queue[Len(refs.queue) + 1] = o
        /\ DOMAIN new.queue = 1 .. Len(refs.queue) + 1
        /\ DOMAIN refs.queue = 1 .. Len(refs.queue)
        /\ Len(refs.queue) \in Nat
    BY <2>2, <2>3
  <2>6. refs.queue # <<>> => new.queue # <<>> /\ Head(new.queue) = Head(refs.queue)
    BY <2>2, <2>3, <2>5
  <2>7. \A x \in Offset : (\E i \in DOMAIN new.queue : new.queue[i] = x)
                          <=> (\E i \in DOMAIN refs.queue : refs.queue[i] = x) \/ x = o
    <3> DEFINE old == refs.queue
               q == new.queue
    <3>1. \A i \in DOMAIN old : i \in DOMAIN q /\ q[i] = old[i]
      BY <2>5
    <3>2. Len(old) + 1 \in DOMAIN q /\ q[Len(old) + 1] = o
      BY <2>5
    <3>3. \A i \in DOMAIN q : i = Len(old) + 1 \/ i \in DOMAIN old
      BY <2>5
    <3> HIDE DEF old, q
    <3>4. \A x : (\E i \in DOMAIN q : q[i] = x)
                 <=> (\E i \in DOMAIN old : old[i] = x) \/ x = o
      BY <3>1, <3>2, <3>3
    <3> QED BY <3>4 DEF old, q
  <2> QED BY <1>2, <2>3, <2>4, <2>6, <2>7
<1> QED BY <1>1, <1>2

(* The front of the queue goes, and only it.                               *)
LEMMA PoppedFacts ==
    ASSUME NEW refs \in RefsType, refs.queue # <<>>
    PROVE  /\ Popped(refs) \in RefsType
           /\ Popped(refs).registered = refs.registered
           /\ Head(refs.queue) \in Offset
           /\ \E i \in DOMAIN refs.queue : refs.queue[i] = Head(refs.queue)
           /\ \A x \in Offset :
                /\ (\E i \in DOMAIN Popped(refs).queue : Popped(refs).queue[i] = x)
                   => \E i \in DOMAIN refs.queue : refs.queue[i] = x
                /\ (\E i \in DOMAIN refs.queue : refs.queue[i] = x)
                   => \/ x = Head(refs.queue)
                      \/ \E i \in DOMAIN Popped(refs).queue : Popped(refs).queue[i] = x
<1> DEFINE q == refs.queue
           t == Tail(q)
<1>1. q \in Seq(Offset) /\ q # <<>>
  BY DEF RefsType
<1>2. Popped(refs) = [queue |-> t, registered |-> refs.registered]
  <2>1. refs = [queue |-> q, registered |-> refs.registered]
    BY DEF RefsType
  <2>2. Popped(refs) = [refs EXCEPT !.queue = t]
    BY DEF Popped
  <2> HIDE DEF q, t
  <2> QED BY <2>1, <2>2
<1>3. /\ Len(q) \in Nat /\ Len(q) > 0 /\ DOMAIN q = 1 .. Len(q)
      /\ Head(q) = q[1] /\ t \in Seq(Offset)
      /\ Len(t) = Len(q) - 1 /\ DOMAIN t = 1 .. Len(q) - 1
      /\ \A i \in 1 .. Len(q) - 1 : t[i] = q[i + 1]
  BY <1>1
<1>4. \A i \in DOMAIN q : i = 1 \/ (i - 1 \in DOMAIN t /\ q[i] = t[i - 1])
  BY <1>3
<1>5. \A i \in DOMAIN t : i + 1 \in DOMAIN q /\ t[i] = q[i + 1]
  BY <1>3
<1>6. Popped(refs).queue = t /\ Popped(refs).registered = refs.registered
  BY <1>2
<1>7. Popped(refs) \in RefsType
  BY <1>2, <1>3 DEF RefsType
<1>8. Head(q) \in Offset /\ 1 \in DOMAIN q
  BY <1>1, <1>3
<1> HIDE DEF t, q
<1>9. \A x \in Offset : (\E i \in DOMAIN t : t[i] = x) => \E i \in DOMAIN q : q[i] = x
  BY <1>5
<1>10. \A x \in Offset : (\E i \in DOMAIN q : q[i] = x)
         => x = Head(q) \/ \E i \in DOMAIN t : t[i] = x
  BY <1>3, <1>4
<1> QED BY <1>3, <1>6, <1>7, <1>8, <1>9, <1>10 DEF q

-----------------------------------------------------------------------------
(* The invariant is inductive.                                             *)

LEMMA InitInv == Init => IInv
<1> SUFFICES ASSUME Init PROVE IInv
  OBVIOUS
<1> DEFINE empty == [queue |-> <<>>, registered |-> {}]
<1>1. start \in Starts /\ start \in Offset /\ start # None
  BY CrossRefAssumption DEF Init
<1>2. empty \in RefsType /\ empty.registered = {} /\ DOMAIN empty.queue = {}
  BY DEF RefsType
<1>3. /\ crossRefs \in RefsType
      /\ crossRefs.registered = {start}
      /\ \A x \in Offset : InQueue(x) <=> x = start
  <2>1. crossRefs = Added(empty, start)
    BY DEF Init
  <2> HIDE DEF empty
  <2>2. /\ Added(empty, start) \in RefsType
        /\ Added(empty, start).registered = {start}
    BY <1>1, <1>2, AddedFacts
  <2>3. \A x \in Offset :
          (\E i \in DOMAIN Added(empty, start).queue : Added(empty, start).queue[i] = x)
          <=> (\E i \in DOMAIN empty.queue : empty.queue[i] = x)
              \/ (x = start /\ start \notin empty.registered)
    BY <1>1, <1>2, AddedFacts
  <2> QED BY <1>2, <2>1, <2>2, <2>3 DEF InQueue
<1>4. offset \in Part
  BY <1>1, PartFacts DEF Init
<1>5. TypeOK
  BY <1>1, <1>3, <1>4, CrossRefAssumption DEF Init, TypeOK, RefsType
<1>6. Progress
  BY <1>1, <1>3, ReachableFacts DEF Progress, Waiting
<1> QED BY <1>5, <1>6
      DEF Init, IInv, TableProgress, InTable, DoneIsAvailable, ErrorHasReason

(* Progress is not lost when only data arrives or a call ends.             *)
LEMMA ProgressKept ==
    ASSUME IInv, UNCHANGED <<start, state, offset, crossRefs>>,
           downloaded \subseteq downloaded'
    PROVE  Progress' /\ TableProgress'
<1>1. \A o : InQueue(o)' <=> InQueue(o)
  BY DEF InQueue
<1>2. InTable' <=> InTable
  BY DEF InTable
<1>3. \A o : Waiting(o)' <=> Waiting(o)
  BY <1>1, <1>2 DEF Waiting
<1>4. arrived \subseteq arrived' /\ \A o : Finished(o) => Finished(o)'
  BY ArrivedFacts DEF Finished
<1>5. Progress'
  BY <1>1, <1>3, <1>4 DEF IInv, Progress
<1>6. TableProgress'
  BY <1>2, <1>4 DEF IInv, TableProgress
<1> QED BY <1>5, <1>6

(* So after a read that failed or was too early.                           *)
LEMMA ReadProblemInv ==
    ASSUME IInv, pc = "running", UNCHANGED <<downloaded, start>>,
           NEW parts \in SUBSET Part, NEW outcome \in Outcome(parts), outcome # "ok",
           ReadProblem(outcome, parts)
    PROVE  IInv'
<1>1. UNCHANGED <<downloaded, start, state, offset, crossRefs>>
  BY DEF ReadProblem
<1>2. pc' = "idle" /\ status' = (IF outcome = "error" THEN "error" ELSE status)
  BY DEF ReadProblem, Return
<1>3. errors' \in 0..MaxErrors /\ (outcome = "error" => errors' > 0)
      /\ (outcome # "error" => errors' = errors)
  BY CrossRefAssumption DEF ReadProblem, Outcome, IInv, TypeOK
<1>4. asked' \subseteq Byte
  <2>1. PICK range \in Problems(outcome, parts) : ScheduleDownload(range)
    BY DEF ReadProblem
  <2>2. range \in Ranges(parts)
    BY DEF Problems, Readable, Refused
  <2> QED BY <2>1, <2>2, RangeFacts DEF ScheduleDownload, IInv, TypeOK
<1>5. TypeOK'
  BY <1>1, <1>2, <1>3, <1>4 DEF IInv, TypeOK
<1>6. Progress' /\ TableProgress'
  BY <1>1, ProgressKept
<1>7. DoneIsAvailable'
  BY <1>1, <1>2 DEF IInv, DoneIsAvailable
<1>8. ErrorHasReason'
  BY <1>1, <1>2, <1>3 DEF IInv, ErrorHasReason
<1> QED BY <1>5, <1>6, <1>7, <1>8 DEF IInv

(* And after a section that cannot be used.                                *)
LEMMA RefuseInv ==
    ASSUME IInv, pc = "running", UNCHANGED <<downloaded, start>>, Refuse,
           NEW o \in crossRefs.registered, ~Usable(o)
    PROVE  IInv'
<1>1. UNCHANGED <<downloaded, asked, errors, start, state, offset, crossRefs>>
      /\ pc' = "idle" /\ status' = "error"
  BY DEF Refuse, Return
<1>2. TypeOK'
  BY <1>1 DEF IInv, TypeOK
<1>3. Progress' /\ TableProgress'
  BY <1>1, ProgressKept
<1>4. DoneIsAvailable'
  BY <1>1 DEF IInv, DoneIsAvailable
<1>5. ErrorHasReason'
  BY <1>1 DEF IInv, ErrorHasReason, Progress
<1> QED BY <1>2, <1>3, <1>4, <1>5 DEF IInv

LEMMA AllCheckedInv == IInv /\ AllChecked => IInv'
<1> SUFFICES ASSUME IInv, AllChecked PROVE IInv'
  OBVIOUS
<1>1. TypeOK'
  BY DEF IInv, TypeOK, AllChecked, Return
<1>2. ~InTable /\ ~InTable' /\ \A o : InQueue(o)' <=> InQueue(o)
  BY DEF AllChecked, InTable, InQueue
<1>3. Progress'
  BY <1>2, ArrivedFacts DEF IInv, Progress, Waiting, Finished, AllChecked
<1>4. TableProgress' /\ DoneIsAvailable' /\ ErrorHasReason'
  BY <1>2 DEF TableProgress, DoneIsAvailable, ErrorHasReason, AllChecked, Return
<1> QED BY <1>1, <1>3, <1>4 DEF IInv

LEMMA CheckCrossRefTableInv == IInv /\ CheckCrossRefTable => IInv'
<1> SUFFICES ASSUME IInv, CheckCrossRefTable PROVE IInv'
  OBVIOUS
<1>0. PICK o : o = Head(crossRefs.queue)
  OBVIOUS
<1>1. PICK outcome \in Outcome({<<o, 0>>}) :
        IF outcome # "ok" THEN ReadProblem(outcome, {<<o, 0>>})
        ELSE /\ GoOn("tableItemCheck") /\ offset' = <<o, 1>>
             /\ crossRefs' = Popped(crossRefs)
  BY <1>0 DEF CheckCrossRefTable
<1>2. CASE outcome # "ok"
  <2>1. o \in Offset /\ <<o, 0>> \in Part
    BY <1>0, PoppedFacts, PartFacts DEF CheckCrossRefTable, IInv, TypeOK, RefsType
  <2> QED BY <1>1, <1>2, <2>1, ReadProblemInv DEF CheckCrossRefTable
<1>3. CASE outcome = "ok"
  <2>1. crossRefs \in RefsType /\ crossRefs.queue # <<>> /\ IsTable(o)
        /\ UNCHANGED <<downloaded, asked, start, errors, pc, status>>
        /\ arrived' = arrived
        /\ pc = "running" /\ state = "crossRefCheck" /\ state' = "tableItemCheck"
        /\ offset' = <<o, 1>> /\ crossRefs' = Popped(crossRefs)
    BY <1>0, <1>1, <1>3, ArrivedFacts DEF CheckCrossRefTable, GoOn, IInv, TypeOK, RefsType
  <2>2. /\ o \in Offset /\ InQueue(o) /\ o \in crossRefs.registered
        /\ crossRefs' \in RefsType /\ crossRefs'.registered = crossRefs.registered
        /\ \A x \in Offset : InQueue(x)' => InQueue(x)
        /\ \A x \in Offset : InQueue(x) => x = o \/ InQueue(x)'
    BY <1>0, <2>1, PoppedFacts DEF InQueue, IInv, Progress
  <2>3. <<o, 0>> \in arrived
    BY <1>3 DEF Outcome
  <2>4. Items[o] \in Nat /\ <<o, 1>> \in Part
    BY <2>1, <2>2, PartFacts
  <2>5. TypeOK'
    BY <2>1, <2>2, <2>4 DEF IInv, TypeOK, RefsType
  <2>6. Progress'
    <3>1. crossRefs.registered \subseteq Offset
      BY <2>1 DEF RefsType
    <3>2. \A x \in crossRefs.registered : Waiting(x) => Waiting(x)'
      BY <2>1, <2>2, <3>1 DEF Waiting, InTable
    <3>3. \A x : Finished(x) => Finished(x)'
      BY <2>1, <2>2 DEF Finished
    <3>4. \A x \in crossRefs'.registered : Waiting(x)' \/ Finished(x)'
      BY <2>2, <3>2, <3>3 DEF IInv, Progress
    <3>5. \A x \in Offset : InQueue(x)' => x \in crossRefs'.registered
      BY <2>2 DEF IInv, Progress
    <3> QED BY <2>1, <2>2, <3>4, <3>5 DEF IInv, Progress
  <2>7. TableProgress'
    <3>1. offset'[1] = o /\ offset'[2] = 1
      BY <2>1
    <3> QED BY <2>1, <2>2, <2>3, <2>4, <3>1 DEF TableProgress, InTable, Trailer
  <2>8. DoneIsAvailable' /\ ErrorHasReason'
    BY <2>1 DEF IInv, DoneIsAvailable, ErrorHasReason
  <2> QED BY <2>5, <2>6, <2>7, <2>8 DEF IInv
<1> QED BY <1>2, <1>3

LEMMA CheckCrossRefStreamInv == IInv /\ CheckCrossRefStream => IInv'
<1> SUFFICES ASSUME IInv, CheckCrossRefStream PROVE IInv'
  OBVIOUS
<1>0. PICK o : o = Head(crossRefs.queue)
  OBVIOUS
<1> DEFINE parts == {<<o, 0>>, <<o, 1>>}
<1>1. crossRefs \in RefsType /\ crossRefs.queue # <<>> /\ ~IsTable(o)
      /\ UNCHANGED <<downloaded, start>> /\ pc = "running" /\ state = "crossRefCheck"
      /\ arrived' = arrived
  BY <1>0, ArrivedFacts DEF CheckCrossRefStream, IInv, TypeOK, RefsType
<1>2. o \in Offset /\ InQueue(o) /\ o \in crossRefs.registered
  BY <1>0, <1>1, PoppedFacts DEF InQueue, IInv, Progress
<1>3. CASE DataOutOfReach(o) /\ Refuse
  BY <1>1, <1>2, <1>3, RefuseInv DEF Usable
<1>4. ASSUME NEW outcome \in Outcome(parts), outcome # "ok", ReadProblem(outcome, parts)
      PROVE  IInv'
  <2>1. parts \in SUBSET Part
    BY <1>1, <1>2, PartFacts
  <2> QED BY <1>1, <1>4, <2>1, ReadProblemInv
<1>5. CASE ~Usable(o) /\ Refuse
  BY <1>1, <1>2, <1>5, RefuseInv
<1>6. ASSUME parts \subseteq arrived, Usable(o), GoOn("crossRefCheck"),
             crossRefs' = Popped(Added(crossRefs, Prev[o])), UNCHANGED offset
      PROVE  IInv'
  <2> DEFINE grown == Added(crossRefs, Prev[o])
  <2>1. UNCHANGED <<asked, errors, pc, status, offset>> /\ state' = "crossRefCheck"
        /\ crossRefs' = Popped(grown)
    BY <1>6 DEF GoOn
  <2>2. Prev[o] \in Offset \cup {None} /\ LinksOf(o) = {Prev[o]} \ {None}
    BY <1>1, <1>2, <1>6, CrossRefAssumption DEF LinksOf, Usable, IsTable
  <2>3. /\ grown \in RefsType /\ grown.queue # <<>> /\ Head(grown.queue) = o
        /\ grown.registered = crossRefs.registered \cup LinksOf(o)
        /\ \A x \in Offset : (\E i \in DOMAIN grown.queue : grown.queue[i] = x)
             <=> InQueue(x) \/ (x = Prev[o] /\ Prev[o] \notin crossRefs.registered)
    BY <1>0, <1>1, <2>2, AddedFacts DEF InQueue
  <2> HIDE DEF grown
  <2>4. /\ crossRefs' \in RefsType
        /\ crossRefs'.registered = crossRefs.registered \cup LinksOf(o)
        /\ \A x \in Offset : InQueue(x)' => InQueue(x) \/ x = Prev[o]
        /\ \A x \in Offset : InQueue(x) \/ (x = Prev[o] /\ x \notin crossRefs.registered)
             => x = o \/ InQueue(x)'
    BY <2>1, <2>3, PoppedFacts DEF InQueue
  <2>5. Finished(o)'
    <3>1. parts \subseteq arrived
      BY <1>6
    <3>2. PartsOf(o) = {0, 1}
      BY <1>1, <1>2, PartFacts
    <3> QED BY <1>1, <2>4, <3>1, <3>2 DEF Finished
  <2>6. TypeOK'
    BY <1>1, <2>1, <2>4 DEF IInv, TypeOK, RefsType
  <2>7. Progress'
    <3>1. crossRefs.registered \subseteq Offset /\ start \in Starts
      BY <1>1 DEF RefsType, IInv, TypeOK
    <3>2. LinksOf(o) \subseteq Reachable[start]
      BY <1>2, <3>1, ReachableFacts DEF IInv, Progress
    <3>3. \A x \in crossRefs.registered : Waiting(x) => x = o \/ Waiting(x)'
      BY <1>1, <2>4, <3>1 DEF Waiting, InTable
    <3>4. \A x : Finished(x) => Finished(x)'
      BY <1>1, <2>4 DEF Finished
    <3>5. \A x \in LinksOf(o) : x \notin crossRefs.registered => x = o \/ Waiting(x)'
      BY <2>2, <2>4 DEF Waiting
    <3>6. \A x \in crossRefs'.registered : Waiting(x)' \/ Finished(x)'
      BY <2>4, <2>5, <3>3, <3>4, <3>5 DEF IInv, Progress
    <3>7. \A x \in Offset : InQueue(x)' => x \in crossRefs'.registered
      BY <2>2, <2>4, CrossRefAssumption DEF IInv, Progress
    <3> QED BY <1>1, <2>4, <3>2, <3>6, <3>7 DEF IInv, Progress
  <2>8. TableProgress' /\ DoneIsAvailable' /\ ErrorHasReason'
    BY <1>1, <2>1 DEF IInv, TableProgress, InTable, DoneIsAvailable, ErrorHasReason
  <2> QED BY <2>6, <2>7, <2>8 DEF IInv
<1> QED
  <2>1. CASE DataOutOfReach(o) /\ <<o, 0>> \in arrived /\ Refuse
    BY <1>3, <2>1
  <2>2. CASE \E outcome \in Outcome(parts) :
               IF outcome # "ok" THEN ReadProblem(outcome, parts)
               ELSE IF ~Usable(o) THEN Refuse
               ELSE /\ GoOn("crossRefCheck")
                    /\ crossRefs' = Popped(Added(crossRefs, Prev[o]))
                    /\ UNCHANGED offset
    <3>1. "ok" \in Outcome(parts) => parts \subseteq arrived
      BY DEF Outcome
    <3> QED BY <1>4, <1>5, <1>6, <2>2, <3>1
  <2> QED BY <1>0, <2>1, <2>2 DEF CheckCrossRefStream

LEMMA CheckCrossRefTableItemInv == IInv /\ CheckCrossRefTableItem => IInv'
<1> SUFFICES ASSUME IInv, CheckCrossRefTableItem PROVE IInv'
  OBVIOUS
<1>0. PICK o, k : offset = <<o, k>> /\ offset \in Part
  BY PartFacts DEF IInv, TypeOK
<1>1. PICK outcome \in Outcome({offset}) :
        IF outcome # "ok" THEN ReadProblem(outcome, {offset})
        ELSE IF Kind[o] = "truncatedTable" /\ k = Trailer(o) THEN Refuse
        ELSE /\ GoOn(NextItem(o))
             /\ offset' = <<o, k + 1>>
             /\ UNCHANGED crossRefs
  BY <1>0 DEF CheckCrossRefTableItem
<1>2. UNCHANGED <<downloaded, start>> /\ pc = "running" /\ state = "tableItemCheck"
      /\ arrived' = arrived
  BY ArrivedFacts DEF CheckCrossRefTableItem
<1>3. /\ o \in Offset /\ o \in crossRefs.registered /\ IsTable(o)
      /\ \A i \in 0 .. k - 1 : <<o, i>> \in arrived
      /\ k \in 1 .. Trailer(o) /\ Items[o] \in Nat
  BY <1>0, <1>2, PartFacts DEF IInv, TableProgress, InTable
<1>4. CASE outcome # "ok"
  BY <1>0, <1>1, <1>2, <1>4, ReadProblemInv
<1>5. CASE outcome = "ok" /\ Kind[o] = "truncatedTable" /\ k = Trailer(o)
  BY <1>1, <1>2, <1>3, <1>5, RefuseInv DEF Usable
<1>6. CASE outcome = "ok" /\ ~(Kind[o] = "truncatedTable" /\ k = Trailer(o))
  <2>1. UNCHANGED <<asked, errors, pc, status, crossRefs>> /\ offset' = <<o, k + 1>>
        /\ state' = IF k = Trailer(o) THEN "tableTrailerCheck" ELSE "tableItemCheck"
    BY <1>0, <1>1, <1>6 DEF GoOn, NextItem
  <2>2. offset' \in Part
    <3>1. k + 1 \in PartsOf(o)
      BY <1>3, PartFacts DEF Trailer
    <3> QED BY <1>3, <2>1, <3>1, PartFacts
  <2>3. TypeOK'
    BY <1>2, <2>1, <2>2 DEF IInv, TypeOK
  <2>4. offset[1] = o /\ offset'[1] = o /\ offset'[2] = k + 1
    BY <1>0, <2>1
  <2>5. Progress'
    <3>1. InTable /\ InTable' /\ \A x : InQueue(x)' <=> InQueue(x)
      BY <1>2, <2>1 DEF InTable, InQueue
    <3>2. \A x : (Waiting(x)' <=> Waiting(x)) /\ (Finished(x)' <=> Finished(x))
      BY <1>2, <2>1, <2>4, <3>1 DEF Waiting, Finished
    <3> QED BY <1>2, <2>1, <3>1, <3>2 DEF IInv, Progress
  <2>6. TableProgress'
    <3>1. <<o, k>> \in arrived
      BY <1>0, <1>6 DEF Outcome
    <3>2. \A i \in 0 .. (k + 1) - 1 : <<o, i>> \in arrived
      BY <1>3, <3>1 DEF Trailer
    <3>3. k + 1 \in 1 .. Trailer(o) \/ k = Trailer(o)
      BY <1>3 DEF Trailer
    <3> QED BY <1>2, <1>3, <2>1, <2>4, <3>2, <3>3 DEF TableProgress
  <2>7. DoneIsAvailable' /\ ErrorHasReason'
    BY <1>2, <2>1 DEF IInv, DoneIsAvailable, ErrorHasReason
  <2> QED BY <2>3, <2>5, <2>6, <2>7 DEF IInv
<1> QED BY <1>4, <1>5, <1>6

LEMMA CheckCrossRefTableTrailerInv == IInv /\ CheckCrossRefTableTrailer => IInv'
<1> SUFFICES ASSUME IInv, CheckCrossRefTableTrailer PROVE IInv'
  OBVIOUS
<1>0. PICK o, k : offset = <<o, k>> /\ offset \in Part
  BY PartFacts DEF IInv, TypeOK
<1>1. PICK outcome \in Outcome({offset}) :
        IF outcome # "ok" THEN ReadProblem(outcome, {offset})
        ELSE IF Kind[o] # "table" THEN Refuse
        ELSE /\ GoOn("crossRefCheck")
             /\ crossRefs' = Added(Added(crossRefs, Prev[o]), XRefStm[o])
             /\ UNCHANGED offset
  BY <1>0 DEF CheckCrossRefTableTrailer
<1>2. UNCHANGED <<downloaded, start>> /\ pc = "running" /\ state = "tableTrailerCheck"
      /\ crossRefs \in RefsType /\ arrived' = arrived
  BY ArrivedFacts DEF CheckCrossRefTableTrailer, IInv, TypeOK, RefsType
<1>3. /\ o \in Offset /\ o \in crossRefs.registered /\ IsTable(o)
      /\ \A i \in 0 .. k - 1 : <<o, i>> \in arrived
      /\ k = Items[o] + 2 /\ Items[o] \in Nat
  BY <1>0, <1>2, PartFacts DEF IInv, TableProgress, InTable, Trailer
<1>4. CASE outcome # "ok"
  BY <1>0, <1>1, <1>2, <1>4, ReadProblemInv
<1>5. CASE outcome = "ok" /\ Kind[o] # "table"
  BY <1>1, <1>2, <1>3, <1>5, RefuseInv DEF IsTable, Usable
<1>6. CASE outcome = "ok" /\ Kind[o] = "table"
  <2> DEFINE grown == Added(crossRefs, Prev[o])
  <2>1. UNCHANGED <<asked, errors, pc, status, offset>> /\ state' = "crossRefCheck"
        /\ crossRefs' = Added(grown, XRefStm[o])
    BY <1>1, <1>6 DEF GoOn
  <2>2. /\ Prev[o] \in Offset \cup {None} /\ XRefStm[o] \in Offset \cup {None}
        /\ LinksOf(o) = {Prev[o], XRefStm[o]} \ {None}
    BY <1>3, <1>6, CrossRefAssumption DEF LinksOf
  <2>3. /\ grown \in RefsType
        /\ grown.registered = crossRefs.registered \cup ({Prev[o]} \ {None})
        /\ \A x \in Offset : (\E i \in DOMAIN grown.queue : grown.queue[i] = x)
             <=> InQueue(x) \/ (x = Prev[o] /\ Prev[o] \notin crossRefs.registered)
    BY <1>2, <2>2, AddedFacts DEF InQueue
  <2> HIDE DEF grown
  <2>4. /\ crossRefs' \in RefsType
        /\ crossRefs'.registered = grown.registered \cup ({XRefStm[o]} \ {None})
        /\ \A x \in Offset : InQueue(x)' <=>
             \/ \E i \in DOMAIN grown.queue : grown.queue[i] = x
             \/ x = XRefStm[o] /\ XRefStm[o] \notin grown.registered
    <3> DEFINE next == Added(grown, XRefStm[o])
    <3>1. /\ next \in RefsType
          /\ next.registered = grown.registered \cup ({XRefStm[o]} \ {None})
      BY <2>2, <2>3, AddedFacts
    <3>2. \A x \in Offset : (\E i \in DOMAIN next.queue : next.queue[i] = x) <=>
            \/ \E i \in DOMAIN grown.queue : grown.queue[i] = x
            \/ x = XRefStm[o] /\ XRefStm[o] \notin grown.registered
      BY <2>2, <2>3, AddedFacts
    <3>3. crossRefs' = next
      BY <2>1
    <3> QED BY <3>1, <3>2, <3>3 DEF InQueue
  <2>5. /\ crossRefs'.registered = crossRefs.registered \cup LinksOf(o)
        /\ \A x \in Offset : InQueue(x)' <=>
             InQueue(x) \/ (x \in LinksOf(o) /\ x \notin crossRefs.registered)
    <3>1. crossRefs'.registered = crossRefs.registered \cup LinksOf(o)
      BY <2>2, <2>3, <2>4
    <3>2. ASSUME NEW x \in Offset
          PROVE  InQueue(x)' <=>
                   InQueue(x) \/ (x \in LinksOf(o) /\ x \notin crossRefs.registered)
      <4>1. x # None
        BY CrossRefAssumption
      <4>2. x \in LinksOf(o) <=> x = Prev[o] \/ x = XRefStm[o]
        BY <2>2, <4>1
      <4>3. x \in grown.registered <=> x \in crossRefs.registered \/ x = Prev[o]
        BY <2>3, <4>1
      <4> QED BY <2>3, <2>4, <4>2, <4>3
    <3> QED BY <3>1, <3>2
  <2>6. Finished(o)'
    <3>1. <<o, k>> \in arrived
      BY <1>0, <1>6 DEF Outcome
    <3>2. \A i \in PartsOf(o) : <<o, i>> \in arrived
      BY <1>3, <3>1, PartFacts
    <3> QED BY <1>2, <2>5, <3>2 DEF Finished
  <2>7. TypeOK'
    BY <1>2, <2>1, <2>4 DEF IInv, TypeOK, RefsType
  <2>8. Progress'
    <3>1. crossRefs.registered \subseteq Offset /\ start \in Starts
      BY <1>2 DEF RefsType, IInv, TypeOK
    <3>2. LinksOf(o) \subseteq Reachable[start] /\ LinksOf(o) \subseteq Offset
      BY <1>3, <3>1, ReachableFacts, LinksType DEF IInv, Progress
    <3>3. offset[1] = o
      BY <1>0
    <3>4. \A x \in crossRefs.registered : Waiting(x) => x = o \/ Waiting(x)'
      BY <2>5, <3>1, <3>3 DEF Waiting
    <3>5. \A x : Finished(x) => Finished(x)'
      BY <1>2, <2>5 DEF Finished
    <3>6. \A x \in LinksOf(o) : x \notin crossRefs.registered => Waiting(x)'
      BY <2>5, <3>2 DEF Waiting
    <3>7. \A x \in crossRefs'.registered : Waiting(x)' \/ Finished(x)'
      BY <2>5, <2>6, <3>4, <3>5, <3>6 DEF IInv, Progress
    <3>8. \A x \in Offset : InQueue(x)' => x \in crossRefs'.registered
      BY <2>5 DEF IInv, Progress
    <3> QED BY <1>2, <2>5, <3>2, <3>7, <3>8 DEF IInv, Progress
  <2>9. TableProgress' /\ DoneIsAvailable' /\ ErrorHasReason'
    BY <1>2, <2>1 DEF IInv, TableProgress, InTable, DoneIsAvailable, ErrorHasReason
  <2> QED BY <2>7, <2>8, <2>9 DEF IInv
<1> QED BY <1>4, <1>5, <1>6

(* Outside a step: a call begins, data arrives.                            *)
LEMMA EnvironmentInv ==
    ASSUME IInv, CheckAvail \/ \E byte \in BytesFrom[start] \cup asked : Download(byte)
    PROVE  IInv'
<1>1. UNCHANGED <<asked, errors, start, status, state, offset, crossRefs>>
      /\ downloaded \subseteq downloaded'
  BY DEF CheckAvail, Download
<1>2. TypeOK'
  BY <1>1 DEF IInv, TypeOK, CheckAvail, Download, BytesFrom
<1>3. Progress' /\ TableProgress'
  BY <1>1, ProgressKept
<1>4. DoneIsAvailable'
  BY <1>1 DEF IInv, DoneIsAvailable, CheckAvail, Download
<1>5. ErrorHasReason'
  BY <1>1 DEF IInv, ErrorHasReason
<1> QED BY <1>2, <1>3, <1>4, <1>5 DEF IInv

THEOREM Invariance == Spec => []IInv
<1>1. IInv /\ [Next]_vars => IInv'
  <2> SUFFICES ASSUME IInv, [Next]_vars PROVE IInv'
    OBVIOUS
  <2>1. CASE Step
    BY <2>1, AllCheckedInv, CheckCrossRefTableInv, CheckCrossRefStreamInv,
       CheckCrossRefTableItemInv, CheckCrossRefTableTrailerInv DEF Step
  <2>2. CASE CheckAvail \/ \E byte \in BytesFrom[start] \cup asked : Download(byte)
    BY <2>2, EnvironmentInv
  <2>3. CASE UNCHANGED vars
    <3>1. TypeOK' /\ Progress' /\ TableProgress'
      BY <2>3, ProgressKept DEF vars, IInv, TypeOK
    <3>2. DoneIsAvailable' /\ ErrorHasReason'
      BY <2>3 DEF vars, IInv, DoneIsAvailable, ErrorHasReason
    <3> QED BY <3>1, <3>2 DEF IInv
  <2> QED BY <2>1, <2>2, <2>3 DEF Next
<1> QED BY <1>1, InitInv, PTL DEF Spec

(* Every variable keeps its type.                                          *)
THEOREM TypeCorrect == Spec => []TypeOK
<1>1. IInv => TypeOK
  BY DEF IInv
<1> QED BY <1>1, Invariance, PTL

(* "Available" is never a lie: when nothing waits, the registered sections *)
(* are closed under /Prev and /XRefStm, so they are all there are.         *)
THEOREM AvailableTheorem == Spec => []AvailableIsComplete
<1>1. IInv => AvailableIsComplete
  <2> SUFFICES ASSUME IInv, status = "available"
               PROVE  PartsFrom[start] \subseteq arrived
    BY DEF AvailableIsComplete
  <2>1. state = "done" /\ crossRefs.queue = <<>>
    BY DEF IInv, DoneIsAvailable
  <2>2. \A o : ~Waiting(o)
    BY <2>1 DEF Waiting, InQueue, InTable
  <2>3. \A o \in crossRefs.registered : Finished(o)
    BY <2>2 DEF IInv, Progress
  <2>4. start \in Starts /\ crossRefs.registered \in SUBSET Offset
    BY DEF IInv, TypeOK
  <2>5. Reachable[start] \subseteq crossRefs.registered
    BY <2>3, <2>4, ReachableFacts DEF IInv, Progress, Finished
  <2> QED BY <2>3, <2>4, <2>5, PartFacts DEF PartsFrom, Finished
<1> QED BY <1>1, Invariance, PTL

(* No document is given up without a reason.                               *)
THEOREM ErrorTheorem == Spec => []ErrorHasReason
<1>1. IInv => ErrorHasReason
  BY DEF IInv
<1> QED BY <1>1, Invariance, PTL

-----------------------------------------------------------------------------
(* A call that answers "not available" has asked the embedder for a byte   *)
(* that it lacks, whatever the layout of the file and the size of a block. *)
THEOREM WaitsTheorem == Spec => WaitsForAsked
<1> DEFINE Waits == pc = "running" /\ pc' = "idle" /\ status' = "notAvailable"
                      => ~(asked' \subseteq downloaded')
<1>1. ASSUME NEW parts \in SUBSET Part, NEW outcome \in Outcome(parts),
             outcome # "ok", ReadProblem(outcome, parts), UNCHANGED downloaded
      PROVE  Waits
  <2> SUFFICES ASSUME status' = "notAvailable" PROVE ~(asked' \subseteq downloaded')
    OBVIOUS
  <2>1. outcome # "error"
    BY <1>1 DEF ReadProblem, Return
  <2>2. PICK range \in Refused(parts) : ScheduleDownload(range)
    BY <1>1, <2>1 DEF ReadProblem, Problems
  <2>3. range \in Ranges(parts) /\ ~IsDataRangeAvailable(range)
    BY DEF Refused
  <2>4. Segment(range[1], range[2]) \subseteq asked'
    BY <2>2 DEF ScheduleDownload
  <2> QED BY <1>1, <2>3, <2>4, RangeFacts DEF IsDataRangeAvailable
<1>2. IInv /\ [Next]_vars => [Waits]_vars
  <2> SUFFICES ASSUME IInv, Next, pc = "running", pc' = "idle", status' = "notAvailable"
               PROVE  ~(asked' \subseteq downloaded')
    BY DEF vars
  <2>1. Step
    BY DEF Next, CheckAvail, Download
  <2>2. ASSUME Refuse PROVE FALSE
    BY <2>2 DEF Refuse, Return
  <2>3. ASSUME NEW next, GoOn(next) PROVE FALSE
    BY <2>3 DEF GoOn
  <2>4. CASE AllChecked
    BY <2>4 DEF AllChecked, Return
  <2>5. CASE CheckCrossRefTable
    <3>1. PICK o : o = Head(crossRefs.queue)
      OBVIOUS
    <3>2. {<<o, 0>>} \in SUBSET Part
      BY <2>5, <3>1, PoppedFacts, PartFacts DEF CheckCrossRefTable, IInv, TypeOK, RefsType
    <3> QED BY <1>1, <2>3, <2>5, <3>1, <3>2 DEF CheckCrossRefTable
  <2>6. CASE CheckCrossRefStream
    <3>1. PICK o : o = Head(crossRefs.queue)
      OBVIOUS
    <3>2. o \in Offset /\ ~IsTable(o)
      BY <2>6, <3>1, PoppedFacts DEF CheckCrossRefStream, IInv, TypeOK, RefsType
    <3>3. {<<o, 0>>, <<o, 1>>} \in SUBSET Part
      BY <3>2, PartFacts
    <3> QED BY <1>1, <2>2, <2>3, <2>6, <3>1, <3>3 DEF CheckCrossRefStream
  <2>7. CASE CheckCrossRefTableItem
    <3>1. {offset} \in SUBSET Part
      BY DEF IInv, TypeOK
    <3> QED BY <1>1, <2>2, <2>3, <2>7, <3>1 DEF CheckCrossRefTableItem
  <2>8. CASE CheckCrossRefTableTrailer
    <3>1. {offset} \in SUBSET Part
      BY DEF IInv, TypeOK
    <3> QED BY <1>1, <2>2, <2>3, <2>8, <3>1 DEF CheckCrossRefTableTrailer
  <2> QED BY <2>1, <2>4, <2>5, <2>6, <2>7, <2>8 DEF Step
<1> QED BY <1>2, Invariance, PTL DEF Spec, WaitsForAsked

-----------------------------------------------------------------------------
(* CPDF_CrossRefAvail implements a check that can be polled: what is       *)
(* missing only shrinks, calls answer, and "available" is never taken back.*)
THEOREM Implementation == Spec => ImplementsCheck
<1> DEFINE missing == PartsFrom[start] \ arrived
           busy == pc = "running"
<1>1. Init => Check!Init
  BY DEF Init, Check!Init
<1>2. /\ IInv /\ IInv' /\ AvailableIsComplete' /\ [Next]_vars
      => [Check!Next]_Check!vars
  <2> SUFFICES ASSUME IInv, IInv', AvailableIsComplete', [Next]_vars
               PROVE  [Check!Next]_Check!vars
    OBVIOUS
  <2>1. start' = start => PartsFrom[start]' = PartsFrom[start]
    BY DEF PartsFrom
  <2>2. status = "available" => pc = "idle"
    BY DEF IInv, DoneIsAvailable
  <2>3. status' = "available" => missing' = {}
    BY DEF AvailableIsComplete
  <2>4. CASE CheckAvail
    <3>1. ~busy /\ UNCHANGED <<start, arrived, status>>
      BY <2>4, ArrivedFacts DEF CheckAvail
    <3>2. busy' = TRUE \/ busy' = busy
      BY <2>4 DEF CheckAvail
    <3> QED BY <3>1, <3>2, <2>1 DEF Check!Next, Check!Call, Check!vars
  <2>5. CASE \E byte \in BytesFrom[start] \cup asked : Download(byte)
    <3>1. UNCHANGED <<pc, start, status>> /\ arrived \subseteq arrived'
      BY <2>5, ArrivedFacts DEF Download
    <3> QED BY <3>1, <2>1 DEF Check!Next, Check!Arrive
  <2>6. CASE Step
    <3>1. busy /\ UNCHANGED <<start, arrived>> /\ status # "available"
      BY <2>2, <2>6, ArrivedFacts DEF Step, AllChecked, CheckCrossRefTable,
         CheckCrossRefStream, CheckCrossRefTableItem, CheckCrossRefTableTrailer
    <3>2. UNCHANGED <<pc, status>> \/ pc' = "idle"
      BY <2>6 DEF Step, AllChecked, CheckCrossRefTable, CheckCrossRefStream,
         CheckCrossRefTableItem, CheckCrossRefTableTrailer, GoOn, Return,
         ReadProblem, Refuse
    <3> QED BY <3>1, <3>2, <2>1, <2>3 DEF Check!Next, Check!Answer, Check!vars
  <2>7. CASE UNCHANGED vars
    BY <2>1, <2>7, ArrivedFacts DEF vars, Check!vars
  <2> QED BY <2>4, <2>5, <2>6, <2>7 DEF Next
<1> QED BY <1>1, <1>2, Invariance, AvailableTheorem, PTL
        DEF Spec, ImplementsCheck, Check!Spec
=============================================================================
