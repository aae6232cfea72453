--------------------------- MODULE CrossRefAvail ---------------------------
(***************************************************************************)
(* CPDF_CrossRefAvail (core/fpdfapi/parser/cpdf_cross_ref_avail.cpp):      *)
(* deciding, while a document is still being downloaded, whether all its   *)
(* cross-reference sections can be read.  The sections name each other by  *)
(* their offsets, in chains that a file may close into cycles.  The        *)
(* embedder calls CheckAvail again and again; data arrives between, and    *)
(* during, the calls, and a call resumes where the last one stopped.       *)
(*                                                                         *)
(* A section is a sequence of parts, counted from 0.  A table has the word *)
(* "xref", the words of its entries, the word "trailer" and the trailer    *)
(* dictionary; anything else has a first word and the object it begins.    *)
(* The parser reads them through the validator, a buffer at a time.        *)
(***************************************************************************)
EXTENDS ReadValidator, Sequences

CONSTANTS
    Offset,      \* offsets of the file that its sections name
    None,        \* an entry that is missing or not positive
    Kind,        \* what is at each offset: see SectionKind
    Items,       \* the number of words between "xref" and "trailer"
    Prev,        \* the section's /Prev
    XRefStm,     \* a table's /XRefStm
    First, Last, \* the first and the last byte of each part
    Starts,      \* the offsets this checker may be constructed with
    MaxErrors    \* bound on the reads that fail although the data is there

(* A truncated table meets the end of the file before its trailer, a table *)
(* may have no trailer dictionary, and neither a word nor another object   *)
(* is a stream; an encrypted section has an indirect /Encrypt.  A stream   *)
(* that is no cross-reference stream leads nowhere, as if it had no /Prev. *)
SectionKind == { "table", "truncatedTable", "noTrailer", "encryptedTable",
                 "stream", "encryptedStream", "noStream" }

IsTable(o) ==
    Kind[o] \in {"table", "truncatedTable", "noTrailer", "encryptedTable"}

Trailer(o) == Items[o] + 1    \* the part that is the word "trailer"
PartsOf(o) == IF IsTable(o) THEN 0 .. Trailer(o) + 1 ELSE 0..1
Part       == UNION {{o} \X PartsOf(o) : o \in Offset}

ASSUME CrossRefAssumption ==
    /\ None \notin Offset
    /\ Kind \in [Offset -> SectionKind]
    /\ Items \in [Offset -> Nat]
    /\ Prev \in [Offset -> Offset \cup {None}]
    /\ XRefStm \in [Offset -> Offset \cup {None}]
    /\ First \in [Part -> Byte] /\ Last \in [Part -> Byte]
    /\ Starts \subseteq Offset
    /\ MaxErrors \in Nat

BytesOf(parts) == UNION {First[part] .. Last[part] : part \in parts}

(* The part that holds, and ends with, the data of a stream.               *)
IsData(part) == part[2] = 1 /\ Kind[part[1]] \in {"stream", "encryptedStream"}

(* The data of a stream lie too near the largest offset to be checked.     *)
DataOutOfReach(o) == IsData(<<o, 1>>) /\ CannotCheck(Last[<<o, 1>>] + 1)

Usable(o) == Kind[o] \in {"table", "stream"} /\ ~DataOutOfReach(o)

(* The sections a section leads to.                                        *)
LinksOf(o) ==
    CASE Kind[o] = "table"  -> {Prev[o], XRefStm[o]} \ {None}
      [] Kind[o] = "stream" -> {Prev[o]} \ {None}
      [] OTHER              -> {}

VARIABLES
    errors,      \* reads that failed although the data was there
    pc,          \* "running" during a CheckAvail call, "idle" between calls
    start,       \* last_crossref_offset_
    status,      \* status_, which every call returns
    state,       \* state_
    offset,      \* offset_: the next part to read of the table being checked
    crossRefs    \* cross_refs_for_check_ and registered_crossrefs_

vars == <<downloaded, asked, errors, pc, start, status, state, offset, crossRefs>>

(* The parts that can be read.                                             *)
arrived == {part \in Part : First[part] .. Last[part] \subseteq downloaded}

(* AddCrossRefForCheck.                                                    *)
AddedIfNotQueued(refs, o) ==   \* fault: only what still waits is known
    IF o = None \/ \E i \in DOMAIN refs.queue : refs.queue[i] = o THEN refs
    ELSE [queue |-> Append(refs.queue, o), registered |-> refs.registered \cup {o}]
Added(refs, o) ==
    IF o = None \/ o \in refs.registered THEN refs
    ELSE [queue |-> Append(refs.queue, o), registered |-> refs.registered \cup {o}]

PoppedNever(refs) == refs   \* fault: stays in the queue
Popped(refs) == [refs EXCEPT !.queue = Tail(@)]

Init ==
    /\ start \in Starts
    /\ downloaded = {} /\ asked = {} /\ errors = 0
    /\ pc = "idle" /\ status = "notAvailable"
    /\ state = "crossRefCheck" /\ offset = <<start, 0>>
    /\ crossRefs = Added([queue |-> <<>>, registered |-> {}], start)
-----------------------------------------------------------------------------
(* The ranges that are asked of the validator while these parts are read:  *)
(* the buffer may have to be filled at any byte, and the data of a stream  *)
(* are checked as a whole, wherever they begin.                            *)
DataRanges(parts) ==
    UNION {{RangeToCheck(byte, Last[part] + 1) : byte \in BytesOf({part})} :
             part \in {p \in parts : IsData(p) /\ ~DataOutOfReach(p[1])}}

Ranges(parts) ==
    {ReadBlockAt(byte) : byte \in BytesOf(parts)} \cup DataRanges(parts)

(* Those that are refused, everything before them having been read.        *)
Refused(parts) ==
    {range \in Ranges(parts) :
       /\ ~IsDataRangeAvailable(range)
       /\ \A byte \in BytesOf(parts) : byte < range[1] => byte \in downloaded}

(* Those whose read may fail.                                              *)
Readable(parts) == {range \in Ranges(parts) : IsDataRangeAvailable(range)}

(* What reading these parts can come to: CheckReadProblems looks at errors *)
(* first.  Parts that have arrived may be refused for what lies behind     *)
(* them, unless the buffer held them already.                              *)
Outcome(parts) ==
    (IF /\ parts \subseteq arrived
        /\ \A range \in DataRanges(parts) : IsDataRangeAvailable(range)
     THEN {"ok"} ELSE {})
      \cup (IF Refused(parts) # {} THEN {"unavailable"} ELSE {})
      \cup (IF errors < MaxErrors /\ Readable(parts) # {} THEN {"error"} ELSE {})

Return(result) == pc' = "idle" /\ status' = result

(* CheckReadProblems found one: the call ends and will resume here, and    *)
(* the validator has asked for what is missing.                            *)
Problems(outcome, parts) ==
    IF outcome = "error" THEN Readable(parts) ELSE Refused(parts)

ReadProblemGivenUp(outcome, parts) ==   \* fault: missing data is an error
    /\ Return("error")
    /\ \E range \in Problems(outcome, parts) : ScheduleDownload(range)
    /\ UNCHANGED <<errors, state, offset, crossRefs>>
ReadProblemRestart(outcome, parts) ==   \* fault: the table begun is dropped
    /\ Return(status) /\ state' = "crossRefCheck"
    /\ \E range \in Problems(outcome, parts) : ScheduleDownload(range)
    /\ UNCHANGED <<errors, offset, crossRefs>>
ReadProblem(outcome, parts) ==
    /\ Return(IF outcome = "error" THEN "error" ELSE status)
    /\ errors' = IF outcome = "error" THEN errors + 1 ELSE errors
    /\ \E range \in Problems(outcome, parts) : ScheduleDownload(range)
    /\ UNCHANGED <<state, offset, crossRefs>>

(* The file is not as it should be.                                        *)
Refuse == Return("error") /\ UNCHANGED <<asked, errors, state, offset, crossRefs>>

GoOn(next) == state' = next /\ UNCHANGED <<asked, errors, pc, status>>

-----------------------------------------------------------------------------
Download(byte) ==
    /\ byte \notin downloaded
    /\ downloaded' = downloaded \cup {byte}
    /\ UNCHANGED <<asked, errors, pc, start, status, state, offset, crossRefs>>

CheckAvail ==
    /\ pc = "idle"
    /\ pc' = IF status = "available" THEN "idle" ELSE "running"
    /\ UNCHANGED <<downloaded, asked, errors, start, status, state, offset, crossRefs>>

(* CheckCrossRef when every section has been checked.                      *)
AllChecked ==
    /\ pc = "running" /\ state = "crossRefCheck" /\ crossRefs.queue = <<>>
    /\ Return("available") /\ state' = "done"
    /\ UNCHANGED <<downloaded, asked, errors, start, offset, crossRefs>>

(* CheckCrossRef, CheckCrossRefTable: the next section is a table, which   *)
(* is taken off the queue.                                                 *)
CheckCrossRefTable ==
    /\ pc = "running" /\ state = "crossRefCheck" /\ crossRefs.queue # <<>>
    /\ UNCHANGED <<downloaded, start>>
    /\ LET o == Head(crossRefs.queue) IN
         /\ IsTable(o)
         /\ \E outcome \in Outcome({<<o, 0>>}) :
              IF outcome # "ok" THEN ReadProblem(outcome, {<<o, 0>>})
              ELSE /\ GoOn("tableItemCheck")
                   /\ offset' = <<o, 1>>
                   /\ crossRefs' = Popped(crossRefs)

(* CheckCrossRef, CheckCrossRefStream: it is read whole.                   *)
CheckCrossRefStream ==
    /\ pc = "running" /\ state = "crossRefCheck" /\ crossRefs.queue # <<>>
    /\ UNCHANGED <<downloaded, start>>
    /\ LET o == Head(crossRefs.queue) IN
         /\ ~IsTable(o)
         /\ \/ \E outcome \in Outcome({<<o, 0>>, <<o, 1>>}) :
                 IF outcome # "ok" THEN ReadProblem(outcome, {<<o, 0>>, <<o, 1>>})
                 ELSE IF ~Usable(o) THEN Refuse
                 ELSE /\ GoOn("crossRefCheck")
                      /\ crossRefs' = Popped(Added(crossRefs, Prev[o]))
                      /\ UNCHANGED offset
            \/ DataOutOfReach(o) /\ <<o, 0>> \in arrived /\ Refuse

(* CheckCrossRefTableItem: one word of the table.                          *)
NextItemWithoutTrailer(o) ==   \* fault: the last word is not looked at
    IF offset[2] = Items[o] THEN "tableTrailerCheck" ELSE "tableItemCheck"
NextItem(o) ==
    IF offset[2] = Trailer(o) THEN "tableTrailerCheck" ELSE "tableItemCheck"

CheckCrossRefTableItem ==
    /\ pc = "running" /\ state = "tableItemCheck"
    /\ UNCHANGED <<downloaded, start>>
    /\ LET o == offset[1] IN
         \E outcome \in Outcome({offset}) :
           IF outcome # "ok" THEN ReadProblem(outcome, {offset})
           ELSE IF Kind[o] = "truncatedTable" /\ offset[2] = Trailer(o) THEN Refuse
           ELSE /\ GoOn(NextItem(o))
                /\ offset' = <<o, offset[2] + 1>>
                /\ UNCHANGED crossRefs

(* CheckCrossRefTableTrailer.                                              *)
CheckCrossRefTableTrailer ==
    /\ pc = "running" /\ state = "tableTrailerCheck"
    /\ UNCHANGED <<downloaded, start>>
    /\ LET o == offset[1] IN
         \E outcome \in Outcome({offset}) :
           IF outcome # "ok" THEN ReadProblem(outcome, {offset})
           ELSE IF Kind[o] # "table" THEN Refuse
           ELSE /\ GoOn("crossRefCheck")
                /\ crossRefs' = Added(Added(crossRefs, Prev[o]), XRefStm[o])
                /\ UNCHANGED offset

Step ==
    \/ AllChecked \/ CheckCrossRefTable \/ CheckCrossRefStream
    \/ CheckCrossRefTableItem \/ CheckCrossRefTableTrailer

(* The least set that holds s and every section its members lead to.       *)
Reachable ==
    [s \in Starts |->
       {o \in Offset : \A S \in SUBSET Offset :
          s \in S /\ (\A x \in S : LinksOf(x) \subseteq S) => o \in S}]

(* The parts that matter, and the bytes that are read for them.  Besides   *)
(* these any byte may arrive that was asked for: a segment reaches beyond  *)
(* what is read, to the ends of its blocks.                                *)
PartsFrom == [s \in Starts |-> {part \in Part : part[1] \in Reachable[s]}]
BytesFrom ==
    [s \in Starts |->
       {byte \in Byte : \E part \in PartsFrom[s] :
                           byte \in First[part] .. Last[part] + BlockSize}]

Next == \/ CheckAvail \/ Step
        \/ \E byte \in BytesFrom[start] \cup asked : Download(byte)

Spec == Init /\ [][Next]_vars

(* A call that has been entered goes on; nothing else is sure to happen.   *)
FairSpec == Spec /\ WF_vars(Step)

(* The embedder polls again, and downloads what it has been asked for and  *)
(* perhaps nothing else.                                                   *)
PollsAndDownloads ==
    /\ WF_vars(CheckAvail)
    /\ WF_vars(\E byte \in asked : Download(byte))
-----------------------------------------------------------------------------
TypeOK ==
    /\ downloaded \subseteq Byte /\ asked \subseteq Byte /\ errors \in 0..MaxErrors
    /\ pc \in {"idle", "running"} /\ start \in Starts
    /\ status \in {"notAvailable", "available", "error"}
    /\ state \in {"crossRefCheck", "tableItemCheck", "tableTrailerCheck", "done"}
    /\ offset \in Part
    /\ crossRefs \in [queue : Seq(Offset), registered : SUBSET Offset]

(* "Available" means that every section, followed through /Prev and        *)
(* /XRefStm from the last one, has wholly arrived, whatever arrived or     *)
(* failed between the reads of the calls that led to it.                   *)
AvailableIsComplete == status = "available" => PartsFrom[start] \subseteq arrived

(* A document is given up (and then loaded whole) only for a reason: a     *)
(* section in the chain that cannot be used, or a read that failed.        *)
ErrorHasReason ==
    status = "error" =>
      errors > 0 \/ \E o \in Reachable[start] : ~Usable(o)

(* A call that answers "not available" has asked for something it lacks:   *)
(* an embedder that fetches only what it is asked for never waits in vain. *)
WaitsForAsked ==
    [][pc = "running" /\ pc' = "idle" /\ status' = "notAvailable"
         => ~(asked' \subseteq downloaded')]_vars

(* A call ends although sections name each other in a cycle.               *)
CallReturns == (pc = "running") ~> (pc = "idle")

(* An embedder that polls on and fetches what it is asked for learns that  *)
(* all sections are there, even after reads that failed.                   *)
EventuallyAvailable ==
    PollsAndDownloads /\ (\A o \in Reachable[start] : Usable(o))
      => <>(status = "available")

(* CheckAvail is a check that can be polled: its answer "available" speaks *)
(* of the whole chain, and a later call never takes it back.               *)
Check == INSTANCE PolledCheck WITH missing <- PartsFrom[start] \ arrived,
                                   answer <- status, busy <- pc = "running"
ImplementsCheck == Check!Spec
=============================================================================
