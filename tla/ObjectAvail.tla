---------------------------- MODULE ObjectAvail ----------------------------
(***************************************************************************)
(* CPDF_ObjectAvail (core/fpdfapi/parser/cpdf_object_avail.cpp) and its    *)
(* subclass CPDF_PageObjectAvail: deciding, while a document is still      *)
(* being downloaded, whether every object reachable from a root object can *)
(* be read.  The embedder calls CheckAvail until it answers "available";   *)
(* data arrives between, and during, the calls.                            *)
(*                                                                         *)
(* An object is a sequence of parts: part 1 is the object itself, the      *)
(* others the dictionaries nested in it, in the walker's order.  A part    *)
(* has the references it holds and the way its /Type is written.  Only     *)
(* what the walk tells apart is kept of an object.                         *)
(***************************************************************************)
EXTENDS Integers, Sequences, FiniteSets

CONSTANTS
    Obj,         \* object numbers in use
    Inline,      \* the body of a root that has no object number
    Null,        \* the null pointer
    Page,        \* the name /Page, written directly
    Parts,       \* body of each object: a sequence of Part, <<>> for null
    Link,        \* Link[o] # Null: object o is nothing but "Link[o] 0 R"
    PageNames,   \* the objects whose value is the name /Page
    Roots,       \* the roots this checker may be constructed with
    MaxErrors    \* bound on the reads that fail although the data is there

(* How a part's dictionary gives its /Type: Null stands for a missing type, *)
(* a name other than /Page or a value that is no dictionary.               *)
Part == [ role : {"plain", "parent", "inlineRoot"},
          type : {Null, Page} \cup Obj,
          refs : SUBSET Obj ]

Body   == Obj \cup {Inline}
ByRef  == [kind : {"ref"}, id : Obj]
ByBody == [kind : {"body"}, id : Body]
NullRoot == [kind |-> "null"]

ASSUME ConstantsAssumption ==
    /\ Inline \notin Obj /\ Null \notin Obj
    /\ Page \notin Obj /\ Page # Null
    /\ Parts \in [Body -> Seq(Part)]
    /\ Link \in [Body -> Obj \cup {Null}] /\ Link[Inline] = Null
    /\ \A b \in Body : Link[b] # Null =>
         Parts[b] = <<[role |-> "plain", type |-> Null, refs |-> {Link[b]}]>>
    /\ PageNames \subseteq Obj
    /\ Roots \subseteq ByRef \cup
         {r \in ByBody : Link[r.id] = Null /\ Parts[r.id] # <<>>}
    /\ MaxErrors \in Nat

VARIABLES
    arrived,     \* objects all of whose bytes are downloaded
    loaded,      \* objects the document holds in memory (indirect_objs_)
    errors,      \* reads that failed although the data was there
    pc,          \* where a CheckAvail call is: "idle" between calls
    start,       \* the root of the constructor (history)
    root,        \* root_
    parsed,      \* parsed_objnums_
    nonParsed,   \* non_parsed_objects_
    toCheck,     \* objects_to_check of the running call
    checked,     \* checked_objects of the running call
    answer       \* what the last finished call returned

callVars  == <<root, parsed, nonParsed, toCheck, checked>>
vars == <<arrived, loaded, errors, pc, start, answer, callVars>>

-----------------------------------------------------------------------------
(* The walk over one object: AppendObjectSubRefs and ExcludeObject.        *)

IsRootPart(b, i) == i = 1 /\ root = [kind |-> "body", id |-> b]

(* ValidateDictType(dict, "Page"), /Type resolved through a reference.     *)
ExcludeObject(p) == p.type = Page \/ p.type \in PageNames

Skipped(b, i) ==
    LET p == Parts[b][i]
    IN  \/ p.role # "plain"
        \/ ~IsRootPart(b, i) /\ ExcludeObject(p)

(* The exclusion check has to read the object that names the type.         *)
TypeNeeded(b, i) ==
    IF Parts[b][i].role = "plain" /\ ~IsRootPart(b, i)
    THEN {Parts[b][i].type} \cap Obj
    ELSE {}

(* The walker reaches part i unless the whole object is skipped.           *)
Walked(b) == {i \in DOMAIN Parts[b] : i = 1 \/ ~Skipped(b, 1)}

ProblemIgnored(b, unread) == FALSE  \* fault: read problems not looked at
Problem(b, unread) == \E i \in Walked(b) : TypeNeeded(b, i) \cap unread # {}

(* The walk gets past part k: the types up to there could be read.         *)
Passed(b, k, unread) ==
    \A j \in Walked(b) : j <= k => TypeNeeded(b, j) \cap unread = {}

(* The references pushed: all of them, or those met before the problem.    *)
SubRefs(b, unread) ==
    UNION {Parts[b][k].refs :
             k \in {i \in Walked(b) : ~Skipped(b, i) /\ Passed(b, i, unread)}}

(* The document's objects a walk brings into memory.                       *)
TypesRead(b, unread) ==
    UNION {TypeNeeded(b, k) : k \in {i \in Walked(b) : Passed(b, i, unread)}}

-----------------------------------------------------------------------------
Init ==
    /\ start \in Roots
    /\ root = start
    /\ parsed = IF start.kind = "body" THEN {start.id} \ {Inline} ELSE {}
    /\ arrived = parsed /\ loaded = parsed /\ errors = 0
    /\ pc = "idle" /\ answer = "none"
    /\ nonParsed = {} /\ toCheck = {} /\ checked = {}

(* Bytes of one more object arrive.                                        *)
Download(o) ==
    /\ o \notin arrived
    /\ arrived' = arrived \cup {o}
    /\ UNCHANGED <<loaded, errors, pc, start, answer, callVars>>

(* The document is shared: another reader brings an object into memory.    *)
LoadElsewhere(o) ==
    /\ o \in arrived \ loaded
    /\ loaded' = loaded \cup {o}
    /\ UNCHANGED <<arrived, errors, pc, start, answer, callVars>>

(* What GetOrParseIndirectObject cannot deliver in a step: what is neither  *)
(* in memory nor downloaded, and a read the embedder fails (which is        *)
(* without effect if the step does not make that read).                    *)
ReadFaults ==
    {{}} \cup (IF errors < MaxErrors THEN {{o} : o \in arrived \ loaded} ELSE {})
UnreadFaultsOnly(bad) == bad  \* fault: missing data taken for present
Unread(bad) == (Obj \ (loaded \cup arrived)) \cup bad
CountError(bad) == errors' = IF bad = {} THEN errors ELSE errors + 1

(* The pointer GetOrParseIndirectObject(o) returns, as root_ would hold it. *)
Direct(o, unread) ==
    IF o \in unread \/ Parts[o] = <<>> THEN NullRoot
    ELSE IF Link[o] # Null THEN [kind |-> "ref", id |-> Link[o]]
    ELSE [kind |-> "body", id |-> o]

Return(result) ==
    /\ pc' = "idle"
    /\ answer' = result
    /\ toCheck' = {} /\ checked' = {}

(* The pending objects become those of this call; fault: copied, not moved. *)
TakeStackCopied == toCheck' = nonParsed /\ UNCHANGED nonParsed
TakeStack == toCheck' = nonParsed /\ nonParsed' = {}

(* CheckAvail is called; a stack left by the last call makes LoadRootObject *)
(* return at once.                                                         *)
CheckAvail ==
    /\ pc = "idle"
    /\ IF nonParsed # {}
       THEN pc' = "checkObjects" /\ TakeStack
       ELSE pc' = "loadRoot" /\ UNCHANGED <<toCheck, nonParsed>>
    /\ UNCHANGED <<arrived, loaded, errors, start, answer,
                   root, parsed, checked>>

(* One turn of LoadRootObject's loop over references.                      *)
LoadRootReference ==
    /\ pc = "loadRoot" /\ root.kind = "ref"
    /\ IF root.id \in parsed
       THEN /\ root' = NullRoot /\ pc' = "checkObjects"
            /\ UNCHANGED <<loaded, errors, parsed, toCheck, checked, answer>>
       ELSE \E bad \in ReadFaults : LET unread == Unread(bad) IN
              /\ CountError(bad)
              /\ IF root.id \in unread
                 THEN /\ Return("notAvailable")
                      /\ UNCHANGED <<loaded, root, parsed>>
                 ELSE /\ parsed' = parsed \cup {root.id}
                      /\ loaded' = loaded \cup {root.id}
                      /\ root' = Direct(root.id, unread)
                      /\ UNCHANGED <<pc, toCheck, checked, answer>>
    /\ UNCHANGED <<arrived, start, nonParsed>>

(* The end of LoadRootObject: the references of the root itself.           *)
LoadRootBody ==
    /\ pc = "loadRoot" /\ root.kind # "ref"
    /\ \E bad \in ReadFaults : LET unread == Unread(bad) IN
         /\ CountError(bad)
         /\ IF root.kind = "null"
            THEN /\ pc' = "checkObjects"
                 /\ UNCHANGED <<loaded, toCheck, checked, answer>>
            ELSE /\ loaded' = loaded \cup TypesRead(root.id, unread)
                 /\ IF Problem(root.id, unread)
                    THEN Return("notAvailable")
                    ELSE /\ pc' = "checkObjects"
                         /\ toCheck' = SubRefs(root.id, unread)
                         /\ UNCHANGED <<checked, answer>>
    /\ UNCHANGED <<arrived, start, root, parsed, nonParsed>>

(* One turn of CheckObjects.  The stack is a set: a number pushed twice is *)
(* skipped the second time, and every order of the rest is allowed.        *)
SeenBeforeParsedOnly(o) == o \in parsed   \* fault: checked_objects forgotten
SeenBefore(o) == o \in parsed \cup checked

SkipObject(o) ==
    /\ pc = "checkObjects" /\ o \in toCheck
    /\ SeenBefore(o)
    /\ toCheck' = toCheck \ {o}
    /\ UNCHANGED <<arrived, loaded, errors, pc, start, answer,
                   root, parsed, nonParsed, checked>>

CheckObject(o) ==
    /\ pc = "checkObjects" /\ o \in toCheck
    /\ ~SeenBefore(o)
    /\ checked' = checked \cup {o}
    /\ \E bad \in ReadFaults : LET unread == Unread(bad) IN
         /\ CountError(bad)
         /\ IF Direct(o, unread) = root \/ o \in unread
            THEN /\ toCheck' = toCheck \ {o}
                 /\ nonParsed' = IF Direct(o, unread) = root
                                 THEN nonParsed ELSE nonParsed \cup {o}
                 /\ loaded' = loaded \cup ({o} \ unread)
                 /\ UNCHANGED parsed
            ELSE /\ toCheck' = (toCheck \ {o}) \cup SubRefs(o, unread)
                 /\ loaded' = loaded \cup {o} \cup TypesRead(o, unread)
                 /\ IF Problem(o, unread)
                    THEN nonParsed' = nonParsed \cup {o} /\ UNCHANGED parsed
                    ELSE parsed' = parsed \cup {o} /\ UNCHANGED nonParsed
    /\ UNCHANGED <<arrived, pc, start, answer, root>>

(* The stack is empty: the answer, and CleanMemory if it is positive.      *)
FinishCheck ==
    /\ pc = "checkObjects" /\ toCheck = {}
    /\ IF nonParsed = {}
       THEN Return("available") /\ root' = NullRoot /\ parsed' = {}
       ELSE Return("notAvailable") /\ UNCHANGED <<root, parsed>>
    /\ UNCHANGED <<arrived, loaded, errors, start, nonParsed>>

Step ==
    \/ LoadRootReference \/ LoadRootBody \/ FinishCheck
    \/ \E o \in Obj : SkipObject(o) \/ CheckObject(o)

Next ==
    \/ CheckAvail \/ Step
    \/ \E o \in Obj : Download(o) \/ LoadElsewhere(o)

Spec == Init /\ [][Next]_vars

(* A call that has been entered goes on; nothing else is sure to happen.   *)
FairSpec == Spec /\ WF_vars(Step)

(* The embedder polls again and the download completes.                    *)
PollsAndDownloads ==
    WF_vars(CheckAvail) /\ \A o \in Obj : WF_vars(Download(o))
-----------------------------------------------------------------------------
(* What the checker promises.                                              *)

TypeOK ==
    /\ arrived \subseteq Obj /\ loaded \subseteq arrived
    /\ errors \in 0..MaxErrors
    /\ pc \in {"idle", "loadRoot", "checkObjects"}
    /\ start \in Roots
    /\ root \in ByRef \cup ByBody \cup {NullRoot}
    /\ parsed \subseteq loaded
    /\ nonParsed \subseteq Obj /\ toCheck \subseteq Obj /\ checked \subseteq Obj
    /\ answer \in {"none", "available", "notAvailable"}

(* The objects LoadRootObject goes through to reach the root's body, and   *)
(* that body: the one object whose own /Type does not exclude it.          *)
ChainFrom(s) == {b \in Body : \A S \in SUBSET Body :
                   /\ s.id \in S
                   /\ \A x \in S : Link[x] # Null => Link[x] \in S
                   => b \in S}
RootBodyFrom(s) == {b \in ChainFrom(s) : Link[b] = Null}

Chain == ChainFrom(start)
RootBody == RootBodyFrom(start)

(* The references of b a renderer will follow: those under no excluded     *)
(* dictionary, /Parent entry or second occurrence of the root.             *)
Excluded(b, i, top) ==
    \/ Parts[b][i].role # "plain"
    \/ ~(i = 1 /\ b \in top) /\ ExcludeObject(Parts[b][i])
Targets(b, top) ==
    UNION {Parts[b][i].refs : i \in
             {k \in DOMAIN Parts[b] : ~Excluded(b, k, top) /\ ~Excluded(b, 1, top)}}

(* S holds the root r and everything reachable from its members.           *)
IsClosed(S, r, targets) ==
    r.id \in S /\ \A x \in S : targets[x] \subseteq S

(* Every object reachable from a root along followed references.           *)
RequiredFrom ==
    [ r \in Roots |->
        LET targets == [b \in Body |-> Targets(b, RootBodyFrom(r))]
        IN  {b \in Body : \A S \in SUBSET Body :
                            IsClosed(S, r, targets) => b \in S} ]
Required == RequiredFrom[start]

(* "Available" is never a lie: when CheckAvail has answered so, everything *)
(* reachable from the root is in the document's memory, whatever arrived   *)
(* or failed between the reads of the calls that led to it.                *)
AvailableIsComplete == answer = "available" => Required \subseteq loaded \cup {Inline}

(* A call terminates even when nothing more arrives and objects of a cycle *)
(* keep pushing each other back.                                           *)
CallReturns == (pc # "idle") ~> (pc = "idle")

(* Once everything is downloaded an embedder that polls is told so, even   *)
(* after reads that failed.                                                *)
EventuallyAvailable == PollsAndDownloads => <>(answer = "available")

(* CheckAvail is a check that can be polled: its answer "available" speaks *)
(* of all that is reachable, and a later call never takes it back.         *)
Check == INSTANCE PolledCheck WITH missing <- Required \ (loaded \cup {Inline}),
                                   busy <- pc # "idle"
ImplementsCheck == Check!Spec
=============================================================================
