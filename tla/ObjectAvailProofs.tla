------------------------- MODULE ObjectAvailProofs -------------------------
(***************************************************************************)
(* "Available" is never a lie: proofs about ObjectAvail for every document,*)
(* every root and every order in which data arrives and reads fail.        *)
(***************************************************************************)
EXTENDS ObjectAvail, TLAPS

-----------------------------------------------------------------------------
(* Facts about the walk over one object.                                   *)

(* The parts of a body are well typed.                                     *)
LEMMA PartType ==
    ASSUME NEW b \in Body, NEW i \in DOMAIN Parts[b]
    PROVE  Parts[b][i] \in Part
BY ConstantsAssumption

(* A walk pushes object numbers only.                                      *)
LEMMA SubRefsType ==
    ASSUME NEW b \in Body, NEW unread
    PROVE  SubRefs(b, unread) \subseteq Obj
BY PartType DEF SubRefs, Walked, Part

(* A walk reads only objects that can be read.                             *)
LEMMA TypesReadType ==
    ASSUME NEW b \in Body, NEW unread
    PROVE  TypesRead(b, unread) \subseteq Obj \ unread
<1>1. \A i \in Walked(b) : i \in Int
  BY ConstantsAssumption DEF Walked
<1>2. \A k \in Walked(b) : Passed(b, k, unread) => TypeNeeded(b, k) \cap unread = {}
  BY <1>1 DEF Passed
<1>3. \A k : TypeNeeded(b, k) \subseteq Obj
  BY DEF TypeNeeded
<1> QED BY <1>2, <1>3 DEF TypesRead

(* An object that is only a reference leads to what it refers to.          *)
LEMMA LinkTargets ==
    ASSUME NEW b \in Body, Link[b] # Null, NEW top
    PROVE  Targets(b, top) = {Link[b]}
<1>1. Parts[b] = <<[role |-> "plain", type |-> Null, refs |-> {Link[b]}]>>
  BY ConstantsAssumption
<1>2. DOMAIN Parts[b] = {1} /\ Parts[b][1].refs = {Link[b]}
      /\ Parts[b][1].role = "plain" /\ Parts[b][1].type = Null
  BY <1>1
<1>3. ~Excluded(b, 1, top)
  BY <1>2, ConstantsAssumption DEF Excluded, ExcludeObject
<1> QED BY <1>2, <1>3 DEF Targets

(* The null object leads nowhere, and is no reference.                     *)
LEMMA NullTargets ==
    ASSUME NEW b \in Body, Parts[b] = <<>>, NEW top
    PROVE  Targets(b, top) = {} /\ Link[b] = Null
<1>1. DOMAIN Parts[b] = {}
  OBVIOUS
<1>2. Link[b] = Null
  <2> SUFFICES ASSUME Link[b] # Null PROVE FALSE
    OBVIOUS
  <2> DEFINE p == [role |-> "plain", type |-> Null, refs |-> {Link[b]}]
  <2>1. Parts[b] = <<p>>
    BY ConstantsAssumption
  <2>2. 1 \in DOMAIN Parts[b]
    BY <2>1
  <2> QED BY <1>1, <2>2
<1> QED BY <1>1, <1>2 DEF Targets

(* A walk that met no problem has pushed everything to be followed.        *)
LEMMA WalkIsComplete ==
    ASSUME NEW b \in Body, NEW unread, root \in ByBody, RootBody = {root.id},
           ~Problem(b, unread)
    PROVE  Targets(b, RootBody) \subseteq SubRefs(b, unread)
<1>1. \A i \in DOMAIN Parts[b] : Skipped(b, i) <=> Excluded(b, i, RootBody)
  BY DEF Skipped, Excluded, IsRootPart, ByBody
<1>2. \A k \in Walked(b) : Passed(b, k, unread)
  BY DEF Problem, Passed
<1>3. \A k \in DOMAIN Parts[b] :
        ~Excluded(b, k, RootBody) /\ ~Excluded(b, 1, RootBody)
        => k \in Walked(b) /\ ~Skipped(b, k)
  <2> SUFFICES ASSUME NEW k \in DOMAIN Parts[b], ~Excluded(b, k, RootBody),
                      ~Excluded(b, 1, RootBody)
               PROVE  k \in Walked(b) /\ ~Skipped(b, k)
    OBVIOUS
  <2>1. 1 \in DOMAIN Parts[b]
    BY ConstantsAssumption
  <2> QED BY <1>1, <2>1 DEF Walked
<1> QED BY <1>2, <1>3 DEF Targets, SubRefs

(* A set of objects that holds the root and what its members lead to holds *)
(* everything required.                                                    *)
LEMMA ClosedIsEnough ==
    ASSUME start \in Roots, NEW S \in SUBSET Body, start.id \in S,
           \A x \in S : Targets(x, RootBody) \subseteq S
    PROVE  Required \subseteq S
BY DEF Required, RequiredFrom, IsClosed, RootBody

(* The chain of references contains the root and follows its links.        *)
LEMMA ChainFacts ==
    ASSUME start.id \in Body
    PROVE  /\ Chain \subseteq Body
           /\ start.id \in Chain
           /\ \A x \in Chain : Link[x] # Null => Link[x] \in Chain
           /\ \A S \in SUBSET Body :
                /\ start.id \in S
                /\ \A x \in S : Link[x] # Null => Link[x] \in S
                => Chain \subseteq S
<1>1. \A x \in Body : Link[x] # Null => Link[x] \in Body
  BY ConstantsAssumption DEF Body
<1> QED BY <1>1 DEF Chain, ChainFrom

-----------------------------------------------------------------------------
(* The inductive invariant.                                                *)

(* Which locals of CheckAvail are in use.                                  *)
Locals ==
    /\ pc = "idle" => toCheck = {} /\ checked = {}
    /\ pc = "loadRoot" => toCheck = {} /\ checked = {} /\ nonParsed = {}

(* While the root is a reference, parsed_objnums_ is the part of the chain *)
(* passed so far.                                                          *)
RootIsReference ==
    /\ pc # "checkObjects" /\ nonParsed = {}
    /\ root.id \in Chain
    /\ start.id \in parsed \cup {root.id}
    /\ \A x \in parsed : Link[x] # Null /\ Link[x] \in parsed \cup {root.id}

(* The root's references have been taken in this or an earlier call.       *)
RootTaken == pc = "checkObjects" \/ nonParsed # {}

(* Once the root is known, whatever a parsed object leads to is parsed too *)
(* or waits on one of the two stacks.                                      *)
NothingForgotten ==
    \A b \in parsed \cup {root.id} :
        b # root.id \/ RootTaken
        => Targets(b, RootBody) \subseteq parsed \cup nonParsed \cup toCheck
RootIsBody ==
    /\ NothingForgotten
    /\ RootBody = {root.id}
    /\ root.id \in parsed \cup {Inline}
    /\ Chain \subseteq parsed \cup {root.id}
    /\ checked \subseteq parsed \cup nonParsed

(* The root pointer is null only when nothing is left to do.               *)
RootIsNull ==
    /\ nonParsed = {} /\ toCheck = {}
    /\ Required \subseteq loaded \cup {Inline}

IInv ==
    /\ TypeOK /\ Locals
    /\ root.kind = "ref" => RootIsReference
    /\ root.kind = "body" => RootIsBody
    /\ root.kind = "null" => RootIsNull
    /\ answer = "available" => root.kind = "null"

-----------------------------------------------------------------------------
LEMMA InitInv == Init => IInv
<1> SUFFICES ASSUME Init PROVE IInv
  OBVIOUS
<1> USE DEF Init
<1>1. start \in ByRef \/ (start \in ByBody /\ Link[start.id] = Null)
  BY ConstantsAssumption
<1>2. TypeOK
  <2>1. parsed \subseteq Obj
    BY <1>1 DEF ByRef, ByBody, Body
  <2>2. 0 \in 0..MaxErrors
    BY ConstantsAssumption
  <2> QED BY <1>1, <2>1, <2>2 DEF TypeOK
<1>3. Locals
  BY DEF Locals
<1>4. start.id \in Body
  BY <1>1 DEF ByRef, ByBody, Body
<1>5. root.kind = "ref" => RootIsReference
  BY <1>1, <1>4, ChainFacts DEF RootIsReference, ByRef, ByBody
<1>6. root.kind = "body" => RootIsBody
  <2> SUFFICES ASSUME root.kind = "body" PROVE RootIsBody
    OBVIOUS
  <2>1. root.id = start.id /\ Link[start.id] = Null
    BY <1>1 DEF ByRef
  <2>2. Chain = {start.id}
    BY <1>4, <2>1, ChainFacts
  <2>3. RootBody = {root.id}
    BY <2>1, <2>2 DEF RootBody, RootBodyFrom, Chain
  <2>4. parsed \subseteq {root.id} /\ root.id \in parsed \cup {Inline}
    OBVIOUS
  <2> QED BY <2>1, <2>2, <2>3, <2>4 DEF RootIsBody, NothingForgotten, RootTaken
<1>7. root.kind # "null"
  BY <1>1 DEF ByRef, ByBody
<1> QED BY <1>2, <1>3, <1>5, <1>6, <1>7 DEF IInv

(* Chain, RootBody and Required depend on the constructor's root alone.    *)
LEMMA StartIsConstant ==
    ASSUME start' = start
    PROVE  Chain' = Chain /\ RootBody' = RootBody /\ Required' = Required
BY DEF Chain, RootBody, Required

(* The environment's steps change nothing the walk has concluded.          *)
LEMMA EnvironmentStep ==
    ASSUME IInv, NEW o \in Obj, Download(o) \/ LoadElsewhere(o)
    PROVE  IInv'
<1>1. /\ UNCHANGED <<errors, pc, start, answer, callVars>>
      /\ loaded \subseteq loaded' /\ loaded' \subseteq arrived'
      /\ arrived' \subseteq Obj
  BY DEF IInv, TypeOK, Download, LoadElsewhere
<1>2. TypeOK'
  BY <1>1 DEF IInv, TypeOK, callVars
<1>3. (root.kind = "ref" => RootIsReference)'
  BY <1>1, StartIsConstant DEF IInv, RootIsReference, callVars
<1>4. (root.kind = "body" => RootIsBody)'
  BY <1>1, StartIsConstant DEF IInv, RootIsBody, NothingForgotten, RootTaken, callVars,
     Targets, Excluded
<1>5. (root.kind = "null" => RootIsNull)'
  BY <1>1, StartIsConstant DEF IInv, RootIsNull, callVars
<1> QED BY <1>1, <1>2, <1>3, <1>4, <1>5 DEF IInv, Locals, callVars

LEMMA CheckAvailStep ==
    ASSUME IInv, CheckAvail
    PROVE  IInv'
<1> USE DEF CheckAvail, TakeStack
<1>1. TypeOK' /\ Locals'
  BY DEF IInv, TypeOK, Locals
<1>2. (root.kind = "ref" => RootIsReference)'
  BY StartIsConstant DEF IInv, RootIsReference
<1>3. (root.kind = "body" => RootIsBody)'
  BY StartIsConstant DEF IInv, RootIsBody, NothingForgotten, RootTaken, Locals, Targets, Excluded
<1>4. (root.kind = "null" => RootIsNull)'
  BY StartIsConstant DEF IInv, RootIsNull
<1> QED BY <1>1, <1>2, <1>3, <1>4 DEF IInv

(* Facts every step that reads objects needs.                              *)
LEMMA UnreadFacts ==
    ASSUME TypeOK, NEW bad \in ReadFaults, CountError(bad)
    PROVE  /\ Obj \ Unread(bad) \subseteq arrived
           /\ errors' \in 0..MaxErrors
<1>1. errors \in 0..MaxErrors /\ MaxErrors \in Nat
  BY ConstantsAssumption DEF TypeOK
<1>2. bad # {} => errors < MaxErrors
  BY DEF ReadFaults
<1> QED BY <1>1, <1>2 DEF TypeOK, Unread, CountError

LEMMA LoadRootReferenceStep ==
    ASSUME IInv, LoadRootReference
    PROVE  IInv'
<1>0. /\ RootIsReference /\ TypeOK /\ Locals /\ pc = "loadRoot"
      /\ root.kind = "ref" /\ root \in ByRef /\ root.id \in Obj
      /\ answer # "available" /\ start' = start /\ arrived' = arrived
      /\ nonParsed' = {} /\ toCheck = {} /\ checked = {}
  BY DEF IInv, LoadRootReference, TypeOK, Locals, ByRef, ByBody, NullRoot
<1>1. Chain' = Chain /\ RootBody' = RootBody /\ Required' = Required
  BY <1>0, StartIsConstant
<1>2. start.id \in Body
  BY <1>0, ConstantsAssumption DEF TypeOK, ByRef, ByBody, Body
<1>3. \A x \in parsed : x \in Body /\ Targets(x, RootBody) = {Link[x]}
  BY <1>0, LinkTargets DEF RootIsReference, TypeOK, Body
<1>4. CASE root.id \in parsed
  <2>1. /\ root' = NullRoot /\ pc' = "checkObjects"
        /\ UNCHANGED <<loaded, errors, parsed, toCheck, checked, answer>>
    BY <1>4 DEF LoadRootReference
  <2>2. Required \subseteq loaded
    BY <1>0, <1>3, <1>4, ClosedIsEnough DEF RootIsReference, TypeOK
  <2> QED BY <1>0, <1>1, <2>1, <2>2
          DEF IInv, TypeOK, Locals, RootIsNull, NullRoot
<1>5. CASE root.id \notin parsed
  <2>1. PICK bad \in ReadFaults :
          /\ CountError(bad)
          /\ IF root.id \in Unread(bad)
             THEN /\ Return("notAvailable")
                  /\ UNCHANGED <<loaded, root, parsed>>
             ELSE /\ parsed' = parsed \cup {root.id}
                  /\ loaded' = loaded \cup {root.id}
                  /\ root' = Direct(root.id, Unread(bad))
                  /\ UNCHANGED <<pc, toCheck, checked, answer>>
    BY <1>5 DEF LoadRootReference
  <2>2. Obj \ Unread(bad) \subseteq arrived /\ errors' \in 0..MaxErrors
    BY <1>0, <2>1, UnreadFacts
  <2>3. CASE root.id \in Unread(bad)
    BY <1>0, <1>1, <2>1, <2>2, <2>3
       DEF IInv, TypeOK, Locals, RootIsReference, Return
  <2>4. CASE root.id \notin Unread(bad)
    <3>1. /\ parsed' = parsed \cup {root.id}
          /\ loaded' = loaded \cup {root.id}
          /\ root' = Direct(root.id, Unread(bad))
          /\ UNCHANGED <<pc, toCheck, checked, answer>>
      BY <2>1, <2>4
    <3>2. root' \in ByRef \cup ByBody \cup {NullRoot}
      BY <1>0, <3>1, ConstantsAssumption
         DEF Direct, ByRef, ByBody, NullRoot, Body
    <3>3. TypeOK' /\ Locals'
      BY <1>0, <2>2, <2>4, <3>1, <3>2 DEF TypeOK, Locals
    <3>4. CASE Parts[root.id] = <<>>
      <4>1. root' = NullRoot
        BY <3>1, <3>4 DEF Direct
      <4>2. Targets(root.id, RootBody) = {} /\ root.id \in Body
        BY <1>0, <3>4, NullTargets DEF Body
      <4>3. Required \subseteq parsed \cup {root.id}
        <5> DEFINE S == parsed \cup {root.id}
        <5>1. S \in SUBSET Body /\ start.id \in S
          BY <1>0, <1>3, <4>2 DEF RootIsReference
        <5>2. \A x \in S : Targets(x, RootBody) \subseteq S
          BY <1>0, <1>3, <4>2 DEF RootIsReference
        <5> HIDE DEF S
        <5>3. Required \subseteq S
          BY <1>0, <5>1, <5>2, ClosedIsEnough DEF TypeOK
        <5> QED BY <5>3 DEF S
      <4> QED BY <1>0, <1>1, <3>1, <3>3, <4>1, <4>3
              DEF IInv, RootIsNull, NullRoot, TypeOK
    <3>5. CASE Parts[root.id] # <<>> /\ Link[root.id] # Null
      <4>1. root' = [kind |-> "ref", id |-> Link[root.id]]
        BY <2>4, <3>1, <3>5 DEF Direct
      <4>2. Link[root.id] \in Chain
        BY <1>0, <1>2, <3>5, ChainFacts DEF RootIsReference
      <4>3. RootIsReference'
        BY <1>0, <1>1, <3>1, <3>5, <4>1, <4>2 DEF RootIsReference
      <4> QED BY <1>0, <3>1, <3>3, <4>1, <4>3 DEF IInv
    <3>6. CASE Parts[root.id] # <<>> /\ Link[root.id] = Null
      <4>1. root' = [kind |-> "body", id |-> root.id]
        BY <2>4, <3>1, <3>6 DEF Direct
      <4>2. Chain \subseteq parsed \cup {root.id}
        BY <1>0, <1>2, <3>6, ChainFacts DEF RootIsReference, TypeOK, Body
      <4>3. RootBody = {root.id}
        BY <1>0, <3>6, <4>2 DEF RootBody, RootBodyFrom, Chain, RootIsReference
      <4>4. \A b \in parsed : Targets(b, RootBody) \subseteq parsed \cup {root.id}
        BY <1>0, <1>3 DEF RootIsReference
      <4>5. NothingForgotten'
        <5>1. ~RootTaken' /\ root'.id = root.id
          BY <1>0, <3>1, <4>1 DEF RootTaken
        <5> SUFFICES ASSUME NEW b \in parsed
                     PROVE  Targets(b, RootBody)' \subseteq parsed \cup {root.id}
          BY <3>1, <5>1 DEF NothingForgotten
        <5>2. Targets(b, RootBody)' = Targets(b, RootBody)
          BY <1>1 DEF Targets, Excluded
        <5> QED BY <4>4, <5>2
      <4>6. RootIsBody'
        BY <1>0, <1>1, <3>1, <4>1, <4>2, <4>3, <4>5 DEF RootIsBody
      <4> QED BY <1>0, <3>1, <3>3, <4>1, <4>6 DEF IInv
    <3> QED BY <3>4, <3>5, <3>6
  <2> QED BY <2>3, <2>4
<1> QED BY <1>4, <1>5

LEMMA LoadRootBodyStep ==
    ASSUME IInv, LoadRootBody
    PROVE  IInv'
<1>0. /\ TypeOK /\ Locals /\ pc = "loadRoot" /\ root.kind # "ref"
      /\ root.kind = "body" => RootIsBody
      /\ root.kind = "null" => RootIsNull
      /\ answer = "available" => root.kind = "null"
      /\ UNCHANGED <<start, arrived, root, parsed, nonParsed>>
  BY DEF IInv, LoadRootBody
<1>1. Chain' = Chain /\ RootBody' = RootBody /\ Required' = Required
  BY <1>0, StartIsConstant
<1>2. PICK bad \in ReadFaults :
        /\ CountError(bad)
        /\ IF root.kind = "null"
           THEN /\ pc' = "checkObjects"
                /\ UNCHANGED <<loaded, toCheck, checked, answer>>
           ELSE /\ loaded' = loaded \cup TypesRead(root.id, Unread(bad))
                /\ IF Problem(root.id, Unread(bad))
                   THEN Return("notAvailable")
                   ELSE /\ pc' = "checkObjects"
                        /\ toCheck' = SubRefs(root.id, Unread(bad))
                        /\ UNCHANGED <<checked, answer>>
  BY DEF LoadRootBody
<1>3. Obj \ Unread(bad) \subseteq arrived /\ errors' \in 0..MaxErrors
  BY <1>0, <1>2, UnreadFacts
<1>4. CASE root.kind = "null"
  BY <1>0, <1>1, <1>2, <1>3, <1>4 DEF IInv, TypeOK, Locals, RootIsNull
<1>5. CASE root.kind # "null"
  <2>1. root.kind = "body" /\ root \in ByBody /\ root.id \in Body
    BY <1>0, <1>5 DEF TypeOK, ByRef, ByBody, NullRoot
  <2>2. /\ TypesRead(root.id, Unread(bad)) \subseteq Obj \ Unread(bad)
        /\ SubRefs(root.id, Unread(bad)) \subseteq Obj
    BY <2>1, TypesReadType, SubRefsType
  <2>3. loaded' = loaded \cup TypesRead(root.id, Unread(bad))
    BY <1>2, <1>5
  <2>4. \A b : Targets(b, RootBody)' = Targets(b, RootBody)
    BY <1>1 DEF Targets, Excluded
  <2>5. RootBody = {root.id} /\ RootIsBody /\ nonParsed = {} /\ toCheck = {}
    BY <1>0, <2>1 DEF RootIsBody, Locals
  <2>6. CASE Problem(root.id, Unread(bad))
    <3>1. Return("notAvailable")
      BY <1>2, <1>5, <2>6
    <3>2. TypeOK' /\ Locals'
      BY <1>0, <1>3, <2>2, <2>3, <3>1 DEF TypeOK, Locals, Return
    <3>3. RootIsBody'
      <4>1. ~RootTaken /\ ~RootTaken'
        BY <1>0, <2>5, <3>1 DEF RootTaken, Return
      <4> QED BY <1>0, <1>1, <2>4, <2>5, <3>1, <4>1 DEF RootIsBody, NothingForgotten, Return
    <3> QED BY <1>0, <2>1, <3>1, <3>2, <3>3 DEF IInv, Return
  <2>7. CASE ~Problem(root.id, Unread(bad))
    <3>1. /\ pc' = "checkObjects"
          /\ toCheck' = SubRefs(root.id, Unread(bad))
          /\ UNCHANGED <<checked, answer>>
      BY <1>2, <1>5, <2>7
    <3>2. TypeOK' /\ Locals'
      BY <1>0, <1>3, <2>2, <2>3, <3>1 DEF TypeOK, Locals
    <3>3. Targets(root.id, RootBody) \subseteq toCheck'
      BY <2>1, <2>5, <2>7, <3>1, WalkIsComplete
    <3>4. RootIsBody'
      <4>1. \A b \in parsed \cup {root.id} :
              Targets(b, RootBody) \subseteq parsed \cup nonParsed \cup toCheck'
        BY <2>5, <3>3 DEF RootIsBody, NothingForgotten
      <4>2. NothingForgotten'
        BY <1>0, <2>4, <4>1 DEF NothingForgotten
      <4> QED BY <1>0, <1>1, <2>5, <3>1, <4>2 DEF RootIsBody
    <3> QED BY <1>0, <2>1, <3>1, <3>2, <3>4 DEF IInv
  <2> QED BY <2>6, <2>7
<1> QED BY <1>4, <1>5

LEMMA SkipObjectStep ==
    ASSUME IInv, NEW o \in Obj, SkipObject(o)
    PROVE  IInv'
<1>1. /\ UNCHANGED <<arrived, loaded, errors, pc, start, answer,
                     root, parsed, nonParsed, checked>>
      /\ toCheck' = toCheck \ {o} /\ o \in toCheck /\ pc = "checkObjects"
      /\ o \in parsed \cup checked
  BY DEF SkipObject, SeenBefore
<1>2. TypeOK' /\ Locals'
  BY <1>1 DEF IInv, TypeOK, Locals
<1>3. root.kind = "body" => RootIsBody'
  <2> SUFFICES ASSUME root.kind = "body" PROVE RootIsBody'
    OBVIOUS
  <2>1. RootIsBody /\ o \in parsed \cup nonParsed
    BY <1>1 DEF IInv, RootIsBody
  <2>2. NothingForgotten'
    BY <1>1, <2>1, StartIsConstant
       DEF RootIsBody, NothingForgotten, RootTaken, Targets, Excluded
  <2> QED BY <1>1, <2>1, <2>2, StartIsConstant DEF RootIsBody
<1>4. root.kind \in {"body"}
  BY <1>1 DEF IInv, TypeOK, RootIsReference, RootIsNull, ByRef, ByBody, NullRoot
<1> QED BY <1>1, <1>2, <1>3, <1>4 DEF IInv

LEMMA CheckObjectStep ==
    ASSUME IInv, NEW o \in Obj, CheckObject(o)
    PROVE  IInv'
<1>0. /\ TypeOK /\ Locals /\ pc = "checkObjects" /\ o \in toCheck
      /\ o \notin parsed \cup checked /\ checked' = checked \cup {o}
      /\ UNCHANGED <<arrived, pc, start, answer, root>>
  BY DEF IInv, CheckObject, SeenBefore
<1>1. Chain' = Chain /\ RootBody' = RootBody
  BY <1>0, StartIsConstant
<1>2. /\ root.kind = "body" /\ root \in ByBody /\ RootIsBody
      /\ root.id # o /\ o \in Body
  <2>1. root.kind = "body" /\ root \in ByBody /\ RootIsBody
    BY <1>0 DEF IInv, TypeOK, RootIsReference, RootIsNull, ByRef, ByBody, NullRoot
  <2> QED BY <1>0, <2>1, ConstantsAssumption DEF RootIsBody, Body
<1>3. PICK bad \in ReadFaults :
        /\ CountError(bad)
        /\ IF Direct(o, Unread(bad)) = root \/ o \in Unread(bad)
           THEN /\ toCheck' = toCheck \ {o}
                /\ nonParsed' = IF Direct(o, Unread(bad)) = root
                                THEN nonParsed ELSE nonParsed \cup {o}
                /\ loaded' = loaded \cup ({o} \ Unread(bad))
                /\ UNCHANGED parsed
           ELSE /\ toCheck' = (toCheck \ {o}) \cup SubRefs(o, Unread(bad))
                /\ loaded' = loaded \cup {o} \cup TypesRead(o, Unread(bad))
                /\ IF Problem(o, Unread(bad))
                   THEN nonParsed' = nonParsed \cup {o} /\ UNCHANGED parsed
                   ELSE parsed' = parsed \cup {o} /\ UNCHANGED nonParsed
  BY DEF CheckObject
<1>4. Obj \ Unread(bad) \subseteq arrived /\ errors' \in 0..MaxErrors
  BY <1>0, <1>3, UnreadFacts
<1>5. Direct(o, Unread(bad)) # root
  BY <1>2 DEF Direct, NullRoot, ByBody
<1>6. /\ TypesRead(o, Unread(bad)) \subseteq Obj \ Unread(bad)
      /\ SubRefs(o, Unread(bad)) \subseteq Obj
  BY <1>2, TypesReadType, SubRefsType
<1>7. \A b : Targets(b, RootBody)' = Targets(b, RootBody)
  BY <1>1 DEF Targets, Excluded
<1>8. /\ toCheck \ {o} \subseteq toCheck' /\ toCheck' \subseteq Obj
      /\ nonParsed \subseteq nonParsed' /\ nonParsed' \subseteq nonParsed \cup {o}
      /\ parsed \subseteq parsed' /\ parsed' \subseteq loaded'
      /\ o \in parsed' \cup nonParsed'
      /\ loaded' \subseteq arrived
  BY <1>0, <1>3, <1>4, <1>5, <1>6 DEF TypeOK
<1>9. parsed' = parsed \/ (/\ parsed' = parsed \cup {o}
                         /\ Targets(o, RootBody) \subseteq toCheck')
  BY <1>2, <1>3, <1>5, WalkIsComplete DEF RootIsBody
<1>10. TypeOK' /\ Locals'
  BY <1>0, <1>4, <1>8 DEF TypeOK, Locals
<1>11. RootIsBody'
  <2>1. \A b \in parsed' \cup {root.id} :
          Targets(b, RootBody) \subseteq parsed' \cup nonParsed' \cup toCheck'
    <3>1. \A b \in parsed \cup {root.id} :
            Targets(b, RootBody) \subseteq parsed \cup nonParsed \cup toCheck
      BY <1>0, <1>2 DEF RootIsBody, NothingForgotten, RootTaken
    <3>2. parsed \cup nonParsed \cup toCheck
          \subseteq parsed' \cup nonParsed' \cup toCheck'
      BY <1>8
    <3> QED BY <1>9, <3>1, <3>2
  <2>2. NothingForgotten'
    BY <1>0, <1>7, <2>1 DEF NothingForgotten
  <2> QED BY <1>0, <1>1, <1>2, <1>8, <2>2 DEF RootIsBody
<1> QED BY <1>0, <1>2, <1>10, <1>11 DEF IInv

LEMMA FinishCheckStep ==
    ASSUME IInv, FinishCheck
    PROVE  IInv'
<1>0. /\ TypeOK /\ Locals /\ pc = "checkObjects" /\ toCheck = {}
      /\ UNCHANGED <<arrived, loaded, errors, start, nonParsed>>
      /\ root.kind \in {"body", "null"}
  BY DEF IInv, FinishCheck, TypeOK, RootIsReference, ByRef, ByBody, NullRoot
<1>1. Chain' = Chain /\ RootBody' = RootBody /\ Required' = Required
  BY <1>0, StartIsConstant
<1>2. CASE nonParsed = {}
  <2>1. Return("available") /\ root' = NullRoot /\ parsed' = {}
    BY <1>2 DEF FinishCheck
  <2>2. Required \subseteq loaded \cup {Inline}
    <3>1. CASE root.kind = "null"
      BY <3>1 DEF IInv, RootIsNull
    <3>2. CASE root.kind = "body"
      <4> DEFINE S == parsed \cup {root.id}
      <4>1. RootIsBody /\ root \in ByBody /\ start.id \in Body
        BY <1>0, <3>2, ConstantsAssumption
           DEF IInv, TypeOK, ByRef, ByBody, NullRoot, Body
      <4>2. S \in SUBSET Body /\ start.id \in S
        BY <1>0, <4>1, ChainFacts DEF RootIsBody, TypeOK, Body, ByBody
      <4>3. \A x \in S : Targets(x, RootBody) \subseteq S
        BY <1>0, <1>2, <4>1 DEF RootIsBody, NothingForgotten, RootTaken
      <4>4. S \subseteq loaded \cup {Inline}
        BY <1>0, <4>1 DEF RootIsBody, TypeOK
      <4> HIDE DEF S
      <4>5. Required \subseteq S
        BY <1>0, <4>2, <4>3, ClosedIsEnough DEF TypeOK
      <4> QED BY <4>4, <4>5
    <3> QED BY <1>0, <3>1, <3>2
  <2> QED BY <1>0, <1>1, <1>2, <2>1, <2>2
          DEF IInv, TypeOK, Locals, Return, RootIsNull, NullRoot
<1>3. CASE nonParsed # {}
  <2>1. Return("notAvailable") /\ UNCHANGED <<root, parsed>>
    BY <1>3 DEF FinishCheck
  <2>2. root.kind = "body" /\ RootIsBody
    BY <1>0, <1>3 DEF IInv, RootIsNull
  <2>3. TypeOK' /\ Locals'
    BY <1>0, <2>1 DEF TypeOK, Locals, Return
  <2>4. NothingForgotten'
    <3>1. \A b : Targets(b, RootBody)' = Targets(b, RootBody)
      BY <1>1 DEF Targets, Excluded
    <3>2. \A b \in parsed \cup {root.id} :
            Targets(b, RootBody) \subseteq parsed \cup nonParsed
      BY <1>0, <2>2 DEF RootIsBody, NothingForgotten, RootTaken
    <3> QED BY <1>0, <2>1, <3>1, <3>2 DEF NothingForgotten
  <2> QED BY <1>0, <1>1, <2>1, <2>2, <2>3, <2>4 DEF IInv, RootIsBody, Return
<1> QED BY <1>2, <1>3

-----------------------------------------------------------------------------
(* IInv is inductive: it holds from construction on, whatever happens.     *)
THEOREM Invariance == Spec => []IInv
<1>1. IInv /\ [Next]_vars => IInv'
  <2> SUFFICES ASSUME IInv, [Next]_vars PROVE IInv'
    OBVIOUS
  <2>1. CASE CheckAvail
    BY <2>1, CheckAvailStep
  <2>2. CASE LoadRootReference
    BY <2>2, LoadRootReferenceStep
  <2>3. CASE LoadRootBody
    BY <2>3, LoadRootBodyStep
  <2>4. CASE FinishCheck
    BY <2>4, FinishCheckStep
  <2>5. CASE \E o \in Obj : SkipObject(o) \/ CheckObject(o)
    BY <2>5, SkipObjectStep, CheckObjectStep
  <2>6. CASE \E o \in Obj : Download(o) \/ LoadElsewhere(o)
    BY <2>6, EnvironmentStep
  <2>7. CASE UNCHANGED vars
    BY <2>7, StartIsConstant
       DEF vars, callVars, IInv, TypeOK, Locals, RootIsReference, RootIsBody,
           RootIsNull, NothingForgotten, RootTaken, Targets, Excluded
  <2> QED BY <2>1, <2>2, <2>3, <2>4, <2>5, <2>6, <2>7 DEF Next, Step
<1> QED BY InitInv, <1>1, PTL DEF Spec

(* The types of CPDF_ObjectAvail's members and of a call's locals; what is *)
(* parsed is in memory, and what is in memory was downloaded.              *)
THEOREM TypeCorrect == Spec => []TypeOK
BY Invariance, PTL DEF IInv

(* CheckAvail answers "available" only when everything a renderer reaches  *)
(* from the root is in the document's memory: for every document, root and *)
(* schedule of downloads, polls and failing reads.                         *)
THEOREM AvailableTheorem == Spec => []AvailableIsComplete
<1>1. IInv => AvailableIsComplete
  BY DEF IInv, RootIsNull, AvailableIsComplete
<1> QED BY <1>1, Invariance, PTL

-----------------------------------------------------------------------------
(* CPDF_ObjectAvail implements a check that can be polled: what is missing *)
(* only shrinks, calls answer, and "available" is never taken back.        *)
THEOREM Implementation == Spec => ImplementsCheck
<1> DEFINE missing == Required \ (loaded \cup {Inline})
           busy == pc # "idle"
<1>1. Init => Check!Init
  BY DEF Init, Check!Init
<1>2. IInv /\ IInv' /\ [Next]_vars => [Check!Next]_Check!vars
  <2> SUFFICES ASSUME IInv, IInv', [Next]_vars
               PROVE  [Check!Next]_Check!vars
    OBVIOUS
  <2>1. start' = start => Required' = Required
    BY StartIsConstant
  <2>2. answer = "available" => root = NullRoot /\ nonParsed = {} /\ toCheck = {}
    BY DEF IInv, TypeOK, ByRef, ByBody, RootIsNull
  <2>3. answer' = "available" => missing' = {}
    BY DEF IInv, RootIsNull
  <2>4. CASE CheckAvail
    <3>1. /\ ~busy /\ busy' = TRUE
          /\ UNCHANGED <<start, loaded, answer>>
      BY <2>4 DEF CheckAvail
    <3> QED BY <3>1, <2>1 DEF Check!Next, Check!Call
  <2>5. CASE \E o \in Obj : Download(o) \/ LoadElsewhere(o)
    <3>1. UNCHANGED <<pc, start, answer>> /\ loaded \subseteq loaded'
      BY <2>5 DEF Download, LoadElsewhere
    <3> QED BY <3>1, <2>1 DEF Check!Next, Check!Arrive
  <2>6. CASE LoadRootReference
    <3>1. busy /\ start' = start /\ loaded \subseteq loaded' /\ answer # "available"
      BY <2>2, <2>6 DEF LoadRootReference, NullRoot
    <3>2. CASE root.id \in parsed
      <4>1. pc' = "checkObjects" /\ answer' = answer
        BY <2>6, <3>2 DEF LoadRootReference
      <4> QED BY <3>1, <4>1, <2>1 DEF Check!Next, Check!Arrive
    <3>3. CASE root.id \notin parsed
      <4>1. \/ Return("notAvailable")
            \/ UNCHANGED <<pc, answer>>
        BY <2>6, <3>3 DEF LoadRootReference
      <4> QED BY <3>1, <4>1, <2>1
              DEF Return, Check!Next, Check!Arrive, Check!Answer
    <3> QED BY <3>2, <3>3
  <2>7. CASE LoadRootBody
    <3>1. busy /\ start' = start /\ loaded \subseteq loaded'
      BY <2>7 DEF LoadRootBody
    <3>2. \/ UNCHANGED answer /\ busy' = busy
          \/ /\ answer' = "notAvailable" /\ busy' = FALSE
             /\ root.kind # "null"
      BY <2>7 DEF LoadRootBody, Return
    <3> QED BY <3>1, <3>2, <2>1, <2>2
            DEF Check!Next, Check!Arrive, Check!Answer, NullRoot
  <2>8. CASE \E o \in Obj : SkipObject(o) \/ CheckObject(o)
    <3>1. UNCHANGED <<pc, start, answer>> /\ loaded \subseteq loaded'
      BY <2>8 DEF SkipObject, CheckObject
    <3> QED BY <3>1, <2>1 DEF Check!Next, Check!Arrive
  <2>9. CASE FinishCheck
    <3>1. busy /\ busy' = FALSE /\ UNCHANGED <<start, loaded>>
      BY <2>9 DEF FinishCheck, Return
    <3>2. answer = "available" => answer' = "available"
      BY <2>2, <2>9 DEF FinishCheck, Return
    <3> QED BY <3>1, <3>2, <2>1, <2>3 DEF Check!Next, Check!Answer
  <2>10. CASE UNCHANGED vars
    BY <2>1, <2>10 DEF vars, Check!vars
  <2> QED BY <2>4, <2>5, <2>6, <2>7, <2>8, <2>9, <2>10 DEF Next, Step
<1> QED BY <1>1, <1>2, Invariance, PTL DEF Spec, ImplementsCheck, Check!Spec
=============================================================================
