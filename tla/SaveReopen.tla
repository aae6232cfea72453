----------------------------- MODULE SaveReopen -----------------------------
(***************************************************************************)
(* A document that is opened (CrossRefLoad), edited through its objects    *)
(* (CPDF_IndirectObjectHolder), saved as a whole or incrementally          *)
(* (CPDF_Creator) and opened again from the copy, which may be cut short.  *)
(***************************************************************************)
EXTENDS CrossRefLoad

CONSTANTS
    Files,      \* the files that may be opened first, ...
    OnceFiles,  \* ... and those of which one copy less is made
    Opening, Failed,   \* see Document
    MaxEdits,   \* bound on the edits between two openings
    MaxSaves    \* bound on the copies made

(* Numbers have a limit in the code; a first file may count as one copy.   *)
ASSUME SaveAssumption ==
    /\ MaxEdits \in Nat /\ MaxSaves \in Nat \ {0}
    /\ IsFiniteSet(ObjNums)
    /\ \A bytes \in Files \cup OnceFiles : IsFile(bytes)
    /\ \A S \in SUBSET ObjNums :
         Opening \notin [S -> Value \cup {Null}] /\ Failed \notin [S -> Value \cup {Null}]

VARIABLES
    lastObj,    \* last_obj_num_ of the holder
    copy,       \* the last copy, <<>> when there is none
    base,       \* what the document showed when it was opened (history)
    promise,    \* what the copy is to show (history)
    edits, saves

docVars == <<mem, lastObj, copy, base, promise, edits, saves>>
vars    == <<file, loadVars, docVars>>

ParserLast == IF DOMAIN table = {} THEN 0
              ELSE CHOOSE n \in DOMAIN table : \A m \in DOMAIN table : m <= n

InUse == mem[trailer.root].uses

(* What the document shows: objects in memory hide those of the file.      *)
View == [n \in InUse \ {trailer.root} |-> Got(n)]

IsFree(n) == n \notin DOMAIN table \/ table[n].type = "free"
-----------------------------------------------------------------------------
(* Objects of an open document.                                            *)

Init ==
    /\ \/ file \in Files /\ saves = 0
       \/ file \in OnceFiles /\ saves = 1
    /\ FreshParser
    /\ lastObj = 0
    /\ copy = <<>> /\ base = Opening /\ promise = [kind |-> "any"]
    /\ edits = 0

(* In an open document numbers are given out after the parser's last one.  *)
Load ==
    /\ LoadStep
    /\ UNCHANGED <<copy, promise, edits, saves>>
    /\ IF pc' = "open"
       THEN lastObj' = ParserLast /\ base' = View'
       ELSE UNCHANGED <<lastObj, base>>

(* GetOrParseIndirectObject of an object the document refers to.           *)
Read(n) ==
    /\ pc = "open" /\ n \notin DOMAIN mem /\ Parse(n) # Null
    /\ Hold({n})
    /\ UNCHANGED <<file, pc, table, trailer, resultVars, handler, chainVars,
                   jobVars, scan, retried, lastObj, copy, base, promise, edits,
                   saves>>

Edited(newMem) ==
    /\ pc = "open" /\ edits < MaxEdits
    /\ mem' = newMem
    /\ edits' = edits + 1
    /\ UNCHANGED <<file, loadVars, copy, base, promise, saves>>

(* The catalog and the encryption dictionary are not given values.  The    *)
(* root of the page tree loses its pages with one that is not Paged.       *)
SetValue(n, v) ==
    /\ n \in DOMAIN mem \ {trailer.root, trailer.enc} /\ mem[n] # v
    /\ Edited([mem EXCEPT ![n] = v])
    /\ UNCHANGED lastObj

(* AddIndirectObject, and the reference to the new object.                 *)
AddIndirectObject(v) ==
    /\ lastObj + 1 \in ObjNums
    /\ Edited([m \in DOMAIN mem \cup {lastObj + 1} |->
                 IF m = lastObj + 1 THEN v
                 ELSE IF m = trailer.root
                      THEN [mem[m] EXCEPT !.uses = @ \cup {lastObj + 1}]
                 ELSE mem[m]])
    /\ lastObj' = lastObj + 1

(* The document no longer refers to n.  /Pages of the catalog stays.       *)
Drop(n) ==
    /\ n # PagesRoot
    /\ Edited([mem EXCEPT ![trailer.root].uses = @ \ {n}])
    /\ UNCHANGED lastObj

(* What is deleted is the object in memory: the one of the file is back.   *)
DeleteIndirectObject(n) ==
    /\ n \in DOMAIN mem \ {trailer.root, trailer.enc}
    /\ Edited([m \in DOMAIN mem \ {n} |-> mem[m]])
    /\ UNCHANGED lastObj
-----------------------------------------------------------------------------
(* CPDF_Creator.                                                           *)

Sorted(S) == [i \in 1..Cardinality(S) |->
                CHOOSE n \in S : Cardinality({m \in S : m < n}) = i - 1]
MaxOf(S) == IF S = {} THEN 0 ELSE CHOOSE n \in S : \A m \in S : m <= n

Written(n, crypt) ==
    [kind |-> "obj", num |-> n, gen |-> 0, val |-> Got(n),
     locked |-> crypt /\ Got(n) # EncDict]

NormalEntry(p) == [type |-> "normal", gen |-> 0, pos |-> p, archive |-> 0]

(* The objects ns written after `len` items: where each one is.            *)
OffsetsAfter(ns, len) ==           \* fault: where each one ends
    [n \in {ns[i] : i \in DOMAIN ns} |->
       len + 1 + CHOOSE i \in DOMAIN ns : ns[i] = n]
Offsets(ns, len) == [n \in {ns[i] : i \in DOMAIN ns} |->
                       len + CHOOSE i \in DOMAIN ns : ns[i] = n]
Entries(offsets) == [n \in DOMAIN offsets |-> NormalEntry(offsets[n])]

(* An encryption dictionary without a number is written as an object.      *)
EncItem(n) == [kind |-> "obj", num |-> n, gen |-> 0, val |-> EncDict,
               locked |-> FALSE]
InlineEnc(crypt) == crypt /\ trailer.enc < 0

(* The number the new trailer gives it is the one after the last number of *)
(* the document.                                                           *)
EncNumber(crypt) == IF ~crypt THEN 0
                    ELSE IF trailer.enc < 0 THEN lastObj + 1 ELSE trailer.enc

StartXRefItem(p) == [kind |-> "startxref", pos |-> p]

(* GetObjectsWithReferences reads every object the document refers to; the *)
(* cross-reference stream whose dictionary is the trailer is referred to   *)
(* whether it is there or not.                                             *)
Present == {n \in InUse \cup {trailer.root, trailer.enc} : Got(n) # Null}
Referenced == Present \cup ({trailer.num} \ {0})

(* InitNewObjNumOffsets of a full save.                                    *)
NewObjs == {n \in DOMAIN mem : IsFree(n)}
OldObjs == {n \in Referenced : n <= ParserLast}

(* The number leads to a cross-reference stream, which is written as any   *)
(* object is: the next rebuild takes its dictionary for a trailer again.   *)
(* An object stream that has taken its number is left out.                 *)
IsOldSection(n) ==
    /\ ~IsFree(n) /\ Got(n) = Null
    /\ Is(table[n].pos, "stream") /\ At(table[n].pos).num = n

(* Without new objects the last number is that of the last object written, *)
(* or looked at in vain.                                                   *)
FullLastWritten == MaxOf(OldObjs)    \* fault: new objects are not counted
FullLast == IF NewObjs = {} THEN MaxOf(OldObjs) ELSE lastObj

(* WriteOldIndirectObject.                                                 *)
OldWritten == {n \in OldObjs : ~IsFree(n) /\ (Got(n) # Null \/ IsOldSection(n))}
WrittenAgain(n, crypt) ==
    IF Got(n) # Null THEN Written(n, crypt)
    ELSE [At(table[n].pos) EXCEPT !.gen = 0]

FullCopy(crypt) ==
    LET ns == Sorted(OldWritten) \o Sorted(NewObjs)
        withEnc == IF InlineEnc(crypt) THEN Append(ns, FullLast + 1) ELSE ns
        last == IF InlineEnc(crypt) THEN FullLast + 1 ELSE FullLast
        objs == [i \in DOMAIN withEnc |->
                   IF i \in DOMAIN ns THEN WrittenAgain(ns[i], crypt)
                   ELSE EncItem(withEnc[i])]
        offsets == Offsets(withEnc, 0)
        listed == [n \in {m \in DOMAIN offsets : m <= last} |-> offsets[n]]
        xref == [kind |-> "table", entries |-> Entries(listed),
                 trailer |-> [root |-> trailer.root, size |-> last + 1,
                              prev |-> 0, xrefstm |-> 0,
                              enc |-> EncNumber(crypt), num |-> 0]]
    IN  objs \o <<xref, StartXRefItem(Len(objs) + 1)>>

(* Where the objects of the file are, when it has no usable last section.  *)
OldOffsets ==
    [n \in {m \in DOMAIN table : ~IsFree(m) /\ lastXRef = 0} |-> table[n].pos]

IncrementalCopy ==
    LET crypt == handler
        ns == Sorted(DOMAIN mem)
        withEnc == IF InlineEnc(crypt) THEN Append(ns, lastObj + 1) ELSE ns
        last == IF InlineEnc(crypt) THEN lastObj + 1 ELSE lastObj
        objs == [i \in DOMAIN withEnc |->
                   IF i \in DOMAIN ns THEN Written(ns[i], crypt)
                   ELSE EncItem(withEnc[i])]
        new == Offsets(withEnc, Len(file))
        all == [n \in DOMAIN OldOffsets \cup DOMAIN new |->
                  IF n \in DOMAIN new THEN new[n] ELSE OldOffsets[n]]
        listed == IF lastXRef # 0 THEN new
                  ELSE [n \in {m \in DOMAIN all :
                          IF xrefStream THEN m < last ELSE m <= last} |-> all[n]]
        xref == [kind |-> IF xrefStream THEN "stream" ELSE "table",
                 num |-> lastObj + 1, gen |-> 0, ok |-> TRUE, typed |-> FALSE,
                 entries |-> Entries(listed),
                 trailer |-> [root |-> trailer.root,
                              size |-> last + (IF xrefStream THEN 2 ELSE 1),
                              prev |-> lastXRef, xrefstm |-> 0,
                              enc |-> EncNumber(crypt),
                              num |-> IF xrefStream THEN lastObj + 1 ELSE 0]]
    IN  file \o objs \o <<xref, StartXRefItem(Len(file) + Len(objs) + 1)>>
-----------------------------------------------------------------------------
(* Copies that the code does not keep whole; see the README.               *)

(* An object whose entry has a generation: the new entry has none.         *)
GenerationLost == \E n \in DOMAIN mem : /\ InfoOf(table, n).gen > 0
                                        /\ mem[n] # Parse(n)

(* A rebuilt table lists archived objects, which have no position.         *)
ArchivedLost == lastXRef = 0 /\ \E n \in InUse \ DOMAIN mem :
                                  InfoOf(table, n).type = "compressed"

(* The table was rebuilt for the catalog but the old sections are kept.    *)
ChainKept == retried

(* The encryption dictionary is not written with the number it is given.   *)
EncLost == InlineEnc(handler) /\ FullLast # lastObj

(* The number it is given is one the document refers to but does not have, *)
(* or one beyond those that the parser takes.                              *)
EncNumberTaken ==
    /\ InlineEnc(handler)
    /\ lastObj + 1 \in InUse \/ lastObj + 1 \notin ObjNums

(* A rebuild that has to find the objects in archives meets a locked one.  *)
ArchivesHidden == \E p \in DOMAIN file : Is(p, "objstm") /\ At(p).locked

(* Objects cut short in the bytes: a rebuilt table may have them for good. *)
TornIn(bytes) == {bytes[p].num : p \in {q \in DOMAIN bytes : bytes[q].kind = "torn"}}
OpeningNeeds == {trailer.root, trailer.enc, PagesRoot}

(* The file was cut before: with more behind it, its "startxref" may not be *)
(* found any more, and what the first cut appended comes to light.         *)
CutBefore == Cardinality(StartXRef) > 1

(* What is shown has no pages: an opened copy of it is rebuilt, ...        *)
HasPagesIn(shown) ==
    HasPages(IF PagesRoot \in DOMAIN shown THEN shown[PagesRoot]
             ELSE Got(PagesRoot))

(* ... and a rebuild finds an old cross-reference stream that names an     *)
(* encryption dictionary where the trailer that is used does not.          *)
StaleEncrypt(bytes, enc) ==
    enc = 0 /\ \E p \in DOMAIN bytes : /\ IsTrailer(bytes[p])
                                       /\ bytes[p].trailer.enc # 0

PartsLost == \/ ArchivesHidden \/ CutBefore
             \/ TornIn(copy') \cap OpeningNeeds # {}
             \/ StaleEncrypt(file, trailer.enc)
CutLost == PartsLost \/ ~HasPagesIn(base) \/ ~HasPagesIn(View)

InParts == [kind |-> "cut", old |-> base, new |-> View, cut |-> TornIn(copy')]

Copied(bytes, kind) ==
    /\ copy' = bytes
    /\ promise' = [kind |-> kind, new |-> View, paged |-> HasPagesIn(View)]

FullLost(crypt) ==
    \/ crypt /\ (EncLost \/ EncNumberTaken)
    \/ ~HasPagesIn(View) /\ StaleEncrypt(FullCopy(crypt), EncNumber(crypt))

SaveFull ==
    /\ pc = "open" /\ saves < MaxSaves
    /\ \E crypt \in {handler, FALSE} :
         Copied(FullCopy(crypt), IF FullLost(crypt) THEN "lost" ELSE "full")
    /\ mem' = Holding(InUse)
    /\ streamMap' = StreamsAfter(((InUse \cup {trailer.num}) \cap ObjNums)
                                   \ DOMAIN mem)
    /\ saves' = saves + 1
    /\ UNCHANGED <<file, pc, table, trailer, resultVars, handler, chainVars,
                   jobVars, scan, retried, lastObj, base, edits>>

SaveIncremental ==
    /\ pc = "open" /\ saves < MaxSaves
    /\ IF HasPagesIn(View)
       THEN Copied(IncrementalCopy, IF GenerationLost \/ ArchivedLost
                                       \/ ChainKept \/ EncNumberTaken
                                    THEN "lost" ELSE "update")
       ELSE /\ copy' = IncrementalCopy
            /\ promise' = IF PartsLost THEN [kind |-> "any"] ELSE InParts
    /\ saves' = saves + 1
    /\ UNCHANGED <<file, loadVars, mem, lastObj, base, edits>>

(* Writing stops after the original, maybe in the middle of an object.     *)
SaveCut ==
    /\ pc = "open" /\ saves < MaxSaves
    /\ \E k \in Len(file)..(Len(IncrementalCopy) - 1), torn \in BOOLEAN :
         LET item == IncrementalCopy[k + 1]
             half == IF torn /\ item.kind = "obj"
                     THEN <<[kind |-> "torn", num |-> item.num, gen |-> 0]>>
                     ELSE <<>>
         IN  /\ torn => item.kind = "obj"
             /\ copy' = SubSeq(IncrementalCopy, 1, k) \o half
             /\ promise' = IF CutLost THEN [kind |-> "any"]
                           ELSE InParts
    /\ saves' = saves + 1
    /\ UNCHANGED <<file, loadVars, mem, lastObj, base, edits>>

Reopen ==
    /\ pc = "open" /\ copy # <<>>
    /\ file' = copy
    /\ NewParser
    /\ lastObj' = 0
    /\ copy' = <<>> /\ base' = Opening /\ edits' = 0
    /\ UNCHANGED <<promise, saves>>

Next ==
    \/ Load
    \/ \E n \in ObjNums : \/ pc = "open" /\ n \in InUse /\ Read(n)
                          \/ pc = "open" /\ n \in InUse /\ Drop(n)
                          \/ pc = "open" /\ DeleteIndirectObject(n)
                          \/ \E v \in Data : /\ pc = "open" /\ n \in InUse
                                             /\ SetValue(n, v)
    \/ \E v \in Data : pc = "open" /\ AddIndirectObject(v)
    \/ SaveFull \/ SaveIncremental \/ SaveCut \/ Reopen

Spec == Init /\ [][Next]_vars
-----------------------------------------------------------------------------
(* Types of the variables.                                                 *)
TypeOK ==
    /\ FileOK /\ IsFile(copy)
    /\ pc \in Steps /\ next \in Steps \cup {"none"}
    /\ DOMAIN table \subseteq Nat /\ trailer \in Trailer
    /\ \A n \in DOMAIN table : table[n] \in ObjectInfo
    /\ {lastXRef, prev, sec, idx, lastObj} \subseteq Nat
    /\ {xrefStream, rebuilt, handler, retried} \subseteq BOOLEAN
    /\ \A n \in DOMAIN mem : n \in ObjNums /\ mem[n] \in Value
    /\ pc = "open" => trailer.root \in DOMAIN mem /\ IsCatalog(mem[trailer.root])
    /\ edits \in 0..MaxEdits /\ saves \in 0..MaxSaves

(* Opening, editing, saving and opening again implement a document whose   *)
(* content only edits change.                                              *)
Content == IF pc = "open" THEN View
           ELSE IF pc = "failed" THEN Failed ELSE Opening
Doc == INSTANCE Document WITH Missing <- Null, content <- Content
Implements == Doc!Spec

(* What the steps of an open document come to, whichever file it is.       *)
OnlyEditsChange ==
    [][ pc = "open" => \/ Doc!Edit \/ Doc!Save \/ Doc!Reopen
                       \/ UNCHANGED <<Content, promise>> ]_vars

(* A full copy of a document that has pages is loaded without a rebuild,   *)
(* is never refused, and then shows what the one that was saved did: every *)
(* object that was read, changed or added, encrypted or not, and nothing   *)
(* else.  (A copy of one without pages is rebuilt first: see Implements.)  *)
FullCopyOpens ==
    [][ (pc # "open" /\ promise.kind = "full" /\ promise.paged)
          => /\ pc' \notin {"scan", "failed"}
             /\ pc' = "open" => View' = promise.new ]_vars

(* fpdf_save_embeddertest.cpp: what was changed is visible in the document *)
(* opened from a copy that was saved to its end.                           *)
CopyOpensAsSaved ==
    [][ (pc = "root" /\ pc' = "open" /\ promise.kind \in {"full", "update", "lost"})
          => base' = promise.new ]_vars
=============================================================================
