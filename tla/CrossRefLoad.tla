---------------------------- MODULE CrossRefLoad ----------------------------
(***************************************************************************)
(* CPDF_Parser::StartParse and what it calls: finding the cross-reference  *)
(* sections of a file from the last one back, loading them from the oldest *)
(* to the newest, rebuilding the table by a scan of the file when that     *)
(* fails, and looking for the catalog with the result.                     *)
(*                                                                         *)
(* A file is the sequence of the things the parser can find in it, and a   *)
(* position is an index into it: objects, object streams, cross-reference  *)
(* tables (with their trailers) and streams, "startxref" lines, and an     *)
(* object cut off in the middle.  A catalog's value names the root of the  *)
(* page tree (/Pages, 0 where there is none) and the objects the document  *)
(* uses; any other value is opaque.                                        *)
(***************************************************************************)
EXTENDS CrossRefTable, FiniteSets, Sequences

CONSTANTS
    ObjNums,    \* object numbers in use
    Data,       \* values of objects
    Paged,      \* those that have pages, as the root of the page tree
    Null,       \* the null pointer
    EncDict,    \* an encryption dictionary
    Garbled     \* data read with the wrong key, or none

ASSUME LoadAssumption ==
    /\ ObjNums \subseteq Nat \ {0}
    /\ Paged \subseteq Data
    /\ Null \notin Data /\ Garbled \notin Data /\ EncDict \notin Data
    /\ Null # Garbled /\ Null # EncDict /\ Garbled # EncDict

Catalog == { c \in [pages : ObjNums \cup {0}, uses : SUBSET ObjNums] :
               c.pages \in c.uses \cup {0} }

(* A catalog is told from every other value.                               *)
ASSUME CatalogAssumption ==
    \A c \in Catalog : c \notin Data \cup {Null, Garbled, EncDict}

VARIABLES
    file,        \* the bytes: a sequence of items
    pc,          \* where StartParse is
    table,       \* cross_ref_table_ : objects_info_
    trailer,     \* cross_ref_table_ : trailer_
    lastXRef,    \* last_xref_offset_
    xrefStream,  \* xref_stream_
    rebuilt,     \* xref_table_rebuilt_
    handler,     \* security_handler_ is there
    streamMap,   \* object_stream_map_: the position of the stream, 0 for one
                 \* that gives nothing
    mem,         \* indirect_objs_ of the document
    xrefList,    \* xref_list
    streamList,  \* xref_stream_list
    prev,        \* xref_offset of the search
    seen,        \* seen_xref_offset
    sec, todo, next,   \* section being read, its entries left, where to go on
    idx,         \* index of the section the second pass is at
    scan,        \* position of the scan, with the table and trailer it makes
    retried      \* the catalog was not found and the table was rebuilt for it

chainVars  == <<xrefList, streamList, prev, seen>>
jobVars    == <<sec, todo, next, idx>>
resultVars == <<lastXRef, xrefStream, rebuilt>>
loadVars   == <<pc, table, trailer, resultVars, handler, streamMap,
                chainVars, jobVars, scan, retried>>

Junk == [kind |-> "junk"]
At(p) == IF p \in DOMAIN file THEN file[p] ELSE Junk

Is(p, kind) == At(p).kind = kind

Value == Data \cup {EncDict, Garbled} \cup Catalog

(* The entries of a section.  Where a free one leads to is left out.       *)
Entry ==
    [type : {"free"}, gen : Nat, pos : {0}, archive : {0}]
      \cup [type : {"normal"}, gen : Nat, pos : Nat, archive : {0}]
      \cup [type : {"compressed"}, gen : {0}, pos : {0}, archive : Nat]

Numbered == {"obj", "objstm", "stream", "torn"}

(* The things the parser can find in a file.                               *)
IsItem(item) ==
    /\ item.kind \in {"junk", "startxref", "table"} \cup Numbered
    /\ item.kind = "startxref" => item.pos \in Nat
    /\ item.kind \in Numbered => item.num \in Nat /\ item.gen \in Nat
    /\ item.kind = "obj" => item.val \in Value
    /\ item.kind \in {"obj", "objstm"} => item.locked \in BOOLEAN
    /\ item.kind = "objstm" =>
         /\ DOMAIN item.members \subseteq Nat
         /\ IsFiniteSet(DOMAIN item.members)
         /\ \A n \in DOMAIN item.members : item.members[n] \in Value
    /\ item.kind \in {"table", "stream"} =>
         /\ item.trailer \in Trailer
         /\ IF item.kind = "stream"
            THEN /\ {item.ok, item.typed} \subseteq BOOLEAN
                 /\ item.trailer.num = item.num
            ELSE item.trailer.num = 0
         /\ DOMAIN item.entries \subseteq Nat
         /\ IsFiniteSet(DOMAIN item.entries)
         /\ \A n \in DOMAIN item.entries :
              /\ item.entries[n] \in Entry
              /\ item.kind = "table" => item.entries[n].type # "compressed"

(* What is taken for granted of the bytes of a file.                       *)
IsFile(bytes) ==
    /\ bytes \in Seq({bytes[p] : p \in DOMAIN bytes})
    /\ \A p \in DOMAIN bytes : IsItem(bytes[p])
FileOK == IsFile(file)

IsLeast(n, S) == n \in S /\ \A m \in S : n <= m

NoScan == [pos |-> 0, table |-> EmptyInfo, trailer |-> NoTrailer]
-----------------------------------------------------------------------------
(* Reading an object: ParseIndirectObject, GetObjectStream.                *)

(* Strings and streams are encrypted, which the page tree has not.         *)
Decrypted(item, val) ==
    IF val \in Data \ Paged /\ item.locked # handler THEN Garbled ELSE val

ObjectAt(p, n) ==
    IF Is(p, "obj") /\ At(p).num = n THEN Decrypted(At(p), At(p).val)
    ELSE Null

(* The streams read so far are kept by number, whatever the table says.    *)
ObjectStreamPos(a) ==
    LET info == InfoOf(table, a)
    IN  IF a \in DOMAIN streamMap THEN streamMap[a]
        ELSE IF /\ info.stm /\ info.type = "normal"
                /\ Is(info.pos, "objstm") /\ At(info.pos).num = a
                /\ At(info.pos).locked = handler
        THEN info.pos ELSE 0

MemberOf(p, n) ==
    IF p # 0 /\ n \in DOMAIN At(p).members THEN At(p).members[n] ELSE Null

Parse(n) ==
    LET info == InfoOf(table, n)
    IN  IF n \notin DOMAIN table \/ info.type = "free" THEN Null
        ELSE IF info.type = "normal" THEN ObjectAt(info.pos, n)
        ELSE MemberOf(ObjectStreamPos(info.archive), n)

(* object_stream_map_ once the objects ns have been parsed.                *)
StreamsAfter(ns) ==
    LET new == {table[n].archive :
                  n \in {m \in ns \cap DOMAIN table :
                           table[m].type = "compressed"}}
        read == {a \in new \ DOMAIN streamMap :
                   /\ InfoOf(table, a).stm
                   /\ InfoOf(table, a).type = "normal"
                   /\ At(InfoOf(table, a).pos).kind \in {"obj", "objstm"}
                   /\ At(InfoOf(table, a).pos).num = a}
    IN  [a \in DOMAIN streamMap \cup read |-> ObjectStreamPos(a)]

(* GetOrParseIndirectObject: an object is parsed once, and kept in memory. *)
Got(n) == IF n \in DOMAIN mem THEN mem[n]
          ELSE IF n \in ObjNums THEN Parse(n) ELSE Null

Holding(ns) == [n \in DOMAIN mem \cup {m \in ns : Got(m) # Null} |-> Got(n)]

Hold(ns) ==
    /\ mem' = Holding(ns)
    /\ streamMap' = StreamsAfter((ns \cap ObjNums) \ DOMAIN mem)
-----------------------------------------------------------------------------
(* Reading the entries of a section, one at a time in their order.         *)

(* A table's free entry has no generation by the time it is merged.        *)
MergeTableEntry(t, n, e) ==
    IF e.type = "normal" THEN AddNormal(t, n, e.gen, e.pos) ELSE t

ProcessCrossRefStreamEntry(t, n, e) ==
    CASE e.type = "free"   -> SetFree(t, n, e.gen)
      [] e.type = "normal" -> AddNormal(t, n, e.gen, e.pos)
      [] OTHER -> IF IsValidObjectNumber(t, e.archive)
                  THEN AddCompressed(t, n, e.archive) ELSE t

Merged(t, n, p) ==
    IF Is(p, "table") THEN MergeTableEntry(t, n, At(p).entries[n])
    ELSE ProcessCrossRefStreamEntry(t, n, At(p).entries[n])

StartEntries(p, then) ==
    /\ pc' = "entries"
    /\ sec' = p
    /\ todo' = DOMAIN At(p).entries
    /\ next' = then

(* A segment of a stream's /Index, a run of consecutive numbers: the table *)
(* grows to its end before the first of them is read.                      *)
SegmentEnd(p, n) ==
    1 + CHOOSE m \in DOMAIN At(p).entries :
          /\ n <= m /\ n .. m \subseteq DOMAIN At(p).entries
          /\ m + 1 \notin DOMAIN At(p).entries

Grown(t, size) ==
    IF IsValidObjectNumber(t, size - 1) THEN t ELSE SetObjectMapSize(t, size)

WithSize(t, n, p) == IF Is(p, "stream") THEN Grown(t, SegmentEnd(p, n)) ELSE t

ReadEntry ==
    /\ pc = "entries" /\ todo # {}
    /\ \E n \in todo :
         /\ IsLeast(n, todo)
         /\ table' = Merged(WithSize(table, n, sec), n, sec)
         /\ todo' = todo \ {n}
    /\ UNCHANGED <<file, pc, trailer, resultVars, handler, streamMap, mem,
                   chainVars, sec, next, idx, scan, retried>>

EntriesRead ==
    /\ pc = "entries" /\ todo = {}
    /\ pc' = next
    /\ UNCHANGED <<file, table, trailer, resultVars, handler, streamMap, mem,
                   chainVars, jobVars, scan, retried>>

(* LoadCrossRefStream up to its loop.  The trailer is merged, or the table *)
(* replaced, before the stream's /W is looked at.                          *)
LoadMainStream(p) ==
    /\ table' = SetObjectMapSize(EmptyInfo, At(p).trailer.size)
    /\ trailer' = At(p).trailer

LoadOlderStream(p) ==
    /\ trailer' = UpdateTrailer(At(p).trailer, trailer)
    /\ UNCHANGED table

(* RebuildCrossRef is entered with an empty table of its own.              *)
StartRebuild ==
    /\ pc' = "scan"
    /\ scan' = [NoScan EXCEPT !.pos = 1]
-----------------------------------------------------------------------------
(* StartParseInternal.  "startxref" is looked for in the last 4096 bytes:  *)
(* one that the file does not end with may be farther away.                *)
StartXRef ==
    LET S == {p \in DOMAIN file : Is(p, "startxref")}
        p == CHOOSE q \in S : \A r \in S : r <= q
    IN  IF S = {} THEN {0}
        ELSE IF p = Len(file) THEN {At(p).pos}
        ELSE {0, At(p).pos}

StartParse ==
    /\ pc = "start"
    /\ \E off \in StartXRef :
         /\ lastXRef' = off
         /\ IF off > 0 THEN pc' = "main" /\ UNCHANGED scan ELSE StartRebuild
    /\ UNCHANGED <<file, table, trailer, xrefStream, rebuilt, handler,
                   streamMap, mem, chainVars, jobVars, retried>>

(* LoadAllCrossRefTablesAndStreams, the newest section.                    *)
MainTable ==
    /\ pc = "main" /\ Is(lastXRef, "table")
    /\ LET tr == At(lastXRef).trailer
       IN  /\ trailer' = tr
           /\ table' = IF tr.size > 0 THEN SetObjectMapSize(table, tr.size)
                       ELSE table
           /\ xrefList' = <<lastXRef>>
           /\ streamList' = <<tr.xrefstm>>
           /\ prev' = tr.prev
    /\ seen' = {lastXRef}
    /\ pc' = "find"
    /\ UNCHANGED <<file, resultVars, handler, streamMap, mem, jobVars, scan,
                   retried>>

MainStream ==
    /\ pc = "main" /\ Is(lastXRef, "stream")
    /\ LoadMainStream(lastXRef)
    /\ IF At(lastXRef).ok
       THEN /\ xrefList' = <<0>>
            /\ streamList' = <<lastXRef>>
            /\ prev' = At(lastXRef).trailer.prev
            /\ seen' = {lastXRef}
            /\ StartEntries(lastXRef, "find")
            /\ UNCHANGED <<idx, scan>>
       ELSE StartRebuild /\ UNCHANGED <<chainVars, jobVars>>
    /\ UNCHANGED <<file, resultVars, handler, streamMap, mem, retried>>

MainFails ==
    /\ pc = "main" /\ At(lastXRef).kind \notin {"table", "stream"}
    /\ StartRebuild
    /\ UNCHANGED <<file, table, trailer, resultVars, handler, streamMap, mem,
                   chainVars, jobVars, retried>>

(* FindAllCrossReferenceTablesAndStream: one turn of its loop.             *)
NeverCircular == FALSE               \* fault: sections are not remembered
Circular == prev \in seen

FindTable ==
    /\ pc = "find" /\ prev > 0 /\ ~Circular /\ Is(prev, "table")
    /\ trailer' = UpdateTrailer(At(prev).trailer, trailer)
    /\ xrefList' = <<prev>> \o xrefList
    /\ streamList' = <<At(prev).trailer.xrefstm>> \o streamList
    /\ seen' = seen \cup {prev}
    /\ prev' = At(prev).trailer.prev
    /\ UNCHANGED <<file, pc, table, resultVars, handler, streamMap, mem,
                   jobVars, scan, retried>>

FindStream ==
    /\ pc = "find" /\ prev > 0 /\ ~Circular /\ Is(prev, "stream")
    /\ LoadOlderStream(prev)
    /\ IF At(prev).ok
       THEN /\ xrefList' = <<0>> \o xrefList
            /\ streamList' = <<prev>> \o streamList
            /\ seen' = seen \cup {prev}
            /\ prev' = At(prev).trailer.prev
            /\ StartEntries(prev, "find")
            /\ UNCHANGED <<idx, scan>>
       ELSE StartRebuild /\ UNCHANGED <<chainVars, jobVars>>
    /\ UNCHANGED <<file, resultVars, handler, streamMap, mem, retried>>

FindFails ==
    /\ pc = "find" /\ prev > 0
    /\ Circular \/ At(prev).kind \notin {"table", "stream"}
    /\ StartRebuild
    /\ UNCHANGED <<file, table, trailer, resultVars, handler, streamMap, mem,
                   chainVars, jobVars, retried>>

FindEnds ==
    /\ pc = "find" /\ prev = 0
    /\ pc' = "front"
    /\ UNCHANGED <<file, table, trailer, resultVars, handler, streamMap, mem,
                   chainVars, jobVars, scan, retried>>

(* The second pass, from the oldest section on.  /XRefStm of the oldest    *)
(* one is not looked at.                                                   *)
LoadFront ==
    /\ pc = "front"
    /\ idx' = 1
    /\ IF xrefList[1] > 0
       THEN StartEntries(xrefList[1], "verify")
       ELSE pc' = "second" /\ UNCHANGED <<sec, todo, next>>
    /\ UNCHANGED <<file, table, trailer, resultVars, handler, streamMap, mem,
                   chainVars, scan, retried>>

(* VerifyCrossRefTable looks at the first entry with a position, and takes *)
(* what says where an archived object is for one: what it then reads there *)
(* may be anything.                                                        *)
Verdicts ==
    LET S == {n \in DOMAIN table : UnionPos(table[n]) > 0}
        n == CHOOSE m \in S : IsLeast(m, S)
        item == At(table[n].pos)
    IN  IF S = {} THEN {TRUE}
        ELSE IF table[n].type = "compressed" THEN BOOLEAN
        ELSE {item.kind \in {"obj", "objstm", "stream", "torn"} /\ item.num = n}

VerifyCrossRefTable ==
    /\ pc = "verify"
    /\ \E ok \in Verdicts :
         IF ok THEN pc' = "second" /\ UNCHANGED scan ELSE StartRebuild
    /\ UNCHANGED <<file, table, trailer, resultVars, handler, streamMap, mem,
                   chainVars, jobVars, retried>>

(* One turn of the loop over the newer sections: first the stream, ...     *)
SecondStream ==
    /\ pc = "second" /\ idx < Len(xrefList)
    /\ idx' = idx + 1
    /\ LET p == streamList[idx + 1]
       IN  IF p = 0
           THEN /\ pc' = "table"
                /\ UNCHANGED <<table, trailer, sec, todo, next, scan>>
           ELSE IF ~Is(p, "stream")
           THEN StartRebuild /\ UNCHANGED <<table, trailer, sec, todo, next>>
           ELSE /\ LoadOlderStream(p)
                /\ IF At(p).ok
                   THEN StartEntries(p, "table") /\ UNCHANGED scan
                   ELSE StartRebuild /\ UNCHANGED <<sec, todo, next>>
    /\ UNCHANGED <<file, resultVars, handler, streamMap, mem, chainVars,
                   retried>>

(* ... then the table, whose entries win.                                  *)
SecondTable ==
    /\ pc = "table"
    /\ IF xrefList[idx] > 0
       THEN StartEntries(xrefList[idx], "second")
       ELSE pc' = "second" /\ UNCHANGED <<sec, todo, next>>
    /\ UNCHANGED <<file, table, trailer, resultVars, handler, streamMap, mem,
                   chainVars, idx, scan, retried>>

AllLoaded ==
    /\ pc = "second" /\ idx = Len(xrefList)
    /\ pc' = "encrypt"
    /\ IF xrefList[idx] = 0
       THEN xrefStream' = TRUE /\ streamMap' = [n \in {} |-> 0]
       ELSE UNCHANGED <<xrefStream, streamMap>>
    /\ UNCHANGED <<file, table, trailer, lastXRef, rebuilt, handler, mem,
                   chainVars, jobVars, scan, retried>>
-----------------------------------------------------------------------------
(* RebuildCrossRef, one item of the file at a time.  What an object stream *)
(* of an encrypted file holds cannot be read here: it is not decrypted.    *)
Scanning == pc = "scan" /\ todo = {}

ScanObject ==
    /\ Scanning /\ At(scan.pos).kind \in {"obj", "objstm", "torn"}
    /\ LET item == At(scan.pos)
       IN  /\ scan' = [scan EXCEPT !.pos = @ + 1,
                         !.table = AddNormal(@, item.num, item.gen, scan.pos)]
           /\ sec' = scan.pos
           /\ todo' = IF item.kind = "objstm" /\ ~item.locked
                      THEN DOMAIN item.members ELSE {}
    /\ UNCHANGED <<file, pc, table, trailer, resultVars, handler, streamMap,
                   mem, chainVars, next, idx, retried>>

ScanMember ==
    /\ pc = "scan" /\ todo # {}
    /\ \E n \in todo :
         /\ IsLeast(n, todo)
         /\ scan' = [scan EXCEPT !.table = AddCompressed(@, n, At(sec).num)]
         /\ todo' = todo \ {n}
    /\ UNCHANGED <<file, pc, table, trailer, resultVars, handler, streamMap,
                   mem, chainVars, sec, next, idx, retried>>

(* Only here has a cross-reference stream to say that it is one (/Type).   *)
IsTrailer(item) == item.kind = "table" \/ (item.kind = "stream" /\ item.typed)
ScanTrailer(item) == IF IsTrailer(item) THEN item.trailer ELSE NoTrailer

ScanStream ==
    /\ Scanning /\ Is(scan.pos, "stream")
    /\ LET item == At(scan.pos)
       IN  scan' = [scan EXCEPT !.pos = @ + 1,
                      !.table = AddNormal(@, item.num, item.gen, scan.pos),
                      !.trailer = UpdateTrailer(@, ScanTrailer(item))]
    /\ UNCHANGED <<file, pc, table, trailer, resultVars, handler, streamMap,
                   mem, chainVars, jobVars, retried>>

ScanOther ==
    /\ Scanning /\ At(scan.pos).kind \in {"table", "startxref", "junk"}
    /\ scan.pos <= Len(file)
    /\ scan' = [scan EXCEPT !.pos = @ + 1,
                  !.trailer = UpdateTrailer(@, ScanTrailer(At(scan.pos)))]
    /\ UNCHANGED <<file, pc, table, trailer, resultVars, handler, streamMap,
                   mem, chainVars, jobVars, retried>>

(* The result goes on top of what had been loaded.                         *)
ScanEnds ==
    /\ Scanning /\ scan.pos > Len(file)
    /\ table' = UpdateInfo(table, scan.table)
    /\ trailer' = UpdateTrailer(trailer, scan.trailer)
    /\ scan' = NoScan
    /\ pc' = IF trailer' = NoTrailer \/ DOMAIN table' = {} THEN "failed"
             ELSE "encrypt"
    /\ rebuilt' = (rebuilt \/ ~retried)
    /\ lastXRef' = IF retried THEN lastXRef ELSE 0
    /\ UNCHANGED <<file, xrefStream, handler, streamMap, mem, chainVars,
                   jobVars, retried>>
-----------------------------------------------------------------------------
(* SetEncryptHandler: the dictionary is in the trailer or an object.       *)
EncryptDict ==
    IF trailer.enc = 0 THEN Null
    ELSE IF trailer.enc < 0 THEN EncDict
    ELSE Got(trailer.enc)

SetEncryptHandler ==
    /\ pc = "encrypt"
    /\ handler' = (EncryptDict = EncDict)
    /\ Hold({trailer.enc})
    /\ pc' = "root"
    /\ UNCHANGED <<file, table, trailer, resultVars, chainVars, jobVars, scan,
                   retried>>

(* GetRoot() and TryInit(): a catalog and pages, or one more rebuild, and  *)
(* then a catalog.  What has been read by then stays in memory.  Any       *)
(* dictionary passes for a catalog and, without /Kids, for one page; one   *)
(* that is no catalog is taken for none at the root, and a page tree whose *)
(* root has no /Count and so is counted is left out.                       *)
Root == Got(trailer.root)
IsCatalog(v) == v \in Catalog

PagesRoot == IF IsCatalog(Root) THEN Root.pages ELSE 0
HasPages(v) == v \in Paged \cup {EncDict} \cup Catalog

TryInit == IsCatalog(Root) /\ HasPages(Got(PagesRoot))

FindRoot ==
    /\ pc = "root"
    /\ Hold({trailer.root, PagesRoot})
    /\ IF TryInit \/ (retried /\ IsCatalog(Root))
       THEN /\ pc' = "open"
            /\ UNCHANGED <<handler, scan, retried>>
       ELSE IF rebuilt \/ retried
       THEN /\ pc' = "failed"
            /\ UNCHANGED <<handler, scan, retried>>
       ELSE /\ StartRebuild
            /\ handler' = FALSE
            /\ retried' = TRUE
    /\ UNCHANGED <<file, table, trailer, resultVars, chainVars, jobVars>>
-----------------------------------------------------------------------------
(* A parser made for a file.                                               *)
FreshParser ==
    /\ pc = "start"
    /\ table = EmptyInfo /\ trailer = NoTrailer
    /\ lastXRef = 0 /\ xrefStream = FALSE /\ rebuilt = FALSE
    /\ handler = FALSE
    /\ streamMap = [n \in {} |-> 0] /\ mem = [n \in {} |-> Null]
    /\ xrefList = <<>> /\ streamList = <<>> /\ prev = 0 /\ seen = {}
    /\ sec = 0 /\ todo = {} /\ next = "none" /\ idx = 0
    /\ scan = NoScan /\ retried = FALSE

(* Another parser takes its place.                                         *)
NewParser ==
    /\ pc' = "start"
    /\ table' = EmptyInfo /\ trailer' = NoTrailer
    /\ lastXRef' = 0 /\ xrefStream' = FALSE /\ rebuilt' = FALSE
    /\ handler' = FALSE
    /\ streamMap' = [n \in {} |-> 0] /\ mem' = [n \in {} |-> Null]
    /\ xrefList' = <<>> /\ streamList' = <<>> /\ prev' = 0 /\ seen' = {}
    /\ sec' = 0 /\ todo' = {} /\ next' = "none" /\ idx' = 0
    /\ scan' = NoScan /\ retried' = FALSE

LoadStep ==
    \/ StartParse
    \/ MainTable \/ MainStream \/ MainFails
    \/ FindTable \/ FindStream \/ FindFails \/ FindEnds
    \/ ReadEntry \/ EntriesRead
    \/ LoadFront \/ VerifyCrossRefTable
    \/ SecondStream \/ SecondTable \/ AllLoaded
    \/ ScanObject \/ ScanMember \/ ScanStream \/ ScanOther \/ ScanEnds
    \/ SetEncryptHandler \/ FindRoot

LoadSpec == FileOK /\ FreshParser /\ [][LoadStep]_<<file, loadVars, mem>>
-----------------------------------------------------------------------------
(* Properties.                                                             *)

Steps == {"start", "main", "find", "entries", "front", "verify", "second",
          "table", "scan", "encrypt", "root", "open", "failed"}

(* Section i of the chain: a table, or a stream of its own.                *)
SectionAt(i) == IF xrefList[i] > 0 THEN xrefList[i] ELSE streamList[i]
Chain == {SectionAt(i) : i \in DOMAIN xrefList}

(* The sections that are loaded are the ones that /Prev leads to from the  *)
(* one startxref names, in that order, none of them twice; the second pass *)
(* starts only when the chain has been followed to its end.                *)
ChainIsRight ==
    /\ DOMAIN streamList = DOMAIN xrefList
    /\ seen = Chain
    /\ \A i, j \in DOMAIN xrefList : SectionAt(i) = SectionAt(j) => i = j
    /\ \A i \in DOMAIN xrefList :
         /\ Is(SectionAt(i), IF xrefList[i] > 0 THEN "table" ELSE "stream")
         /\ At(SectionAt(i)).trailer.prev = IF i = 1 THEN prev
                                            ELSE SectionAt(i - 1)
    /\ (xrefList # <<>> /\ lastXRef # 0) => SectionAt(Len(xrefList)) = lastXRef
    /\ pc \in {"front", "verify", "second", "table"} => prev = 0

(* The layers of the chain, with their ranks: the streams that tables name *)
(* lie below the tables.                                                   *)
LayerTables == {<<2 * i + 1, xrefList[i]>> :
                  i \in {j \in DOMAIN xrefList : xrefList[j] > 0}}
LayerStreams == {<<2 * i, streamList[i]>> :
                   i \in {j \in DOMAIN xrefList :
                            /\ Is(streamList[j], "stream")
                            /\ j > 1 \/ xrefList[j] = 0}}
Layers == LayerTables \cup LayerStreams

(* A table's free entries are not layered over what is below.              *)
LayersOf(n) == {l \in Layers : /\ n \in DOMAIN At(l[2]).entries
                              /\ \/ Is(l[2], "stream")
                                 \/ At(l[2]).entries[n].type # "free"}

(* Numbers with regular entries: a generation never goes back, an archived *)
(* object is new and in an archive that its segment reaches.               *)
Regular(n, l) ==
    LET e == At(l[2]).entries[n]
    IN  /\ \A o \in LayersOf(n) : At(o[2]).entries[n].gen <= e.gen
        /\ e.type = "compressed" => e.archive < SegmentEnd(l[2], n)
        /\ e.type = "compressed" =>
             \A o \in Layers : \A m \in DOMAIN At(o[2]).entries :
               At(o[2]).entries[m].archive # n

(* Whatever order the sections were read in, once they are all loaded the  *)
(* entry of an object is the one of the newest layer that has one.         *)
NewestEntryWins ==
    (pc \in {"encrypt", "root", "open"} /\ ~rebuilt /\ ~retried) =>
      \A n \in ObjNums : \A l \in LayersOf(n) :
        ((\A o \in LayersOf(n) : o[1] <= l[1]) /\ Regular(n, l)) =>
          LET e == At(l[2]).entries[n]
          IN  /\ n \in DOMAIN table /\ table[n].type = e.type
              /\ table[n].pos = e.pos /\ table[n].archive = e.archive

(* A scan of the whole file finds, for every object, the last one that was *)
(* written with a generation that is not below an earlier one's.           *)
Objects(n) == {p \in DOMAIN file : At(p).kind \in Numbered /\ At(p).num = n}
LastOf(n) ==
    {p \in Objects(n) :
       \A q \in Objects(n) : \/ At(q).gen < At(p).gen
                             \/ q <= p /\ At(q).gen = At(p).gen}
Archived(n) == \E p \in DOMAIN file : /\ Is(p, "objstm")
                                      /\ n \in DOMAIN At(p).members
Rebuilt == (rebuilt \/ retried) /\ pc \in {"encrypt", "root", "open"}
RebuildFindsLast ==
    Rebuilt =>
      \A n \in ObjNums : \A p \in LastOf(n) :
        ~Archived(n) => /\ n \in DOMAIN table /\ table[n].type = "normal"
                        /\ table[n].pos = p

(* Only a file that does not have them is refused: a trailer that names a  *)
(* catalog after which no other trailer does, that catalog, whole, as the  *)
(* last object of its number, and the root of its page tree, with pages,   *)
(* as the last of its own.  An object of the catalog's number that is no   *)
(* catalog may have been read, and kept, before the rebuild.               *)
Trailers == {p \in DOMAIN file : IsTrailer(At(p))}
NamesRoot(p, r) ==
    /\ p \in Trailers /\ At(p).trailer.root = r
    /\ \A q \in Trailers : q > p => At(q).trailer.root \in {0, r}
PagesWhole(n) ==
    /\ n \in ObjNums /\ ~Archived(n)
    /\ \E p \in LastOf(n) : Is(p, "obj") /\ HasPages(At(p).val)
Recoverable ==
    \E r \in ObjNums :
      /\ \E p \in DOMAIN file : NamesRoot(p, r)
      /\ ~Archived(r)
      /\ \A c \in Objects(r) : Is(c, "obj") => IsCatalog(At(c).val)
      /\ \E c \in LastOf(r) : Is(c, "obj") /\ PagesWhole(At(c).val.pages)
IntactOpens == pc = "failed" => ~Recoverable
=============================================================================
