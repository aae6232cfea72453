----------------------------- MODULE DataAvail -----------------------------
(***************************************************************************)
(* CPDF_DataAvail (core/fpdfapi/parser/cpdf_data_avail.cpp), behind the    *)
(* FPDFAvail_ functions: opening a document, and then its pages, while the *)
(* file is still being downloaded.  The embedder asks whether the document *)
(* or a page is available, again and again and for any pages in turn; each *)
(* answer depends on what earlier calls left behind.  Data arrives between *)
(* and during the calls.                                                   *)
(*                                                                         *)
(* A file consists of pieces: the stretches this component waits for, the  *)
(* objects of the page tree, and what each page shows.  The trees are well *)
(* formed; only the root's /Count may be missing.  Cross-reference and     *)
(* object checks (CrossRefAvail, ObjectAvail) are pieces here; a file has  *)
(* no hint tables that parse, its form is one piece.                       *)
(***************************************************************************)
EXTENDS PageTraversal

CONSTANTS
    Files,        \* the files that may be opened, see File
    Early,        \* the pieces that have arrived at the beginning
    MaxErrors,    \* bound on the reads that fail although the data is there
    MaxOpens      \* bound on the number of times the document is opened

File ==
    [ kids     : [Branch -> Seq(Branch \cup Page)],
      counted  : BOOLEAN,                             \* the root has a /Count
      first    : Nat,                  \* linearized: the first page; or 0
      xref     : {"good", "refused", "unusable"},     \* not linearized only
      mainXRef : {"good", "bad", "none"} ]            \* linearized only

ASSUME DataAvailAssumption ==
    /\ Files \subseteq File
    /\ MaxErrors \in Nat /\ MaxOpens \in Nat

Stretch(name) == <<name, None>>    \* header, firstPage, hints, startxref, ...
Node(o)       == <<"node", o>>     \* the body of a page tree node or page
Content(p)    == <<"content", p>>  \* everything a page refers to

VARIABLES
    file,         \* the file: see File
    arrived,      \* pieces downloaded
    errors,       \* reads that failed although the data was there
    call,         \* the call in progress, how far it is, the page asked for
    answer,       \* what the last call answered
    header,       \* header_avail_
    xrefFound,    \* cross_ref_avail_ has been created
    docAvail,     \* doc_avail_
    status,       \* internal_status_
    nodes,        \* the nodes whose type is known (page_node_)
    totalLoad,    \* total_load_page_tree_
    treeLoaded,   \* pages_tree_load_ and pages_load_
    pageObjs,     \* page_obj_list_
    seen,         \* seen_page_obj_list_
    curOk,        \* cur_page_dict_load_ok_
    asked,        \* page_map_check_state_
    loadedPages,  \* pages_load_state_
    mainXRef,     \* main_xref_load_tried_, main_xref_loaded_ok_
    opens,        \* how often the document was opened
    open,         \* document_ is there
    mainIn,       \* the document's parser has the main cross-reference table
    doc           \* the document's pages, see PageTraversal

treeVars  == <<status, nodes, totalLoad, treeLoaded, pageObjs, seen>>
startVars == <<file, header, xrefFound, docAvail>>
pageVars  == <<curOk, asked, loadedPages, mainXRef>>
docVars   == <<opens, open, mainIn, doc>>
vars == <<arrived, errors, call, answer, startVars, treeVars, pageVars, docVars>>

IsLinear(f)   == f.first # 0
PageOrder     == [f \in Files |-> Leaves(f.kids, Root)]
PreOrder(kids, node) ==
    LET below[n \in Branch \cup Page] ==
          <<n>> \o (IF n \in Page THEN <<>>
                    ELSE FlattenSeq([k \in DOMAIN kids[n] |-> below[kids[n][k]]]))
    IN  below[node]
WalkOrder     == [f \in Files |-> PreOrder(f.kids, Root)]
PagesAmong(walk, places) == {i \in places : walk[i] \in Page}

(* The trees are well formed, and the first page is one of the document's. *)
ASSUME TreesAssumption ==
    \A f \in Files : IsTree(f.kids) /\ f.first <= Len(PageOrder[f])

(* The first page of a linearized file is at its beginning.                *)
PieceOf(f, o) == IF IsLinear(f) /\ o = PageOrder[f][f.first]
                 THEN Stretch("firstPage") ELSE Node(o)
PieceSets == [f \in Files |->
    {Stretch(n) : n \in IF IsLinear(f)
       THEN {"header", "firstPage", "hints", "mainXRef", "form"}
       ELSE {"header", "startxref", "xref", "root", "info", "form"}}
    \cup {PieceOf(f, o) : o \in Branch \cup ToSet(PageOrder[f])}
    \cup {Content(p) : p \in ToSet(PageOrder[f])}]

Linear   == IsLinear(file)
PagesOf  == PageOrder[file]
Pages    == 0 .. Len(PagesOf) - 1
Where(o) == PieceOf(file, o)
Pieces   == PieceSets[file]

Idle    == [op |-> "idle", at |-> "", page |-> 0]
DocCall == [op |-> "doc", at |-> "status", page |-> 0]
Calls   == {Idle, DocCall} \cup
           [op : {"page"}, at : {"check", "tree", "form", "page"}, page : Pages]

Init ==
    /\ file \in Files
    /\ arrived = Early \cap Pieces /\ errors = 0
    /\ call = Idle /\ answer = [op |-> "none", result |-> "none", page |-> 0]
    /\ header = FALSE /\ xrefFound = FALSE /\ docAvail = FALSE
    /\ status = "header" /\ nodes = {} /\ totalLoad = FALSE
    /\ treeLoaded = FALSE /\ pageObjs = {} /\ seen = {}
    /\ curOk = FALSE /\ asked = {} /\ loadedPages = {} /\ mainXRef = "untried"
    /\ opens = 0 /\ open = FALSE /\ mainIn = FALSE
    /\ doc = LoadPages(file.kids, file.first)

-----------------------------------------------------------------------------
(* Reading.                                                                *)

(* A read the embedder fails although the data is there.                   *)
ReadFaults == {{}} \cup (IF errors < MaxErrors THEN {{p} : p \in arrived} ELSE {})
CountError(bad) == errors' = IF bad = {} THEN errors ELSE errors + 1

(* The document's parser finds the objects its cross-reference tables      *)
(* name: until the main table is loaded those of the first page.           *)
Known(o) == ~Linear \/ ~open \/ mainIn \/ o = PagesOf[file.first]

(* GetObject: missing data and a missing object look the same.             *)
ExistsOrMissing(o, bad) == Known(o)   \* fault: missing data taken for present
Exists(o, bad) == Known(o) /\ Where(o) \in arrived \ bad

(* What the document cannot read; its own reads are not made to fail.      *)
Unread == {o \in Branch \cup Page : ~Exists(o, {})}

WholeFile == Pieces \subseteq arrived

Return(op, p, result) ==
    /\ call' = Idle
    /\ answer' = [op |-> op, result |-> result, page |-> p]

GoOn == UNCHANGED <<call, answer>>

(* A handler that returned false ends the call.                            *)
Unless(ok) == IF ok THEN GoOn ELSE Return(call.op, call.page, "notAvailable")

LoadAllFileAgain(ok) ==           \* fault: the status is kept
    /\ ok = WholeFile
    /\ UNCHANGED <<errors, status, nodes, totalLoad, treeLoaded, pageObjs, seen>>
(* LoadAllFile.                                                            *)
LoadAllFile(ok) ==
    /\ ok = WholeFile
    /\ status' = IF ok THEN "done" ELSE status
    /\ UNCHANGED <<errors, nodes, totalLoad, treeLoaded, pageObjs, seen>>

-----------------------------------------------------------------------------
(* The handlers IsDocAvail goes through until one returns false.  Each has *)
(* its result as the argument.                                             *)

(* CheckHeaderAndLinearized.                                               *)
ReadHeader(ok) ==
    IF header THEN ok /\ UNCHANGED <<header, errors>>
    ELSE \E bad \in ReadFaults :
           /\ CountError(bad)
           /\ ok = (Stretch("header") \in arrived \ bad)
           /\ header' = ok

CheckHeader(ok) ==
    /\ status = "header"
    /\ ReadHeader(ok)
    /\ status' = CASE ~ok -> status [] Linear -> "firstPage" [] OTHER -> "loadAllCrossRef"
    /\ UNCHANGED <<xrefFound, nodes, totalLoad, treeLoaded, pageObjs, seen>>

CheckFirstPage(ok) ==
    /\ status = "firstPage"
    /\ ok = (Stretch("firstPage") \in arrived)
    /\ status' = IF ok THEN "hintTable" ELSE status
    /\ UNCHANGED <<errors, header, xrefFound, nodes, totalLoad, treeLoaded, pageObjs, seen>>

CheckHintTables(ok) ==
    /\ status = "hintTable"
    /\ \E bad \in ReadFaults :
         /\ CountError(bad)
         /\ ok = (Stretch("hints") \in arrived)
         /\ status' = CASE Stretch("hints") \in bad -> "error" [] ok -> "done" [] OTHER -> status
    /\ UNCHANGED <<header, xrefFound, nodes, totalLoad, treeLoaded, pageObjs, seen>>

CheckAndLoadAllXref(ok) ==
    /\ status = "loadAllCrossRef"
    /\ \E bad \in ReadFaults :
         /\ CountError(bad)
         /\ xrefFound' = (xrefFound \/ Stretch("startxref") \in arrived \ bad)
         /\ ok = (xrefFound' /\ Stretch("xref") \in arrived \ bad /\ file.xref = "good")
         /\ status' = CASE ~xrefFound' \/ Stretch("xref") \notin arrived -> status
                         [] Stretch("xref") \in bad \/ file.xref = "refused" -> "error"
                         [] file.xref = "unusable" -> "loadAllFile"
                         [] OTHER -> "root"
    /\ UNCHANGED <<header, nodes, totalLoad, treeLoaded, pageObjs, seen>>

CheckRootOrInfo(name, next, ok) ==
    /\ status = name
    /\ \E bad \in ReadFaults :
         CountError(bad) /\ ok = (Stretch(name) \in arrived \ bad)
    /\ status' = IF ok THEN next ELSE status
    /\ UNCHANGED <<header, xrefFound, nodes, totalLoad, treeLoaded, pageObjs, seen>>

(* LoadDocPages: the root node, read twice, and its /Count.                *)
LoadDocPages(ok) ==
    /\ \E bad \in ReadFaults :
         /\ CountError(bad)
         /\ IF Exists(Root, bad)
            THEN /\ ok = file.counted
                 /\ nodes' = nodes \cup {Root}
                 /\ status' = IF ok THEN "page" ELSE status
                 /\ totalLoad' = ~ok
            ELSE /\ ok = FALSE
                 /\ nodes' \in {nodes} \cup
                      (IF Exists(Root, {}) THEN {nodes \cup {Root}} ELSE {})
                 /\ status' = "error"
                 /\ UNCHANGED totalLoad
    /\ UNCHANGED <<treeLoaded, pageObjs, seen>>

CheckPagesUnseen(ok) ==           \* fault: the kids are not marked as seen
    /\ ok = TRUE
    /\ \E bad \in ReadFaults :
         /\ CountError(bad)
         /\ IF Exists(Root, bad)
            THEN /\ pageObjs' = pageObjs \cup (ToSet(file.kids[Root]) \ seen)
                 /\ status' = "page"
            ELSE status' = "loadAllFile" /\ UNCHANGED pageObjs
    /\ UNCHANGED <<nodes, totalLoad, treeLoaded, seen>>

(* CheckPages: the kids of the root are to be looked at.                   *)
CheckPages(ok) ==
    /\ ok = TRUE
    /\ \E bad \in ReadFaults :
         /\ CountError(bad)
         /\ IF Exists(Root, bad)
            THEN /\ pageObjs' = pageObjs \cup (ToSet(file.kids[Root]) \ seen)
                 /\ seen' = seen \cup ToSet(file.kids[Root])
                 /\ status' = "page"
            ELSE /\ status' = "loadAllFile"
                 /\ UNCHANGED <<pageObjs, seen>>
    /\ UNCHANGED <<nodes, totalLoad, treeLoaded>>

(* CheckPage(): the kids of those that are branches are next; the others,  *)
(* and those not found, are done with.                                     *)
CheckPageObjs(ok) ==
    /\ ok = TRUE
    /\ \E bad \in ReadFaults :
         LET kids == UNION {ToSet(file.kids[b]) :
                              b \in {o \in pageObjs \cap Branch : Exists(o, bad)}}
         IN  /\ CountError(bad)
             /\ pageObjs' = kids \ seen
             /\ seen' = seen \cup kids
             /\ status' = IF kids \subseteq seen THEN "done" ELSE status
    /\ UNCHANGED <<nodes, totalLoad, treeLoaded>>

(* CheckDocStatus, but for the cases that make the document available.     *)
PageTreeStatus(ok) ==
    /\ \/ status = "pageTree" /\ ~totalLoad /\ LoadDocPages(ok)
       \/ status = "pageTree" /\ totalLoad /\ CheckPages(ok)
       \/ status = "page" /\ totalLoad /\ CheckPageObjs(ok)
       \/ /\ status = "page" /\ ~totalLoad /\ ok = TRUE
          /\ status' = "pageLaterLoad"
          /\ UNCHANGED <<errors, nodes, totalLoad, treeLoaded, pageObjs, seen>>
       \/ status \in {"error", "loadAllFile"} /\ LoadAllFile(ok)
    /\ UNCHANGED <<header, xrefFound>>

CheckDocStatus(ok) ==
    \/ CheckHeader(ok) \/ CheckFirstPage(ok) \/ CheckHintTables(ok)
    \/ CheckAndLoadAllXref(ok)
    \/ CheckRootOrInfo("root", "info", ok) \/ CheckRootOrInfo("info", "pageTree", ok)
    \/ PageTreeStatus(ok)

IsDocAvail ==
    /\ call = Idle
    /\ IF docAvail THEN Return("doc", 0, "available")
       ELSE call' = DocCall /\ UNCHANGED answer
    /\ UNCHANGED <<arrived, errors, startVars, treeVars, pageVars, docVars>>

DocStep ==
    /\ call.op = "doc"
    /\ \E ok \in BOOLEAN : CheckDocStatus(ok) /\ Unless(ok)
    /\ UNCHANGED <<arrived, file, docAvail, pageVars, docVars>>

(* The end of IsDocAvail, which restores seen_page_obj_list_.  (So does    *)
(* every other return, but the list is empty then: once it is filled no    *)
(* handler returns false.)                                                 *)
DocIsAvailable ==
    /\ call.op = "doc" /\ status \in {"done", "pageLaterLoad"}
    /\ docAvail' = TRUE
    /\ status' = IF status = "done" THEN "done" ELSE "page"
    /\ seen' = {}
    /\ Return("doc", 0, "available")
    /\ UNCHANGED <<arrived, errors, file, header, xrefFound, nodes, totalLoad,
                   treeLoaded, pageObjs, pageVars, docVars>>

IsLinearizedPDF ==
    /\ call = Idle
    /\ \E ok \in BOOLEAN :
         ReadHeader(ok) /\ Return("linearized", 0, IF ok THEN "known" ELSE "unknown")
    /\ UNCHANGED <<arrived, file, xrefFound, docAvail, treeVars, pageVars, docVars>>

-----------------------------------------------------------------------------
(* The document, which is the embedder's to open and to close.             *)

(* What CountPages reads: the root and, if it has no /Count, its kids.     *)
NeededToOpen ==
    IF Linear THEN {}
    ELSE {Stretch("root"), Where(Root)}
           \cup (IF file.counted THEN {} ELSE {Where(o) : o \in ToSet(file.kids[Root])})

(* ParseDocument, after "available" as the documentation asks for.         *)
GetDocument ==
    /\ call = Idle /\ docAvail /\ ~open /\ opens < MaxOpens
    /\ open' = (NeededToOpen \subseteq arrived)
    /\ opens' = IF open' THEN opens + 1 ELSE opens
    /\ doc' = LoadPages(file.kids, file.first)
    /\ mainIn' = FALSE
    /\ Return("document", 0, IF open' THEN "available" ELSE "error")
    /\ UNCHANGED <<arrived, errors, startVars, treeVars, pageVars>>

(* OnObservableDestroyed: nothing that the calls latched is forgotten.     *)
CloseDocument ==
    /\ call = Idle /\ open
    /\ open' = FALSE /\ mainIn' = FALSE
    /\ doc' = LoadPages(file.kids, file.first)
    /\ UNCHANGED <<arrived, errors, call, answer, startVars, treeVars, pageVars, opens>>

-----------------------------------------------------------------------------
(* CheckPage(p): reads as much of the page tree as the page needs.         *)

(* CheckPageNode counts the pages it comes to, from left to right, a node  *)
(* before its kids.                                                        *)
Walk == WalkOrder[file]
PageInWalkOfNodes(p) ==           \* fault: counts branches as well
    CHOOSE i \in 2..Len(Walk) : Walk[i] \in Page /\ i > p + 1
PageInWalk(p) ==
    CHOOSE i \in DOMAIN Walk :
      Walk[i] \in Page /\ Cardinality(PagesAmong(Walk, 1..i)) = p + 1

(* It gives up at a node it cannot read, and at one with fewer kids than   *)
(* the number of the page: whose page it may well be, for all that.        *)
CannotKnow(o, bad) == o \notin nodes /\ (o = Root \/ ~Exists(o, bad))
TooNarrow(o, p)    == o \in Branch /\ p >= Len(file.kids[o])

(* LoadDocPage.                                                            *)
LoadDocPage(p, ok) ==
    IF doc.list[p + 1] # None
    THEN /\ ok = TRUE /\ status' = "done"
         /\ UNCHANGED <<errors, nodes, doc>>
    ELSE \E bad \in ReadFaults :
           LET upTo  == {i \in DOMAIN Walk : i <= PageInWalk(p)}
               stops == {i \in upTo :
                           CannotKnow(Walk[i], bad) \/ TooNarrow(Walk[i], p)}
               known == {i \in upTo : /\ ~CannotKnow(Walk[i], bad)
                                      /\ \A j \in stops : i <= j}
           IN  /\ CountError(bad)
               /\ ok = (stops = {})
               /\ status' = IF ok THEN "done" ELSE "error"
               /\ nodes' = nodes \cup {Walk[i] : i \in known}
               /\ doc' = IF ok THEN [doc EXCEPT !.list[p + 1] = Walk[PageInWalk(p)]]
                         ELSE doc

GoOnTo(at) == call' = [call EXCEPT !.at = at] /\ UNCHANGED answer

CheckPage ==
    /\ call.at = "check"
    /\ \E ok \in BOOLEAN :
         \/ /\ status = "pageTree" /\ LoadDocPages(ok) /\ Unless(ok)
            /\ UNCHANGED <<curOk, doc>>
         \/ /\ status = "page" /\ LoadDocPage(call.page, ok) /\ Unless(ok)
            /\ UNCHANGED <<totalLoad, treeLoaded, pageObjs, seen, curOk>>
         \/ /\ status = "error" /\ LoadAllFile(ok)
            /\ IF ok THEN GoOnTo("form") ELSE Unless(ok)
            /\ UNCHANGED <<curOk, doc>>
         \/ /\ status \notin {"pageTree", "page", "error"} /\ ok = TRUE
            /\ treeLoaded' = TRUE /\ curOk' = TRUE /\ status' = "page"
            /\ GoOnTo("form")
            /\ UNCHANGED <<errors, nodes, totalLoad, pageObjs, seen, doc>>
    /\ UNCHANGED <<arrived, startVars, asked, loadedPages, mainXRef, opens, open, mainIn>>

(* LoadPages with CheckPageStatus: the whole page tree.  (No step leaves   *)
(* the error status behind once total_load_page_tree_ is set.)             *)
LoadAllPages ==
    /\ call.at = "tree"
    /\ IF treeLoaded
       THEN GoOnTo("form") /\ UNCHANGED <<errors, treeVars>>
       ELSE \E ok \in BOOLEAN :
              /\ Unless(ok)
              /\ \/ status = "pageTree" /\ CheckPages(ok)
                 \/ status = "page" /\ CheckPageObjs(ok)
                 \/ /\ status \notin {"pageTree", "page"} /\ ok = TRUE
                    /\ treeLoaded' = TRUE
                    /\ UNCHANGED <<errors, status, nodes, totalLoad, pageObjs, seen>>
    /\ UNCHANGED <<arrived, startVars, pageVars, docVars>>

-----------------------------------------------------------------------------
(* IsPageAvail.                                                            *)

CheckLinearizedDataUnmerged(result) ==   \* fault: the table is not merged
    /\ result = CASE mainXRef = "ok" \/ file.mainXRef = "none" -> "available"
                  [] Stretch("mainXRef") \notin arrived -> "notAvailable"
                  [] OTHER -> "available"
    /\ IF result = "available" /\ mainXRef = "untried" /\ file.mainXRef # "none"
       THEN mainXRef' = "ok" /\ status' = "pageTree"
       ELSE UNCHANGED <<mainXRef, status>>
    /\ UNCHANGED <<errors, mainIn>>
(* CheckLinearizedData: the main cross-reference table is read once.       *)
CheckLinearizedData(result) ==
    \/ /\ mainXRef # "untried"
       /\ result = IF mainXRef = "ok" THEN "available" ELSE "notAvailable"
       /\ UNCHANGED <<errors, mainXRef, mainIn, status>>
    \/ /\ mainXRef = "untried" /\ file.mainXRef = "none"
       /\ result = "available"
       /\ UNCHANGED <<errors, mainXRef, mainIn, status>>
    \/ /\ mainXRef = "untried" /\ file.mainXRef # "none"
       /\ Stretch("mainXRef") \notin arrived
       /\ result = "notAvailable"
       /\ UNCHANGED <<errors, mainXRef, mainIn, status>>
    \/ /\ mainXRef = "untried" /\ file.mainXRef # "none"
       /\ Stretch("mainXRef") \in arrived
       /\ \E bad \in ReadFaults :
            LET good == file.mainXRef = "good" /\ Stretch("mainXRef") \notin bad
            IN  /\ CountError(bad)
                /\ result = IF good THEN "available" ELSE "error"
                /\ mainXRef' = IF good THEN "ok" ELSE "failed"
                /\ mainIn' = good
                /\ status' = IF good THEN "pageTree" ELSE status

(* IsFirstCheck.                                                           *)
IsFirstCheck(p) == p \notin asked
AskKept(p) ==                     \* fault: what another page found is kept
    asked' = asked \cup {p} /\ UNCHANGED curOk
Ask(p) ==
    /\ asked' = asked \cup {p}
    /\ curOk' = (curOk /\ ~IsFirstCheck(p))

LookUp(p) ==
    \E looked \in {GetPageDictionary(doc, p, Unread)} :
      /\ doc' = looked.doc
      /\ Return("page", p, CASE looked.found = None -> "error"
                            [] Content(looked.found) \in arrived -> "available"
                            [] OTHER -> "notAvailable")

(* Before the page is checked: the main cross-reference table, or the      *)
(* whole file when there is none.                                          *)
CheckBeforePage(p) ==
    \E result \in {"available", "notAvailable", "error"} :
      /\ CheckLinearizedData(result)
      /\ \/ /\ result # "available"
            /\ Ask(p) /\ Return("page", p, result)
         \/ /\ result = "available" /\ mainXRef' = "ok"
            /\ Ask(p)
            /\ call' = [op |-> "page", page |-> p,
                        at |-> CASE totalLoad -> "tree" [] curOk' -> "form" [] OTHER -> "check"]
            /\ UNCHANGED answer

RebuildInstead(p) ==
    /\ mainXRef = "untried" /\ file.mainXRef = "none"
    /\ mainIn' = (mainIn \/ WholeFile)
    /\ status' = IF WholeFile THEN "done" ELSE status
    /\ asked' = IF WholeFile THEN asked \ {p} ELSE asked \cup {p}
    /\ curOk' = (curOk /\ ~IsFirstCheck(p))
    /\ Return("page", p, IF WholeFile THEN "available" ELSE "notAvailable")
    /\ UNCHANGED <<errors, mainXRef>>

IsPageAvail(p) ==
    /\ call = Idle /\ open
    /\ \/ /\ p \in loadedPages
          /\ Ask(p) /\ Return("page", p, "available")
          /\ UNCHANGED <<errors, mainXRef, mainIn, status, doc>>
       \/ /\ p \notin loadedPages /\ Linear /\ p = file.first - 1
          /\ Ask(p) /\ LookUp(p)
          /\ UNCHANGED <<errors, mainXRef, mainIn, status>>
       \/ /\ p \notin loadedPages /\ Linear /\ p # file.first - 1
          /\ CheckBeforePage(p) \/ RebuildInstead(p)
          /\ UNCHANGED doc
       \/ /\ p \notin loadedPages /\ ~Linear
          /\ Ask(p)
          /\ call' = [op |-> "page", page |-> p,
                      at |-> IF totalLoad \/ curOk' THEN "form" ELSE "check"]
          /\ UNCHANGED <<errors, answer, mainXRef, mainIn, status, doc>>
    /\ UNCHANGED <<arrived, startVars, nodes, totalLoad, treeLoaded, pageObjs, seen,
                   loadedPages, opens, open>>

(* CheckAcroForm.                                                          *)
CheckAcroForm(result) ==
    \E data \in {"available", "notAvailable", "error"} :
      /\ IF Linear THEN CheckLinearizedData(data)
         ELSE data = "available" /\ UNCHANGED <<errors, mainXRef, mainIn, status>>
      /\ result = IF data # "available" THEN data
                  ELSE IF Stretch("form") \in arrived THEN "available" ELSE "notAvailable"

CheckFormOfPage ==
    /\ call.at = "form"
    /\ \E result \in {"available", "notAvailable", "error"} :
         /\ CheckAcroForm(result)
         /\ IF result = "notAvailable" THEN Return("page", call.page, result)
            ELSE GoOnTo("page")
    /\ UNCHANGED <<arrived, startVars, nodes, totalLoad, treeLoaded, pageObjs, seen,
                   curOk, asked, loadedPages, opens, open, doc>>

CheckFoundPageEarly ==            \* fault: latched before it is available
    /\ call.at = "page"
    /\ LookUp(call.page)
    /\ curOk' = FALSE /\ asked' = asked \ {call.page}
    /\ loadedPages' = loadedPages \cup {call.page}
    /\ UNCHANGED <<arrived, errors, startVars, treeVars, mainXRef, opens, open, mainIn>>
CheckFoundPage ==
    /\ call.at = "page"
    /\ LookUp(call.page)
    /\ IF answer'.result = "available"
       THEN /\ curOk' = FALSE
            /\ asked' = asked \ {call.page}
            /\ loadedPages' = loadedPages \cup {call.page}
       ELSE UNCHANGED <<curOk, asked, loadedPages>>
    /\ UNCHANGED <<arrived, errors, startVars, treeVars, mainXRef, opens, open, mainIn>>

IsFormAvail ==
    /\ call = Idle
    /\ IF open THEN \E result \in {"available", "notAvailable", "error"} :
                      CheckAcroForm(result) /\ Return("form", 0, result)
       ELSE /\ Return("form", 0, "available")
            /\ UNCHANGED <<errors, mainXRef, mainIn, status>>
    /\ UNCHANGED <<arrived, startVars, nodes, totalLoad, treeLoaded, pageObjs, seen,
                   curOk, asked, loadedPages, opens, open, doc>>

Download(piece) ==
    /\ piece \notin arrived
    /\ arrived' = arrived \cup {piece}
    /\ UNCHANGED <<errors, call, answer, startVars, treeVars, pageVars, docVars>>

-----------------------------------------------------------------------------
StepBeforeLookUp ==
    DocStep \/ DocIsAvailable \/ CheckPage \/ LoadAllPages \/ CheckFormOfPage
CallStep == StepBeforeLookUp \/ CheckFoundPage

NextButPages ==
    \/ CallStep \/ IsDocAvail \/ IsLinearizedPDF \/ IsFormAvail
    \/ GetDocument \/ CloseDocument
    \/ \E piece \in Pieces : Download(piece)

Next == NextButPages \/ \E p \in Pages : IsPageAvail(p)
Spec == Init /\ [][Next]_vars

(* An embedder that opens a linearized file once, and asks for one of its  *)
(* pages until it is available, before it asks for another.                *)
PageByPage(p) == Linear => asked \ (loadedPages \cup {file.first - 1}) \subseteq {p}
InTurnNext ==
    \/ NextButPages /\ (Linear => opens' <= 1)
    \/ \E p \in Pages : PageByPage(p) /\ IsPageAvail(p)
InTurnSpec == Init /\ [][InTurnNext]_vars

(* A call goes on until it returns, and the download completes.  (Weak     *)
(* fairness of CheckFoundPage, which can always be taken and ends the      *)
(* call, is that no call stays there; TLC is slow to find it ENABLED.)     *)
(* The embedder asks again: what it calls once in a while is not kept off  *)
(* for good by other calls in progress.                                    *)
Progress   == /\ WF_vars(StepBeforeLookUp) /\ []<>(call.at # "page")
              /\ WF_vars(\E piece \in Pieces : Download(piece))
AllPages   == 0 .. Cardinality(Page) - 1
FairSpec   == Spec /\ Progress /\ SF_vars(IsDocAvail) /\ SF_vars(GetDocument)
                /\ \A p \in AllPages : SF_vars(p \in Pages /\ IsPageAvail(p))
-----------------------------------------------------------------------------
TypeOK ==
    /\ file \in Files /\ arrived \subseteq Pieces /\ errors \in 0..MaxErrors
    /\ call \in Calls
    /\ header \in BOOLEAN /\ xrefFound \in BOOLEAN /\ docAvail \in BOOLEAN
    /\ status \in {"header", "firstPage", "hintTable", "loadAllCrossRef", "root", "info",
                   "pageTree", "page", "pageLaterLoad", "error", "loadAllFile", "done"}
    /\ nodes \subseteq Branch \cup Page
    /\ totalLoad \in BOOLEAN /\ treeLoaded \in BOOLEAN /\ curOk \in BOOLEAN
    /\ pageObjs \subseteq seen /\ seen \subseteq Branch \cup Page
    /\ asked \subseteq Pages /\ loadedPages \subseteq Pages
    /\ mainXRef \in {"untried", "ok", "failed"}
    /\ opens \in 0..MaxOpens /\ open \in BOOLEAN /\ mainIn \in BOOLEAN
    /\ open => docAvail
    /\ doc \in DocType
    /\ Len(doc.list) = Len(PagesOf) /\ doc.next \in 0..Len(PagesOf)

(* fpdf_dataavail.h: "When FPDFAvail_IsDocAvail() returns TRUE, call       *)
(* FPDFAvail_GetDocument() to retrieve the document handle."  It must then *)
(* succeed; what it reads was found by a different walk of the page tree.  *)
DocumentOpens == ~(answer.op = "document" /\ answer.result = "error")

(* A page number never leads to another page, although pages are put in    *)
(* page_list_ both by CheckPageNode, which counts what it has read, and by *)
(* lookups, which count what is missing as one page.                       *)
PageListIsRight ==
    \A i \in 1..Len(PagesOf) : doc.list[i] \in {None, PagesOf[i]}

(* A page said to be available can be loaded at once: the document finds   *)
(* the page itself, without data it lacks, and everything it refers to.    *)
PageAvailableIsComplete ==
    open /\ answer.op = "page" /\ answer.result = "available" =>
      /\ GetPageDictionary(doc, answer.page, Unread).found = PagesOf[answer.page + 1]
      /\ Content(PagesOf[answer.page + 1]) \in arrived

(* fpdf_dataavail.h: "PDF_DATA_NOTAVAIL: Data not yet available."  A page  *)
(* whose data is merely missing is not an error: no embedder asks again    *)
(* after one.                                                              *)
PageErrorHasReason ==
    answer.op = "page" /\ answer.result = "error" =>
      errors > 0 \/ file.mainXRef = "bad"

(* The document is known to be available in the end, whichever sections,   *)
(* tables or nodes of it are refused or cannot be used on the way.         *)
EventuallyDocAvail == <>docAvail

(* If the document stays open, every page is available in the end.  (Not   *)
(* so when the root has no /Count.)                                        *)
EventuallyPagesAvail ==
    \A p \in AllPages :
      file.counted /\ <>[](open /\ mainXRef # "failed") /\ p \in Pages
        => <>(answer.op = "page" /\ answer.page = p /\ answer.result = "available")
=============================================================================
