------------------------ MODULE ProgressiveRenderer ------------------------
(***************************************************************************)
(* CPDF_ProgressiveRenderer with the image cache of the page, driven by an *)
(* embedder that starts, continues and closes renderings of the page, and  *)
(* changes its images between the calls.  A call is a sequence of steps    *)
(* with running set; it ends when the pause indicator says so.             *)
(*                                                                         *)
(* A layer is the sequence of the objects of the page, or of an annotation *)
(* that is shown.  They have been parsed: FPDF_LoadPage and CPDF_Form      *)
(* parse to the end.  bBreakForMasks is only set for Windows printers and  *)
(* left out, and so is what is drawn with a bitmap of the background when  *)
(* a device refuses an image or an object (DrawObjWithBackground).         *)
(***************************************************************************)
EXTENDS PageImageCache, Sequences

CONSTANTS
    Pages,              \* pages to choose from
    FirstStream,        \* the stream of each image at first
    Devices,            \* sizes of devices
    Limit,              \* GetCacheSizeLimit()
    StepLimit,          \* kStepLimit
    BlendSteps,         \* how often the drawing of one image pauses at most
    EditWhileLoading,   \* an image may be changed while its load is paused
    MaxRenders, MaxEdits

ASSUME RendererAssumption ==
    /\ Devices \subseteq Nat \ {0} /\ {Limit, BlendSteps} \subseteq Nat
    /\ StepLimit \in Nat \ {0} /\ EditWhileLoading \in BOOLEAN
    /\ {MaxRenders, MaxEdits} \subseteq Nat

(* CPDF_DocPageData::GetImage keeps one CPDF_Image for each stream.        *)
ASSUME FirstStreamAssumption ==
    /\ FirstStream \in [Images -> Streams]
    /\ \A i, j \in Images : FirstStream[i] = FirstStream[j] => i = j

(* What can be on a page: a form (or a shading) may draw an image itself.  *)
(* An object that is not visible is hidden by optional content, or else it *)
(* is not active or lies outside of the clip.                              *)
PageObject ==
    { o \in [ kind : {"image", "path", "form"}, image : Images \cup {Nothing},
              visible : BOOLEAN, hidden : BOOLEAN ] :
        (o.kind = "image" => o.image # Nothing) /\ (o.visible => ~o.hidden) }

ASSUME PagesAssumption == Pages \subseteq Seq(Seq(PageObject))

VARIABLES
    page,         \* the layers
    status,       \* "none" without a renderer, else status_
    running,      \* inside Start or Continue
    dev, limited, \* the device's size, bLimitedImageCache
    layerIndex,   \* layer_index_
    inLayer,      \* current_layer_ is set
    lastObj,      \* last_object_rendered_, 0 for end()
    objsToGo,     \* nObjsToGo
    stage,        \* of the object that is being rendered
    blend,        \* pauses left in the drawing of an image
    painted,      \* what has been drawn on the device
    renders, edits

positionVars == <<layerIndex, inLayer, lastObj>>
renderVars == <<page, status, running, dev, limited, positionVars, objsToGo,
                stage, blend, painted>>
vars == <<imageStream, cacheVars, renderVars, renders, edits>>

Layer == page[layerIndex]
CurObj == Layer[lastObj + 1]

InList == running /\ inLayer /\ stage = "next" /\ lastObj < Len(Layer)
-----------------------------------------------------------------------------
(* FPDF_RenderPageBitmap_Start, on a page without a rendering.             *)
Start ==
    /\ status = "none" /\ renders < MaxRenders
    /\ status' = "continue" /\ running' = TRUE
    /\ dev' \in Devices /\ limited' \in BOOLEAN
    /\ layerIndex' = 1 /\ inLayer' = FALSE /\ lastObj' = 0
    /\ objsToGo' = StepLimit
    /\ stage' = "next" /\ blend' = 0
    /\ painted' = <<>>
    /\ renders' = renders + 1
    /\ UNCHANGED <<imageStream, cacheVars, page, edits>>

(* FPDF_RenderPage_Continue.                                               *)
Continue ==
    /\ status = "continue" /\ ~running
    /\ running' = TRUE
    /\ objsToGo' = StepLimit
    /\ UNCHANGED <<imageStream, cacheVars, page, status, dev, limited,
                   positionVars, stage, blend, painted, renders, edits>>

(* FPDF_RenderPage_Close: what is being rendered is given up.              *)
Close ==
    /\ status # "none" /\ ~running
    /\ status' = "none"
    /\ stage' = "next" /\ blend' = 0 /\ inLayer' = FALSE
    /\ UNCHANGED <<imageStream, cacheVars, page, running, dev, limited,
                   layerIndex, lastObj, objsToGo, painted, renders, edits>>

(* The loop over the layers.                                               *)
EnterLayer ==
    /\ running /\ ~inLayer /\ layerIndex <= Len(page)
    /\ inLayer' = TRUE
    /\ lastObj' = 0
    /\ objsToGo' = StepLimit
    /\ UNCHANGED <<imageStream, cacheVars, page, status, running, dev, limited,
                   layerIndex, stage, blend, painted, renders, edits>>

LeaveLayer ==
    /\ running /\ inLayer /\ stage = "next" /\ lastObj = Len(Layer)
    /\ inLayer' = FALSE
    /\ layerIndex' = layerIndex + 1
    /\ running' \in BOOLEAN
    /\ UNCHANGED <<imageStream, cacheVars, page, status, dev, limited, lastObj,
                   objsToGo, stage, blend, painted, renders, edits>>

Done ==
    /\ running /\ ~inLayer /\ layerIndex > Len(page)
    /\ status' = "done" /\ running' = FALSE
    /\ UNCHANGED <<imageStream, cacheVars, page, dev, limited, positionVars,
                   objsToGo, stage, blend, painted, renders, edits>>
-----------------------------------------------------------------------------
(* The loop over the objects of a layer.                                   *)

PassedNever(n) == n                \* fault: the place is not remembered
Passed(n) == n + 1

(* After an object: a form or a shading asks for a pause at once.          *)
ObjectDone(togo) ==
    /\ lastObj' = Passed(lastObj)
    /\ objsToGo' = IF togo = 0 THEN StepLimit ELSE togo
    /\ IF togo = 0 THEN running' \in BOOLEAN ELSE running' = TRUE

ToGo == IF CurObj.kind = "form" THEN 0 ELSE objsToGo - 1

Paint(picture) ==
    painted' = Append(painted, [ layer |-> layerIndex, object |-> lastObj + 1,
                                 picture |-> picture ])

Optimize ==
    IF limited /\ CurObj.kind = "image" THEN CacheOptimization(Limit)
    ELSE UNCHANGED <<imageStream, cacheVars>>

SkipObject ==
    /\ InList /\ ~CurObj.visible /\ ~CurObj.hidden
    /\ ObjectDone(objsToGo)
    /\ UNCHANGED <<imageStream, cacheVars, page, status, dev, limited,
                   layerIndex, inLayer, stage, blend, painted, renders, edits>>

(* What optional content hides counts like what is drawn.                  *)
HideObject ==
    /\ InList /\ CurObj.hidden
    /\ Optimize
    /\ ObjectDone(ToGo)
    /\ UNCHANGED <<page, status, dev, limited, layerIndex, inLayer, stage,
                   blend, painted, renders, edits>>

DrawObject ==
    /\ InList /\ CurObj.visible /\ CurObj.image = Nothing
    /\ Paint(Nothing)
    /\ ObjectDone(ToGo)
    /\ UNCHANGED <<imageStream, cacheVars, page, status, dev, limited,
                   layerIndex, inLayer, stage, blend, renders, edits>>

(* An image that has no bitmap is passed over; the drawing of one that has *)
(* may pause.  A form draws the image it holds without a pause.            *)
StartRenderDIBBase(hasBitmap) ==
    /\ Paint(IF hasBitmap THEN Picture(imageCache'[cur'.key]) ELSE Nothing)
    /\ stage' = "drawing"
    /\ blend' \in IF CurObj.kind = "form" THEN {0} ELSE 0..BlendSteps

StartImage ==
    /\ InList /\ CurObj.visible /\ CurObj.image # Nothing
    /\ \/ StartFindsBitmap(CurObj.image, dev) /\ StartRenderDIBBase(TRUE)
       \/ /\ StartLoadsAtOnce(CurObj.image, dev)
          /\ StartRenderDIBBase(StreamInfo[imageStream[CurObj.image]].good)
       \/ /\ StartLoads(CurObj.image, dev)
          /\ stage' = "loading"
          /\ UNCHANGED <<blend, painted>>
    /\ UNCHANGED <<page, status, running, dev, limited, positionVars, objsToGo,
                   renders, edits>>

ContinueLoad ==
    /\ running /\ stage = "loading"
    /\ \/ /\ ContinueDecodes
          /\ running' \in IF CurObj.kind = "form" THEN {TRUE} ELSE BOOLEAN
          /\ UNCHANGED <<stage, blend, painted>>
       \/ /\ ContinueEnds
          /\ StartRenderDIBBase(StreamInfo[CurEntry.curBitmap.stream].good)
          /\ UNCHANGED running
    /\ UNCHANGED <<page, status, dev, limited, positionVars, objsToGo, renders,
                   edits>>

ContinueDrawing ==
    /\ running /\ stage = "drawing" /\ blend > 0
    /\ blend' = blend - 1
    /\ running' = FALSE
    /\ UNCHANGED <<imageStream, cacheVars, page, status, dev, limited,
                   positionVars, objsToGo, stage, painted, renders, edits>>

ImageDone ==
    /\ running /\ stage = "drawing" /\ blend = 0
    /\ Optimize
    /\ stage' = "next"
    /\ ObjectDone(ToGo)
    /\ UNCHANGED <<page, status, dev, limited, layerIndex, inLayer, blend,
                   painted, renders, edits>>

(* FPDFImageObj_SetBitmap or LoadJpegFile between two calls: this page is  *)
(* or is not among the pages that are passed, and the image has a new      *)
(* stream, unless the bitmap is empty or the file cannot be read.          *)
NewStream(i) ==
    \E s \in Streams :
      /\ \A j \in Images : imageStream[j] # s
      /\ s \notin DOMAIN imageCache
      /\ imageStream' = [imageStream EXCEPT ![i] = s]

SetImage(i) ==
    /\ ~running /\ edits < MaxEdits
    /\ (stage = "loading" /\ ~EditWhileLoading) => CurObj.image # i
    /\ \/ ResetBitmapForImage(i)
       \/ UNCHANGED cacheVars
    /\ NewStream(i) \/ UNCHANGED imageStream
    /\ edits' = edits + 1
    /\ UNCHANGED <<renderVars, renders>>
-----------------------------------------------------------------------------
Init ==
    /\ page \in Pages
    /\ imageStream = FirstStream
    /\ imageCache = [s \in {} |-> Nothing]
    /\ cur = NoCur /\ timeCount = 0 /\ cacheSize = 0
    /\ status = "none" /\ running = FALSE
    /\ dev = 0 /\ limited = FALSE
    /\ layerIndex = 1 /\ inLayer = FALSE /\ lastObj = 0 /\ objsToGo = 0
    /\ stage = "next" /\ blend = 0 /\ painted = <<>>
    /\ renders = 0 /\ edits = 0

Step ==
    \/ EnterLayer \/ LeaveLayer \/ Done
    \/ SkipObject \/ HideObject \/ DrawObject
    \/ StartImage \/ ContinueLoad \/ ContinueDrawing \/ ImageDone

Next == Start \/ Continue \/ Close \/ Step \/ \E i \in Images : SetImage(i)

(* A call goes on to its end; the embedder goes on with a rendering that   *)
(* is to be continued, or closes it.                                       *)
Spec == Init /\ [][Next]_vars /\ WF_vars(Step) /\ WF_vars(Continue)
-----------------------------------------------------------------------------
(* Types of the variables.                                                 *)
Place == [layer : Nat, object : Nat, picture : {Nothing} \cup Shown]
TypeOK ==
    /\ imageStream \in [Images -> Streams]
    /\ DOMAIN imageCache \subseteq Streams
    /\ \A s \in DOMAIN imageCache : imageCache[s] \in Entry
    /\ cur \in {NoCur} \cup {Kept(s) : s \in Streams} \cup [kind : {"owned"}, entry : Entry]
    /\ timeCount \in Nat /\ cacheSize \in Nat
    /\ status \in {"none", "continue", "done"}
    /\ stage \in {"next", "loading", "drawing"}
    /\ {running, limited, inLayer} \subseteq BOOLEAN
    /\ layerIndex \in 1..(Len(page) + 1)
    /\ {lastObj, objsToGo, blend, dev} \subseteq Nat
    /\ painted \in Seq(Place)

(* The entry that a call to Continue works on is there, and it is the one  *)
(* of the image that is being rendered, in the middle of a load.           *)
LoadGoesOn ==
    /\ cur.kind = "kept" => cur.key \in DOMAIN imageCache
    /\ stage = "loading" => /\ cur # NoCur
                            /\ CurEntry.image = CurObj.image
                            /\ CurEntry.curBitmap # Nothing
                            /\ CurEntry.curBitmap.left > 0

(* The size kept by hand is never less than what the entries take.         *)
SizeIsEnough == TotalSize(imageCache, DOMAIN imageCache) <= cacheSize

(* What was painted comes in the order of the page, nothing twice, and     *)
(* whatever lies before the place that was reached and can be seen is      *)
(* among it: all of it when the rendering is done.                         *)
Before(l1, n1, l2, n2) == l1 < l2 \/ (l1 = l2 /\ n1 < n2)
Reached(l, n) ==
    \/ l < layerIndex
    \/ inLayer /\ l = layerIndex /\ (n <= lastObj \/ (n = lastObj + 1 /\ stage = "drawing"))
PaintedInOrder ==
    status # "none" =>
      /\ \A j, k \in DOMAIN painted :
           j < k => Before(painted[j].layer, painted[j].object,
                           painted[k].layer, painted[k].object)
      /\ \A j \in DOMAIN painted : /\ Reached(painted[j].layer, painted[j].object)
                                   /\ painted[j].layer \in DOMAIN page
                                   /\ painted[j].object \in DOMAIN page[painted[j].layer]
      /\ \A l \in DOMAIN page : \A n \in DOMAIN page[l] :
           Reached(l, n) /\ page[l][n].visible =>
             \E j \in DOMAIN painted : painted[j].layer = l /\ painted[j].object = n
      /\ status = "done" => layerIndex = Len(page) + 1

(* An entry can be taken out as long as its image has its stream.          *)
Live(cache) == {s \in DOMAIN cache : imageStream[cache[s].image] = s}

Optimizes == /\ limited
             /\ \/ running /\ stage = "drawing" /\ stage' = "next"
                \/ InList /\ CurObj.hidden
             /\ CurObj.kind = "image"

(* FPDF_RENDER_LIMITEDIMAGECACHE: behind each image, drawn or hidden, the  *)
(* bitmaps that are kept are within the limit, but for those of images     *)
(* that were changed.                                                      *)
LimitKept ==
    [][ Optimizes =>
          /\ TotalSize(imageCache', Live(imageCache')) <= Limit
          /\ cacheSize > Limit => Cardinality(Live(imageCache')) <= MaxEntries ]_vars

(* What is taken out was not loaded after anything that stays.             *)
OldestGoFirst ==
    [][ (Optimizes /\ Live(imageCache) = DOMAIN imageCache) =>
          \A s \in DOMAIN imageCache \ DOMAIN imageCache' :
            \A k \in DOMAIN imageCache' : imageCache[s].time <= imageCache[k].time ]_vars

(* However often it pauses, a rendering that is continued ends.            *)
EventuallyDone == (status = "continue") ~> (status # "continue")

(* Pausing, closing, loading, finding and evicting do not show: what is    *)
(* painted is what the page says.                                          *)
Whole == INSTANCE Painting WITH content <- imageStream
Implements == Whole!Spec
=============================================================================
