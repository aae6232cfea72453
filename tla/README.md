# PDFium: models, checks and proofs

PDFium opens PDF documents that may still be downloading, keeps the pages of a document in
a tree with caches beside it, and renders, edits, fills in and saves them. This directory
holds TLA+ modules for the parts of it where the order of events matters most: **what is
answered while data arrives** (the `FPDFAvail_` functions and everything behind them), **the
pages of a document under edits and lookups**, **opening, saving and opening again** (the
cross-reference table, its rebuild, full and incremental copies) and **rendering that pauses**,
with the cache of decoded images. Every definition follows the C++ code under
`core/fpdfapi/parser`, `edit`, `page` and `render`, and `fpdfsdk`; `PROJECT.json` names the lines.

Contents: [The system](#the-system) · [Modules](#modules) · [Runs](#runs) ·
[Fairness](#fairness) · [Proofs](#proofs) · [What the models showed](#what-the-models-showed)
· [What is not modelled](#what-is-not-modelled) · [Plan](#plan)

## The system

PDFium is a library. It has no threads of its own; what interleaves are the embedder's calls
(in any order, on any page), the arrival of data between and *during* calls (the embedder's
`IsDataAvail` callback is asked anew for every read), reads that fail, and the callbacks of
scripts. Rendering and saving can be paused and continued.

    embedder ──FPDFAvail_──▶ CPDF_DataAvail ──▶ CPDF_CrossRefAvail ─┐
       │ ▲                       │   └────────▶ CPDF_PageObjectAvail ┤ reads
       │ └──segments to fetch────┼──────────── CPDF_ReadValidator ◀──┘
       │                         ▼
       └──FPDF_, FPDFPage_──▶ CPDF_Document ──▶ CPDF_Parser, cross-reference table
                              page tree, page_list_, tree_traversal_, indirect objects
                                 ▼
                     pages, image cache, renderers, forms, scripts, saving

| Component | State | Operations, and what they touch | What is hard | What makes it correct |
|---|---|---|---|---|
| Object availability (`CPDF_ObjectAvail`, `CPDF_PageObjectAvail`) | root, parsed and unparsed objects, the stack of a call | `CheckAvail`, resumed by every poll; loads objects into the document | data arriving inside a walk, cycles, failed reads | "available" only if everything reachable is there; a call ends; a poller is answered |
| Cross-reference availability (`CPDF_CrossRefAvail`) | state and offset inside a section, queue and set of sections | `CheckAvail`, resumed in the middle of a section | resumption, cycles of sections, errors that stick | the same, and errors only for a reason |
| Data availability (`CPDF_DataAvail`) | 20 latches, lists and a status for the document, its pages and the main cross-reference table | `FPDFAvail_IsDocAvail`, `IsPageAvail`, `IsFormAvail`, `GetDocument`, closing | calls on different pages share latches; two walks of one tree; the document is closed and opened again | what is said to be available can be opened; a page number leads to its page; a missing page is no error; all is available in the end |
| Page tree (`CPDF_Document`) | the tree with `/Count` and `/Parent`, `page_list_`, the interrupted traversal | page lookups by index and by page, insertion, deletion, moves | two caches beside the tree, indices that shift | the document behaves like a sequence of pages |
| Read validator (`CPDF_ReadValidator`) | what a read found, whole-file latch | every read, requests for segments | alignment and overflow; reads refused for what lies behind them | who fetches only what is asked for never waits in vain |
| Parser and cross-reference table (`CPDF_Parser`, `CPDF_CrossRefTable`) | the merged table, trailer, lists of sections, security handler | loading the chain of sections, rebuilding, finding the catalog | order of merging, failure half way, cycles | the newest entry of an object wins; what can be recovered is |
| Indirect objects, object streams | objects by number | parse on demand, add, replace, delete | lookups while parsing | a number leads to one object |
| Hint tables | offsets and lengths of pages | `CheckPage` | arithmetic on data of the file | ranges lie in the file |
| Page image cache (`CPDF_PageImageCache`) | entries, their sizes, ages, a total, the current entry | load (pausing), limit, reset | the total and ages kept by hand; eviction behind a paused load | a bitmap found is that of the image; the limit is kept |
| Progressive renderer (`CPDF_ProgressiveRenderer`) | layer, last object, status | `Start`, `Continue`, `Close` | many ways out of one loop | every object is rendered once, in order, with its picture |
| Saving (`CPDF_Creator`) | offsets, numbers to write, new objects | full and incremental copies, without security | what the table and memory know of an object; copies cut short | a copy opens as what was saved |
| Forms, widgets, scripts | focus, fields, timers | events, callbacks | a callback destroys its target | nothing is used after it is gone |
| Codecs, fonts, text, drawing, XFA | — | — | data and numbers rather than order | — |

The two checkers are modelled whole; data availability, the page tree, the validator, the
parser's table, indirect objects, saving, the image cache and the renderer in part (their notes in
`PROJECT.json` and [below](#what-is-not-modelled) say which); the rest is in the [plan](#plan) or
left out. The hazards of each are listed with their lines in
`PROJECT.json`.

## Modules

| Module | Models | Relation |
|---|---|---|
| `PolledCheck` | what an embedder that polls a check is promised | abstract specification |
| `ObjectAvail` | `cpdf_object_avail.cpp`, `cpdf_page_object_avail.cpp` | implements `PolledCheck`; `ObjectAvailProofs`, `MCObjectAvail` |
| `ReadValidator` | the ranges and segments of `cpdf_read_validator.cpp`, the buffer of the parser | operators over two variables; proofs in `CrossRefAvailProofs` |
| `CrossRefAvail` | `cpdf_cross_ref_avail.cpp` | extends `ReadValidator`, implements `PolledCheck`; `CrossRefAvailProofs`, `MCCrossRefAvail` |
| `PageSeq` | what the page functions of the public interface promise | abstract specification |
| `PageTraversal` | looking a page up by index in `cpdf_document.cpp`, part of the tree possibly missing | operators, extended by `PageTree` and `DataAvail`; `PageTraversalProofs` (lemmas on trees and walks) |
| `PageTree` | the rest of the page functions in `cpdf_document.cpp` and `fpdf_editpage.cpp` | implements `PageSeq`; `PageTreeProofs`, `MCPageTree` |
| `PageIndex` | finding the index of a page in `cpdf_document.cpp` | extends `PageTree` with one more operation, by recursion; only model-checked |
| `DataAvail` | `cpdf_data_avail.cpp` | composes the document's lookups with the availability checks; `DataAvailProofs`, `MCDataAvail` |
| `Document` | what a document promises that is edited, saved and opened again | abstract specification |
| `CrossRefTable` | `cpdf_cross_ref_table.cpp` | operators on tables |
| `CrossRefLoad` | opening a file in `cpdf_parser.cpp` | extends `CrossRefTable`; `CrossRefLoadProofs` |
| `SaveReopen` | `cpdf_creator.cpp` and the objects of `cpdf_indirect_object_holder.cpp` | composes with `CrossRefLoad`, implements `Document`; `SaveReopenProofs` (also a full copy and its loading), `MCSaveReopen` |
| `Painting` | what rendering a page promises | abstract specification |
| `PageImageCache` | `cpdf_pageimagecache.cpp`, the pauses of `cpdf_dib.cpp` | operators and variables, extended by the next; proofs in `PaintingProofs` |
| `ProgressiveRenderer` | `cpdf_progressiverenderer.cpp`, `fpdf_progressive.cpp`, changes of images | composes with `PageImageCache`, implements `Painting`; `PaintingProofs` (the cache, the order, and the pictures), `MCProgressiveRenderer` |

A definition whose comment says *fault* is a plausible mistake in the definition that follows
it. No specification uses it; a mutant puts it in the other's place to show that a property
depends on that code. The inventory of mutants is in `PROJECT.json`.

**ObjectAvail.** An object is a number; its value is a sequence of parts (the dictionaries
and arrays met in the order of the code's walk), each with its role, an indirect or direct
`/Type`, and the objects it refers to. `CheckAvail` enters a call; `LoadRootReference`,
`LoadRootBody`, `SkipObject`, `CheckObject` and `FinishCheck` are one turn each of the loops of
`LoadRootObject` and `CheckObjects`, so data may arrive between any two of them
(`Download`), and another component may load objects (`LoadElsewhere`). A read may fail
although its data is there (`ReadFaults`, at most `MaxErrors` times). The stack of the call
is a set: a number pushed twice is skipped the second time, and any order is allowed.

**CrossRefAvail, ReadValidator.** A file is a set of sections (`Offset`) of a kind, with a number
of items and links (`/Prev`, `/XRefStm`); a *part* is a stretch of bytes of one that is read in one go.
One action per handler of the loop in `CheckAvail`; the queue and the registered set are one record.
Sections the code refuses (an encrypted or truncated one, no trailer, no stream) are kinds. What has
arrived are bytes, and so is what was asked for: a read of a part may need the buffer filled at any
of its bytes, which takes `BlockSize` bytes (`ReadBlockAt`), and the data of a stream are checked with
`BlockSize` bytes behind them (`RangeToCheck`), so a part that is there may still be refused. A read
that is refused, or fails, asks for the `Segment` around its range, which begins and ends at a block and so
reaches bytes that no part needs: whatever was asked for may arrive, as may any byte of the chain (`BytesFrom`). Whether the buffer already
held a part is left open: both outcomes are allowed when they differ.

**PolledCheck.** Data only arrives; each call answers; "available" is given only when nothing is
missing, and is never taken back. The mapping of both checkers: what is missing are the
reachable objects, or the parts of the chain, that have not arrived; a call is busy until it returns.

**PageTraversal, PageTree, PageSeq.** A document is a record: `kids`, `count` and `parent` are
the tree in the file, `list` is `page_list_`, `trav` is `tree_traversal_` and `next` is
`next_page_to_traverse_`. `Turn` is one turn of the walk of `TraversePDFPages`: it passes a child, enters
or leaves a node. The stack of the recursive calls is `trav`, which survives between lookups, so
the walk is a sequence of turns (`MaxTurns` is enough for any tree: each node is entered and left
once, each page passed once). `InsertDelete` and `MovePages` are the functions of those names; the recursion
of `InsertDeletePDFPage` is a search (`SearchStep`, one turn of its loop) for the path from the root to the place,
and an edit there that counts in every node of the path. One action per function of the public interface.
`PageIndex` adds `FPDFDest_GetDestPageIndex`, that is `GetPageIndex` and `FindPageIndex`, in a module of its own since it is written by
recursion and is what one of the findings is about. `PageSeq` says what they should do:
a sequence of pages, where moves take pages out and put them back at an index. The refinement
mapping is the identity: `pages`, the leaves of the tree from left to right, and `answer`.

**DataAvail.** A file is a page tree, whether it is linearized and how its cross-reference
sections turn out; its bytes are *pieces* (header, first page, the tables, each node, each page's
content). A call is entered by `IsDocAvail` or `IsPageAvail` and goes from handler to handler
(`call.at`), with data arriving in between; each handler is an action and takes its result as
an argument. `GetDocument` opens the document and `CloseDocument` closes it, keeping the latches
that `OnObservableDestroyed` keeps. `CrossRefAvail` and `ObjectAvail` appear as pieces here:
that a piece is answered "available" only when it is there is what their theorems say.

**CrossRefTable, CrossRefLoad.** A file is the sequence of the things the parser can find in it
(objects, object streams, tables, cross-reference streams, `startxref` lines, an object cut off in
the middle), and a position is an index. `pc` is the place in `StartParse`; each function that
returns early is two actions, one per way out. The two lists of sections, `seen_xref_offset` and the
section being read are variables, and entries are read one at a time (`ReadEntry`), so that an
invariant can speak of a load that is half done. Before the first entry of a segment of a stream's `/Index`, a run of consecutive
numbers, the table grows to the end of the segment (`SegmentEnd`, `WithSize`). The scan of a rebuild goes item by item as well
(`ScanObject`, `ScanMember`, `ScanStream`, `ScanOther`, `ScanEnds`). Tables are functions from numbers to records with the fields of `ObjectInfo`.
`mem` is `indirect_objs_`: the encryption dictionary, the catalog and the root of the page tree are read by
number while the file is opened, and what was read stays in memory (`Hold`) when the table is then rebuilt.

A catalog is a record of the root of its page tree (`pages`) and the objects the document uses (`uses`). Opening
needs both a catalog and pages: `FindRoot` is `!GetRoot() || !TryInit()` of `cpdf_parser.cpp:274`, where `TryInit` asks for
a page count above 0. Without one, the table is rebuilt, once; a file whose table had been rebuilt already is
refused, and after that rebuild a catalog is enough. A page tree root has pages if it is one of the values `Paged`, or any
dictionary of another kind, which for want of `/Kids` passes as one page; a null, a value that is not `Paged`
and an object that was lost have none. Roots without a `/Count`, which are counted, are left out, and a dictionary
that is no catalog is taken for none at the root of the trailer.

`IsFile` says what a
file is: well-formed items, each section with finitely many entries. `FileOK` and `FreshParser` are where a load may start.
`UpdateInfo`, which the code does in one pass over two ordered maps, is written as that pass comes out
for each number.

**SaveReopen, Document.** Objects are added, changed and deleted;
`SaveFull` (with or without the encryption) and `SaveIncremental` compute the bytes `CPDF_Creator` writes
from the table, the memory and (appending) the old bytes, `SaveCut` those of an append that stopped after
any item, perhaps in the middle of an object. The cross-reference stream whose dictionary is the trailer is referred to by
its own number (`object_tree_traversal_util.cpp:37`), so a full copy writes it again when it lists itself
(`IsOldSection`), and its number counts in the last one; a later rebuild takes its dictionary for a trailer
of the copy. The stream that an incremental copy ends with has no `/Type`, and a rebuild does not find it as a
trailer. `Reopen` gives the copy to `CrossRefLoad`. The
mapping: the content is `View`, memory hiding the file, while a document is open, without the
catalog, which tells how to read the rest (`Content`). `Document` says what a
copy must show: what was saved, or, for one that was cut, each object as it was or as it was to be.

**PageImageCache, ProgressiveRenderer, Painting.** A page is a sequence of layers of objects. A
call of `Start` or `Continue` is a sequence of steps while `running`; each place at which the code
asks the pause indicator may end the call. An image goes through `loading` (a JBIG2 image in several
pieces, others in one) and `drawing`, and with a limited cache `CacheOptimization` follows. An object that optional
content hides is not drawn but counts towards the step limit like one that is, and if it is an image the cache is optimized behind it
(`HideObject`); one that is not active or is outside the clip is passed without either (`SkipObject`). An entry
has its bitmap and mask, its size, the bitmap being decoded, and its age. `cur` is
`cur_image_cache_entry_` with what owns it: the cache, or, until a new entry's load has ended, the pointer.
`CacheOptimization` goes through a set of the oldest entries that is just large enough: `std::sort` compares only
the ages, so entries of one age may go in any order. `SetImage` is `FPDFImageObj_SetBitmap` or `FPDFImageObj_LoadJpegFile`: the
entry is reset, or is not when this page is not among those passed, and the image has a new stream, or has not
when there is nothing to put into it. The mapping is the identity on the page, the status, the device
and what was painted: `Painting` has no cache and no pauses, and says which picture each image must show.

## Runs

| Run | Configuration | Question |
|---|---|---|
| `object_avail` | 7 objects in a cycle with indirect types, checked from a reference, from a page and from a dictionary that is no indirect object; one failed read | `AvailableIsComplete`, `ImplementsCheck`; `CallReturns`; `EventuallyAvailable` |
| `cross_ref_avail` | 11 sections, 8 chains: cyclic, hybrid, refused, one longer than a buffer, one too near the largest offset; blocks of 2 bytes; one failed read | the same, `ErrorHasReason` and `WaitsForAsked` |
| `page_tree_edits` | 3 trees with nested, flat and empty branches, each also as a linearized file with every first page; up to 5 pages, any 2 edits (moves of 1 or 2 pages), any number of lookups by index | `ImplementsPageSeq`, and the agreement of tree and caches |
| `pages_asked` | 6 files of 2 or 3 pages: plain and linearized, the main table good, bad or missing; one failed read; plain documents opened twice | `PageListIsRight`, `PageAvailableIsComplete`, `PageErrorHasReason`, `DocumentOpens` |
| `pages_polled` | 8 files of 2 or 3 pages, with refused or unusable sections, without `/Count` | `EventuallyDocAvail`, `EventuallyPagesAvail` |
| `save_reopen` | 26 layouts of files of 2 to 4 objects: revisions, hybrids, archives, encryption (also by a dictionary that is an object), broken and cyclic chains, a catalog that is not where it should be, that an older object stands in for, or that is its own part, page trees without pages (with a whole table and with a rebuilt one), streams that list themselves; one edit after each opening, and up to two copies, full, incremental, without security or cut short | `ChainIsRight`, `NewestEntryWins`, `RebuildFindsLast`, `IntactOpens`, `Implements`, `FullCopyOpens` |
| `render_progress` | 3 pages of 1 to 3 layers, one with an image that is hidden and one with an image out of sight, with 3 images of 4 streams (JBIG2, JPEG 2000 with a mask, broken), devices of 2 sizes, cache limited or not; up to 3 renderings, one image changed | `PaintedInOrder`, `LoadGoesOn`, `SizeIsEnough`, `LimitKept`, `OldestGoFirst`, `Implements`, `EventuallyDone` |
| `page_index_after_edits`, `uncounted_opens`, `page_at_wrong_place`, `reopened_linearized`, `saved_copy_lost` | the smallest such file | each finds a disagreement of code and documentation, see [below](#what-the-models-showed) |

The properties:

* *AvailableIsComplete* (both checkers): "available" is answered only when everything
  reachable is there. It relates the answer to reads of many calls, each at another moment.
* *ErrorHasReason, PageErrorHasReason*: an error makes embedders give up, so it must not be
  the answer for data that is merely missing.
* *WaitsForAsked*: a call that answers "not available" has asked for a byte it lacks. A read is refused
  for more than its own bytes, so the segment asked for must cover the same range. What was asked for is kept
from call to call: a byte that an earlier call asked for, and that has not come, counts as asked for. That
the last range itself was asked for is what `SegmentCovers` and the proof of *WaitsTheorem* show.
* *ImplementsCheck*: both checkers implement `PolledCheck`.
* *CallReturns*: a call ends although nothing more arrives and objects or sections name each
  other in cycles.
* *EventuallyAvailable, EventuallyDocAvail, EventuallyPagesAvail*: an embedder that keeps
  polling while the download completes gets its answer; from the two checkers also after a read
  that failed, from `DataAvail` (where `pages_polled` has `MaxErrors = 0`) after whatever sections, tables
  or nodes were refused or could not be used.
* *ImplementsPageSeq*: every edit and lookup answers, and leaves the document, as it would a
  sequence of pages. *CacheMatchesTree*, *CountsAreRight*, *ParentsAreRight* and
  *TraversalIsInStep* say why: they relate the caches, the counts of all ancestors and the
  interrupted walk to the tree. The index of a page is not among these lookups: it is in `PageIndex`, and its
  one property is refuted.
* *PageListIsRight*: `page_list_`, filled both by the checks and by lookups that count a missing
  child as one page, never names another page.
* *PageAvailableIsComplete, DocumentOpens*: after "available" the next call works.
* *ChainIsRight*: the sections that are loaded are those `/Prev` leads to, each once, although they
  are read newest first, filled in oldest first, and chains may be cyclic. *NewestEntryWins*: after all
  those passes an object has the entry of its newest layer. The layers are compared in the file
  itself, not in the lists the code keeps.
* *RebuildFindsLast*: a rebuilt table has the last object of each number, whatever an attempt that
  failed left in it. *IntactOpens*: a file is refused only if its trailers, its catalog or the
  root of its page tree are not there, are in an archive, or if that root has no pages.
* *Implements* (`SaveReopen`): only edits change what a document shows, across copies of copies.
  *FullCopyOpens*: a full copy of a document that has pages is loaded as it was written: the table is not
  rebuilt, the file is not refused, and the document shows what the one that was saved did. A copy of a document
  without pages has a whole table and is rebuilt all the same; what it then shows is part of *Implements*.
* *PaintedInOrder, Implements* (`ProgressiveRenderer`): no object is lost or painted twice by a pause;
  every image is painted with the content it has then, as sharp as the device can show it.
* *LoadGoesOn*: a paused load goes on with the entry it began. *SizeIsEnough*: `cache_size_` is never
  less than what is kept. *LimitKept, OldestGoFirst*: what eviction leaves behind an image, drawn or hidden,
  and in which order it takes. The order is that of the times that were recorded: *OldestGoFirst* does not say
  that these are the times at which the entries were used.
* *EventuallyDone*: a rendering that is continued ends.

**Bounds.** The constants are the smallest where the interesting cases meet. `MaxErrors = 1`: a
failure leaves at most its latch or its queue entry behind, and one is enough to be followed by
every recovery. Two edits: one to disturb the caches, one to depend on them, with lookups in
between that leave the traversal anywhere. `MaxPages` = 5 allows trees of three branches and a
move across two of them. Pages are only interesting as first, before or after the one asked
for, hence three. `MaxOpens` = 2: a document that meets the latches of another. `Early` (pieces
that have arrived before the first call) keeps a run of `DataAvail` to its question: what is early
in `pages_asked` is what the document needs before any page, in `pages_polled` what the other
run covers. Symmetry is not used: pages have places in the tree.

In `cross_ref_avail` blocks of 2 bytes make a block differ from a byte and from the file; all parts are
one byte long but one of 5, which spans three blocks. `FileSize` = 35 is odd, so the last block
is clipped, and `MaxOffset` = 36 puts the last stream where the arithmetic stops.
In `save_reopen` `MaxEdits = 1` counts from one opening to the next, so that both copies may differ from
what they were made of; a second copy is where the numbers, the archives and the rebuilt
table of the first matter. Of the layouts in `OnceFiles`, all but two, one copy is made. One of the two values is
`Paged`, so an edit of the root of the page tree may take its pages away or bring them.
In `render_progress` the limit holds two of the streams but not three; `MaxEntries = 1` makes the
limit on entries bite; `StepLimit = 2` (100 in the code) lets a call end by count inside and at the end
of a layer; three renderings are one that fills the cache, one that finds it, and one after an edit.
`EditWhileLoading = FALSE`: see [below](#what-the-models-showed).

`CHECK_DEADLOCK FALSE` where a document may stop: when the bound on edits is reached and all
pages are cached, or when everything has arrived, been answered and
closed for the last time, when all copies have been made or a file was refused, or when no
further rendering is to be started.

**InTurnSpec** in `pages_asked` restricts the embedder on linearized files: one page at a time, and
no second opening. Without it two of the findings below break the properties in this run; they
have runs of their own over `Spec`. Plain files are not restricted.

## Fairness

* A call in progress goes on: `WF(Step)` in the checkers, `Progress` in `DataAvail`. The library
  is sequential code without waits, so a call that was entered executes. (In `DataAvail` the part of
  it about `CheckFoundPage` is written `[]<>(call.at # "page")`: that action is always enabled there
  and ends the call, and TLC's evaluation of ENABLED through the lookup is slow.)
* The download completes: weak fairness of `Download` of each piece in `ObjectAvail` and `DataAvail`.
  `FX_DOWNLOADHINTS` asks the embedder for exactly that. In `CrossRefAvail`, where what is asked for is
  known, only that: as long as a byte that was asked for is missing, one of those arrives. Every byte that was asked for may,
so the assumption can be met in every state.
* The embedder polls: weak fairness of `CheckAvail`; strong fairness of `IsDocAvail`,
  `GetDocument` and `IsPageAvail(p)`, each of which is disabled while another call runs. The
  loops at `testing/pdfium_test.cc:1671` and `testing/embedder_test.cpp:665` do so. *CallReturns* needs none
  of the last two.
* A rendering in progress goes on, and is continued: `WF(Step)`, and `WF(Continue)`, for the loop the
  public header asks for (`FPDF_RenderPage_Continue` until the status is no longer "to be continued").
  Closing needs no fairness. No liveness is claimed of `SaveReopen`.

## Proofs

`tlapm` proves, for every object graph, every file and every page:

| Theorem | Statement |
|---|---|
| `ObjectAvailProofs!TypeCorrect` | `Spec => []TypeOK` |
| `ObjectAvailProofs!AvailableTheorem` | `Spec => []AvailableIsComplete` |
| `CrossRefAvailProofs!TypeCorrect` | `Spec => []TypeOK` |
| `CrossRefAvailProofs!AvailableTheorem` | `Spec => []AvailableIsComplete` |
| `CrossRefAvailProofs!ErrorTheorem` | `Spec => []ErrorHasReason` |
| `CrossRefAvailProofs!WaitsTheorem` | `Spec => WaitsForAsked` |
| `CrossRefAvailProofs!SegmentCovers` | a segment covers what is missing and stays in the file |
| `ObjectAvailProofs!Implementation`, `CrossRefAvailProofs!Implementation` | `Spec => ImplementsCheck` |
| `CrossRefLoadProofs!ChainIsRightAlways` | `LoadSpec => []ChainIsRight` |
| `CrossRefLoadProofs!NewestEntryWinsAlways` | `LoadSpec => []NewestEntryWins` |
| `CrossRefLoadProofs!RebuildFindsLastAlways` | `LoadSpec => []RebuildFindsLast` |
| `CrossRefLoadProofs!IntactOpensAlways` | `LoadSpec => []IntactOpens` |
| `SaveReopenProofs!TypeOKAlways` | `Spec => []TypeOK`, and so every copy is a file |
| `SaveReopenProofs!CopiesLoadAlways` | the four properties of a load, for `Spec`: for every copy of a copy |
| `SaveReopenProofs!OnlyEditsChangeAlways` | `Spec => OnlyEditsChange`: the steps of an open document are those of `Document` |
| `SaveReopenProofs!FullCopyOpensAlways` | `Spec => FullCopyOpens`: saving a document with pages as a whole and opening it again, for every file and history |
| `PageTreeProofs!TypeCorrect` | `Spec => []TypeOK` |
| `PageTreeProofs!CacheAlwaysMatchesTree` | `Spec => []CacheMatchesTree` |
| `PageTreeProofs!CountsAlwaysRight` | `Spec => []CountsAreRight` |
| `PageTreeProofs!ParentsAlwaysRight` | `Spec => []ParentsAreRight` |
| `PageTreeProofs!TraversalAlwaysInStep` | `Spec => []TraversalIsInStep` |
| `PageTreeProofs!RefinesPageSeq` | `Spec => ImplementsPageSeq` |
| `DataAvailProofs!TypeOKAlways` | `Spec => []TypeOK` |
| `DataAvailProofs!DocumentOpensAlways` | `Spec => []DocumentOpens`, if every root has a `/Count` |
| `DataAvailProofs!PageListIsRightAlways` | `InTurnSpec => []PageListIsRight`, if every root has a `/Count` |
| `DataAvailProofs!PageAvailableIsCompleteAlways` | `InTurnSpec => []PageAvailableIsComplete`, if every root has a `/Count` |
| `DataAvailProofs!PageErrorHasReasonAlways` | `InTurnSpec => []PageErrorHasReason`, if every root has a `/Count` |
| `PaintingProofs!PaintedInOrderAlways` | `Spec => []PaintedInOrder` |
| `PaintingProofs!TypeOKAlways` | `Spec => []TypeOK` |
| `PaintingProofs!LoadGoesOnAlways` | `Spec => []LoadGoesOn` |
| `PaintingProofs!SizeIsEnoughAlways` | `Spec => []SizeIsEnough` |
| `PaintingProofs!LimitKeptAlways` | `Spec => LimitKept` |
| `PaintingProofs!OldestGoFirstAlways` | `Spec => OldestGoFirst` |
| `PaintingProofs!RefinesPainting` | `~EditWhileLoading`, `Spec => Implements` |

*Assumptions*: those named in the modules, on the shape of the constants only. A part refers to
objects, a link leads to a section, the null object is empty, an object that is only a reference
has one part. The marks for "nothing" are no values (`LoadAssumption`, `NullAssumption`, `SaveAssumption`),
and a catalog, which is a record, is told from other values (`CatalogAssumption`). The values with pages are some of the
values (`LoadAssumption`). Each
image has a stream of its own at first (`FirstStreamAssumption`; `CPDF_DocPageData::GetImage` keeps one image
for each). Object numbers are finitely many (`SaveAssumption`; the code has a largest one), and the files that are
opened first are files (`IsFile`: a sequence of well-formed items, which says what can be parsed and not that
it is in order: chains may be cyclic, positions wrong, the catalog missing). Nodes and pages are finitely
many (`NodesAssumption`). The files that `PageTree` opens have page trees (`IsTree`: nodes become deeper on
the way down, nothing is in two places, nothing is above the root), of any shape, with empty nodes. So have the files of
`DataAvail`, and the page at the beginning of a linearized one is one of its pages (`TreesAssumption`). What
is said of pages there, and `DocumentOpensAlways`, is for files whose root has a `/Count`;
for the others `DocumentOpens` is false ([below](#what-the-models-showed)). The three theorems
about pages are about `InTurnSpec`, as the run `pages_asked` is: an embedder that asks for the pages of a linearized
document one at a time and opens it once, since of others two of the properties are false (ibid.). Nothing is assumed about
cycles or sizes; block size, largest offset, limits and the steps of a call are any numbers.
`RefinesPainting` assumes that no image is changed while its load is paused, because
otherwise it is false ([below](#what-the-models-showed)); the other theorems about the renderer do not.

*ObjectAvail.* The answer speaks of everything reachable, but a walk that is interrupted has seen
only some of it. The inductive invariant `IInv` therefore adds to `TypeOK`: which variables can be in
use at each place of a call (`Locals`); where the root is while the call follows the references it
consists of (`RootIsReference`); `NothingForgotten`: every object that a parsed object leads to is itself
parsed, or waits on the stack, or is in the list for the next call; and `RootIsNull`: the root pointer is
null only when nothing is left to do. When the stack and that list are empty
the parsed objects are closed under following references and contain the root, and so contain
everything reachable (`ClosedIsEnough`). The key lemma is `WalkIsComplete`: a walk that met no problem
pushed every reference that a renderer follows. It fails when an excluded dictionary is mistaken
for a plain one because its type could not be read, which is why the code checks for read problems
before it trusts a walk. There is one lemma per action.

*CrossRefAvail.* `Progress`: each registered section is finished (all parts arrived, and all links
registered), or waits in the queue, or is the one being checked. `TableProgress`: of that one the parts
before `offset_` have arrived. `DoneIsAvailable`: the queue is empty when the answer is given.
`AddedFacts` and `PoppedFacts` state once what the queue operations do.

*WaitsTheorem.* A call answers "not available" only from `ReadProblem`, with a range that was refused;
`RangeFacts` says that such a range lies in the file and is not empty, `SegmentCovers` that the segment
asked for covers it, so the byte for which it was refused is in it. The theorem rests on
`DataOutOfReach`: where the range cannot be computed the code answers with an error instead.

*Implementation* (twice). The initial states and each step are mapped: a step inside a call either
changes nothing `PolledCheck` sees, or only what is missing; the step that answers uses the invariant
of `AvailableTheorem` for "available", and that this answer is never given up.

*ChainIsRight* is nearly inductive. What it lacks is where the loading is: the lists are empty before the
newest section is read and not empty during the search, and entries that are read after the search belong to
a chain whose `/Prev` was 0 (`Progress`). `ChainGrows` is the step that adds a section, shown once for tables and
for streams.

*NewestEntryWins* is about the table when all passes are over. `WinsInv` says what is in it before: the layers have
ranks (older sections below newer ones, and the stream a table names below the table), `Level`
is the rank up to which they are merged, one less for the entries of a section that are still `todo`, and
for each number the entry of the highest of its layers up to that rank, if it is a regular one, shows in the table (`Settled`). A
later entry is merged by comparing generations and by asking whether the number is that of an object stream, so
both must be known to come from some layer (`GensKnown`, `ArchivesKnown`), and `SetObjectMapSize` must not
have cut off entries of the section being read (`Covered`): a segment begins when the entries before it are
merged, and growing to `SegmentEnd` removes nothing. `Entered` is the one fact about a
merge the steps use, shown for normal, free and compressed entries.

*RebuildFindsLast* and *IntactOpens* rest on `RebuildInv`: in the middle of a scan the new table has the newest object
of each number up to there (`ScanRight`); after it, the root of the trailer is the last one named in the
file (`FindsRoot`); and objects that are in memory by then do not stand in the way of the catalog (`CatalogsRead`). The last
part is what *IntactOpens* depends on, and shows where it ends: see [below](#what-the-models-showed). It does
not need the same of the page tree root: a file is refused for its pages only when its table had been rebuilt
before anything of it was read, and after a second rebuild a catalog is enough.

*SaveReopen.* `SInv` is the invariant of a load (`LoadInv`, `RebuildInv`, `WinsInv`) together with `DocInv`: what is
in memory or in the table has a number up to `lastObj`, so an object that is added takes the place of
no other, and never of the catalog. Opening a copy starts a new parser, for which the invariant of a load holds
anew if the copy is a file: that is shown for each way to save (`FullCopyIsFile`, `IncrementalCopyIsFile`, `CutIsFile`). The
code writes numbers in ascending order; `RankFacts` says that counting the smaller ones enumerates them all.
*OnlyEditsChange* is *Implements* without its opening step: a lookup parses an object and
keeps it, which must show what the file showed (`ParseStays`), also when the parse fails or meets a number that is
being changed; an edit changes its object only (`OneChanges`); and saving changes nothing.

*FullCopyOpens* compares two documents with a file and many steps between them. What makes that
possible is that a full copy stands alone: it ends with one table, without a `/Prev`, that lists each object
where it is, so what a document opened from it must show can be read off its bytes (`ShowsAlone`). There are
three parts. The copy that `SaveFull` writes shows, in this sense, the `View` of the document (`FullCopyShows`): every object it
refers to and has is written once, at the place that is listed (`FullNumbersFacts`, `OffsetsPlace`), none it does not
have is listed, and the encryption dictionary is found under the number in the trailer, also when it had none
(`EncFacts`, from `EncHeld`: the dictionary stays in memory through every edit). A load of a file that stands
alone takes one path, on which the table holds exactly the entries read so far (`LoadsAlone`, one step per
action: `AloneFinds`, `AloneReads`, `AloneOnly` for the actions that cannot happen), and ends in a document that shows that
(`AloneOpens`). And from `SaveFull` to `Reopen`, and from there to the end of the load, nothing changes the bytes (`FullInv`).
That the load is over when the catalog is found is where pages are needed (`promise.paged`). Copies
without the promise (`EncLost`, `EncNumberTaken`) are excluded by it. An incremental copy does not
stand alone: what it shows depends on what the old sections show when they are loaded once more, below a new
one, and that comparison of two loads is left to TLC.

*PageTree.* The caches and the tree are right together or not at all, so they are one invariant: `Good` says that the Kids
are a tree (`IsTree`), `page_list_` is right where it is filled (`Cached`), every `/Count` and `/Parent` is, and the walk
is where its page number says (`InStep`); `IInv` adds that pages not created yet are nowhere in the tree. Every operation keeps it, and its effect on the
leaves is that of `PageSeq`. Three arguments carry the proof. *A walk*, of a lookup or a
search, is at a place of the tree whose pages before it are known (`Stands`, with the number of pages to the left of each level), and no walk
takes more than `MaxTurns` turns: the moves that are left are counted as a set (`Moves`), which loses an element with every turn,
because a tree has finitely many places. So a walk ends, and ends where it should
(`LookupRight`, `SearchOn`). *An edit* adds or removes one page at one place of one node: `Grown` relates the two trees, `Spliced` the two
sequences of leaves, for every node on the way to the place and for no other, which is what makes the counts that `InsertDeletePDFPage` updates the
right ones, and the ones it leaves alone. The leaves of a node are a recursive
function, so what an edit does to them goes by the least depth at which it could fail. *A move* is a loop of deletions and a loop of insertions:
after n deletions in descending order the document lacks the n highest of the pages (`Without`), after n
insertions it has the first n of them at the destination (`Mixed`), which no index taken before the deletions would
survive in another order. `DeletionOrder` and `Without` are written with the n-th element of a set (`Nth`), which needs that a finite set of numbers
has as many elements below its n-th as `Nth` says.

*DataAvail.* `DInv` says which calls there can be (`CallInv`): a page is only asked for when the document is open, a
walk for one page only while the whole tree is not being loaded. In a linearized file there is no page tree before
the main cross-reference table is there (`LinearInv`), and objects wait to be looked at only while the whole tree is
being loaded (`ObjsInv`), which is why the end of `IsDocAvail` may clear the objects seen. *DocumentOpens* rests on
`OpenInv`: from which status on an ordinary file has its catalog and the root of its page tree. A status says
this also when it was reached by an error and the download of the whole file, and once the document is
available the status no longer matters, so the later calls, which set it back and forth, cannot lose it. That
`page_list_` keeps its length and its type (`LookupTyped`) is shown for one turn of the walk (`TurnTyped`) and then
for all: that the turns can be taken one after the other, which is what a recursive function says, follows
from the least number at which they could not (`TurnsTaken`, `UpToBound`). `PlaceFound` shows in the same way that the
check for one page, which counts the pages it meets, comes to a page and not to a node.

*The pages of DataAvail.* An answer "available" comes from `CheckPageNode`, which walks the tree in one order
(a node before its kids); what is promised is what a lookup finds, which walks in another and counts a node it cannot read as
one page. They meet in what must have arrived: `Way[p]`, all that `CheckPageNode` passes until it
has counted to page p, and `Ready`, the pages all of whose way has arrived. That `CheckPageNode` passes the pages in
the order of the leaves (`WalkPasses`) and a node above page p before page p (`KidOnTheWay`) is shown for all
trees, by the least depth at which it could fail. So a lookup of a ready page reads every node on
its left, counts right and finds it (`ReadyCanRead`, with `LookupRight` of `PageTraversalProofs`), while a lookup
that cannot read something changes nothing behind the page it looks for (`LookupBeyond`). `PInv` follows that through the calls:
`ListRight` (what is in `page_list_` is right, and ready or the first page of a linearized file; the
interrupted walk is in step), `AskedRight` (when `cur_page_dict_load_ok_` lets the walk be skipped, no page that was asked for
still waits for its way, which is where asking for pages in turn is needed), `Statuses` (behind "done" is the whole
file or the page in question), `MainTable` (an open linearized document has the main table that was read)
and `Available`. TLC checked `PInv` on the constants of `pages_asked` before it was proved. It contains the three properties but for
the lookup, which *PageAvailableIsComplete* takes from `ReadyLookup`.

*PaintedInOrder* speaks of the place that was reached. `Located` adds that a loop that is not inside a
layer is not inside an object, and that an image is loaded or drawn only at an object of the list
that can be seen; with `Typed` and *PaintedInOrder* itself that is inductive (`IInv`). `OnePainted` is the
one step that paints; all others paint nothing and move the place over nothing visible
(`NothingPainted`, `ObjectPassed`).

*The cache.* `RInv` adds `CacheSound`: the entry that is current is in the cache if it is said to be, no two images have
one stream, and the sizes are sound. `cache_size_` is kept by hand and compared with the sum of the sizes of the entries. That
sum would be a recursion; the module counts the set of the bytes kept instead (`Bytes`), so that adding, replacing and removing an entry are facts
about cardinalities (`BytesOfWith`, `BytesReplaced`, `BytesLeft`). *OldestGoFirst* follows from what `GoneThrough` says of the
entries gone through (`Oldest`), once every entry taken out is one of them. *LimitKept* needs that an entry that stays and is
`Live` was not gone through (`LiveIsLeft`), so that the entries that stay are counted among the rest, and that
enough were gone through (`Enough`), the second loop ending at the limit or with all of them. Both hold for any order
among entries of one age. *RefinesPainting* rests on `CacheRight`: every bitmap kept is that of the stream it is filed
under; and on `LoadRight`, the same for the load that is paused, which is where a
change of the image would break it.

*Only model-checked*: all liveness (fairness and ENABLED are out of the prover's reach);
`PageIndex`, whose searches are recursive operators, in whose
presence `tlapm` has no SMT backend, and whose one property is false; the opening step of `Document` for
incremental copies and for those cut short; and the properties of the runs that find a disagreement.

## What the models showed

Each with a run that finds it and a finding in `PROJECT.json`:

1. `FindPageIndex` (`cpdf_document.cpp:140`) takes a node with as many pages below it as it has kids for
   a node all of whose kids are pages. An emptied branch beside a branch of two pages makes
   the numbers agree, and the index of another page is returned and cached.
2. `CPDF_DataAvail::CheckPage()` (`cpdf_data_avail.cpp:319`) cannot tell a missing object from one not in
   the file; a document whose page tree root has no `/Count` is answered "available" and does not open.
3. `cur_page_dict_load_ok_` (`cpdf_data_avail.cpp:909`) is one latch for all pages. With pages asked for
   alternately in a linearized file, a page number comes to lead to another page.
4. `OnObservableDestroyed` (`cpdf_data_avail.cpp:90`) keeps the latches of a document that was closed; the
   next one is told that pages are available which it cannot find.
5. An incremental save writes every entry with generation 0 (`cpdf_creator.cpp:453`), and `AddNormal` ignores an
   entry of a lower generation than the one it has (`cpdf_cross_ref_table.cpp:70`): a changed object with a
   generation shows its old value in the copy.

Copies that are not kept whole for other reasons are named in `SaveReopen`, where `Copied` promises
nothing for them (so that *Implements* holds of all others), and have no run:

* `ArchivedLost`: an incremental save after a rebuild lists archived objects as if they had a position.
* `ChainKept`: the table was rebuilt to find the catalog, but `/Prev` of the copy leads to the old sections.
* `EncLost`, `EncNumberTaken`: the trailer names an inline `/Encrypt` by the number after the document's last
  one; a full copy without new objects writes it under the number after the last object it has written, and
  either number may be one the document refers to but does not have, or above the largest there is.
* `CutLost`: an append that stopped in the middle of the catalog, of the root of the page tree or of the encryption
  dictionary (`OpeningNeeds`), that has to be recovered from archives that are encrypted, that went behind an
  earlier one that also stopped, or that was made of a document without pages, before or after its edits.
* `StaleEncrypt`: a rebuild finds an old cross-reference stream, kept or written again, whose dictionary names an
  encryption dictionary, where the trailer that is used does not.

Opening an incremental copy of a document that no longer has pages rebuilds its table, so it promises no more than
one that was cut short does: each object as it was or as it was to be.

The proof of *IntactOpens* showed one thing more, which no copy meets. An object that was read while opening stays in
memory when the table is rebuilt (`cpdf_parser.cpp:274`). If the number of the catalog led to an object that
is no catalog, the one a second rebuild finds under this number is hidden by it, and the file is refused (the layout
`OlderCatalog`); *IntactOpens* asks therefore that all objects of that number are catalogs. A file whose
catalog is whole is refused as well when its table had to be rebuilt and the root of its page tree is lost, or has no
pages (the layout `NoPagesLeft`); with a table that could be loaded it opens (`NoPages`).

The model also keeps the following as it is in the code: a rebuild of a file where an object and a
cross-reference stream have one number takes the later, free entries of a table do not hide
entries of older sections while a table is merged, and `VerifyCrossRefTable` reads the position of an
archived entry from a union in which it is something else (`UnionPos`).

Met on the way, and without a run:

* The cause of 3 also makes a page whose data is merely missing be answered with an error.
* Without a `/Count` in the root, a page that a lookup passed while it was missing stays an
  error for good (hence `file.counted` in *EventuallyPagesAvail*).
* In a linearized file without `/Count`, `LoadPages` leaves `seen_page_obj_list_` filled, and the DCHECK
  at `cpdf_data_avail.cpp:105` fails in the next `IsDocAvail`.
* After one failed read of the main cross-reference table every other page is "not available"
  for good: `main_xref_load_tried_` is set first (hence `mainXRef # "failed"`).
* The data of a stream whose end plus one block is beyond the largest offset are not checked, nor asked
  for: an error although nothing is wrong with the file (`DataOutOfReach`, hence `Usable`).
* The data of a stream are checked first and copied with `CHECK(did_read)` later
  (`cpdf_syntax_parser.cpp:862`): a read that fails between the two ends the process. The models have it as
  an error of the call.
* An image that is changed while its load is paused: `cpdf_pageimagecache.cpp:216` files the bitmap of the
  old stream under the new one, and renderings show the old picture. With `EditWhileLoading = TRUE` TLC refutes
  *Implements*; the embedder would have to call `FPDFImageObj_SetBitmap` between two calls of
  `FPDF_RenderPage_Continue`.
* `CacheOptimization` (`cpdf_pageimagecache.cpp:127`) takes entries out by the stream their image has now, not by
  their key: the entries of images that were changed stay, above the limit (hence `Live` in
  *LimitKept*), although `public/fpdfview.h:831` says "Limit image cache size."
* `cache_size_` only drifts upward: an entry loaded again for a larger device is added without its old size
  being taken away. Images smaller than the device are loaded again by each rendering.

## What is not modelled

* In `DataAvail`: hint tables that parse, entries of `/Kids` that are arrays, malformed page
  trees, XFA pages, the depth limits, a root that is no dictionary; reads that fail inside the document
  (as opposed to the checks). In `PageTree`: malformed trees and XFA documents.
* In `ObjectAvail` and `DataAvail` bytes: a read finds its data or does not, and what is asked for is left
  out. `CrossRefAvail` has both. In `ReadValidator`: sessions that save and restore the errors, a
  validator without hints, reads of no bytes.
* In `CrossRefLoad`: linearized files (`LoadLinearizedAllCrossRefTable`, which loads the first section before
  the rest), a catalog without a number, page tree roots whose pages are counted for want of a `/Count`, lexing. In `SaveReopen`: lookups nested in the parse of an
  object, `ReplaceIndirectObjectIfHigherGeneration`, new documents without a file, the file identifier,
  the writing of fonts.
* In `ProgressiveRenderer`: masks on Windows printers (`bBreakForMasks`), the drawing of an object or image on a
  bitmap of the background when a device refuses it (`DrawObjWithBackground`, a device of another size), objects inserted into or removed from a
  page, and annotations drawn by `FPDF_FFLDraw`, while a rendering is paused (`Continue` works on whatever entry
  the last `StartGetCachedBitmap` of the page left), a `Start` over a rendering that was not closed. Layers are
  parsed to their end before they are rendered (`cpdf_page.cpp:107`, `cpdf_form.cpp:91`), so the branch that
  parses further is not reached. In `PageImageCache`: the ages' wrap around after 2^32 loads.
* Codecs, fonts, text extraction, drawing, encryption: functions of their input, where tests and
  fuzzers reach further than a model of bounded inputs. They are the larger part of the
  source's lines, with generated tables (fonts, character maps) the largest.
* V8 and XFA: other systems, or optional ones.
* `third_party`, `testing`, `patches` (not applied to this source).

## Plan

Done, in this order: `ObjectAvail`, `PageSeq`, `PageTraversal`, `PageTree`, `CrossRefAvail`, `DataAvail`; the
proofs of the two checkers; `CrossRefTable`, `CrossRefLoad`, `Document`, `SaveReopen` and the proof about the
chain; `Painting`, `PageImageCache`, `ProgressiveRenderer` and the proof about the order; `PolledCheck` and the
two proofs of implementation; `ReadValidator`, with `CrossRefAvail` down to the byte and the proof that what is
waited for was asked for; the proofs about what is in a table, about the image cache, that the renderer implements
`Painting`, about documents that are edited and saved, about opening a document while it is downloaded and asking for its pages, and that a full copy
opens as what was saved; the proofs about lookups, and about the page tree under every edit, with its refinement of `PageSeq`.

To come, the most important first:

1. Linearized loading in `CrossRefLoad`: the main section is loaded by `DataAvail` into a table that already has
   the first page's; *NewestEntryWins* for it.
2. Requests in `ObjectAvail` and `DataAvail`, as in `CrossRefAvail`: *WaitsForAsked* for every answer "not
   available", including those that latches give without a read.
3. Hint tables in `DataAvail`: ranges computed from data of the file.
4. Nested lookups in the indirect object holder; the name tree; timers and scripts that destroy their target.
5. Proofs, the most important first:
   * The round trip of incremental copies: two loads of the old sections, one below a new section, compared.
   * No page twice in `PageSeq`.
