--------------------------- MODULE PageImageCache ---------------------------
(***************************************************************************)
(* CPDF_PageImageCache (core/fpdfapi/page/cpdf_pageimagecache.cpp): the    *)
(* decoded images of a page, by the stream they were decoded from.         *)
(*                                                                         *)
(* Sizes stand for a width and a height and for the bytes they take.  The  *)
(* size a rendering asks for is the device's, never 0, so that             *)
(* cached_set_max_size_required_ is set by every load and left out.  The   *)
(* roll-over of time_count_ after 2^32 loads is left out as well.          *)
(***************************************************************************)
EXTENDS Integers, FiniteSetsExt

CONSTANTS
    Images,      \* the images of the page
    Streams,     \* streams an image may have
    StreamInfo,  \* for each: size, mask and steps; jpx and good or not
    MaxEntries,  \* 15: what an optimization keeps at most
    Nothing      \* a null pointer

ASSUME CacheAssumption ==
    /\ Streams \subseteq Nat /\ MaxEntries \in Nat \ {0}
    /\ Nothing \notin Images
    /\ StreamInfo \in [Streams -> [ size : Nat \ {0}, mask : Nat, steps : Nat,
                                    jpx : BOOLEAN, good : BOOLEAN ]]

VARIABLES
    imageStream,   \* stream_ of each CPDF_Image
    imageCache,    \* image_cache_
    cur,           \* cur_image_cache_entry_
    timeCount,     \* time_count_
    cacheSize      \* cache_size_

cacheVars == <<imageCache, cur, timeCount, cacheSize>>

(* What a load makes, or has made so far: left is what is still to decode. *)
Bitmap == [stream : Streams, size : Nat, left : Nat]

(* What a bitmap and a mask that are drawn show.                           *)
Shown == [stream : Streams, size : Nat, mask : Streams \cup {Nothing}]

ASSUME NullAssumption == Nothing \notin Streams \cup Bitmap \cup Shown

Entry == [ image : Images, time : Nat, size : Nat,
           curBitmap : Bitmap \cup {Nothing},
           cachedBitmap : Bitmap \cup {Nothing},
           cachedMask : Streams \cup {Nothing} ]

NewEntry(i) == [ image |-> i, time |-> 0, size |-> 0, curBitmap |-> Nothing,
                 cachedBitmap |-> Nothing, cachedMask |-> Nothing ]

(* cur_image_cache_entry_ owns its entry until that is in the cache.       *)
NoCur == [kind |-> "none"]
Kept(s) == [kind |-> "kept", key |-> s]
Owned(e) == [kind |-> "owned", entry |-> e]

CurEntry == IF cur.kind = "owned" THEN cur.entry ELSE imageCache[cur.key]

With(cache, s, e) == [k \in DOMAIN cache \cup {s} |-> IF k = s THEN e ELSE cache[k]]
Without(cache, S) == [k \in DOMAIN cache \ S |-> cache[k]]

(* The bytes that the entries under the streams of S take.                 *)
Bytes(cache, S) == UNION {{s} \X (1 .. cache[s].size) : s \in S}
TotalSize(cache, S) == Cardinality(Bytes(cache, S))
-----------------------------------------------------------------------------
(* CPDF_PageImageCache::Entry.                                             *)

CalcSize(e) ==
    (IF e.cachedBitmap = Nothing THEN 0 ELSE e.cachedBitmap.size)
    + (IF e.cachedMask = Nothing THEN 0 ELSE StreamInfo[e.cachedMask].mask)

Sized(e) == [e EXCEPT !.size = CalcSize(e)]

IsCacheValidAlways(e, dev) ==      \* fault: the size is not looked at
    e.cachedBitmap # Nothing
IsCacheValid(e, dev) ==
    e.cachedBitmap # Nothing /\ e.cachedBitmap.size >= dev

(* A JPEG 2000 image is decoded at the smallest of its resolutions that is *)
(* not below the one asked for.                                            *)
Reductions(m) == {p \in 1..m : \E n \in 0..m : p = 2 ^ n}
DecodedSize(s, dev) ==
    LET size == StreamInfo[s].size
    IN  IF StreamInfo[s].jpx
        THEN size \div Max(Reductions(Max({1, size \div dev}))) ELSE size

(* StartLoadDIBBase, on the stream that the image has now.                 *)
Loading(e, dev) ==
    LET s == imageStream[e.image]
    IN  [e EXCEPT !.curBitmap = [ stream |-> s, size |-> DecodedSize(s, dev),
                                  left |-> StreamInfo[s].steps ]]

DecodingAgain(e) == e              \* fault: decoding starts over after a pause
Decoding(e) == [e EXCEPT !.curBitmap.left = @ - 1]

(* ContinueGetCachedBitmap, and the loader taking the bitmap and the mask. *)
Loaded(e) ==
    LET s == e.curBitmap.stream
    IN  IF ~StreamInfo[s].good THEN [e EXCEPT !.curBitmap = Nothing]
        ELSE Sized([e EXCEPT !.time = timeCount,
                             !.cachedBitmap = e.curBitmap,
                             !.cachedMask = IF StreamInfo[s].mask > 0 THEN s ELSE @,
                             !.curBitmap = Nothing])

Picture(e) == [ stream |-> e.cachedBitmap.stream, size |-> e.cachedBitmap.size,
                mask |-> e.cachedMask ]
-----------------------------------------------------------------------------
(* StartGetCachedBitmap: the image is there, sharp enough, ...             *)
Found(i) == imageStream[i] \in DOMAIN imageCache
EntryFor(i) == IF Found(i) THEN imageCache[imageStream[i]] ELSE NewEntry(i)

StartFindsBitmap(i, dev) ==
    /\ Found(i) /\ IsCacheValid(EntryFor(i), dev)
    /\ cur' = Kept(imageStream[i])
    /\ timeCount' = timeCount + 1
    /\ imageCache' = [imageCache EXCEPT ![imageStream[i]].curBitmap = Nothing]
    /\ UNCHANGED <<imageStream, cacheSize>>

(* ... or it is loaded, which may take more than this call.                *)
StartLoads(i, dev) ==
    LET s == imageStream[i]
        e == Loading(EntryFor(i), dev)
    IN  /\ ~(Found(i) /\ IsCacheValid(EntryFor(i), dev))
        /\ e.curBitmap.left > 0
        /\ IF Found(i) THEN cur' = Kept(s) /\ imageCache' = [imageCache EXCEPT ![s] = e]
           ELSE cur' = Owned(e) /\ UNCHANGED imageCache
        /\ UNCHANGED <<imageStream, timeCount, cacheSize>>

(* The end of a load: the entry is put under the stream its image has, and *)
(* its size is added, whatever the entry had counted for before.           *)
SizeAddedBefore(e) ==              \* fault: the size before the load is added
    cacheSize + e.size
SizeAdded(e) == cacheSize + Loaded(e).size
EndsLoad(e, s) ==
    /\ imageCache' = With(imageCache, s, Loaded(e))
    /\ cur' = Kept(s)
    /\ timeCount' = timeCount + 1
    /\ cacheSize' = SizeAdded(e)
    /\ UNCHANGED imageStream

StartLoadsAtOnce(i, dev) ==
    LET e == Loading(EntryFor(i), dev)
    IN  /\ ~(Found(i) /\ IsCacheValid(EntryFor(i), dev))
        /\ e.curBitmap.left = 0
        /\ EndsLoad(e, imageStream[i])

(* Continue: one more piece, or the end.                                   *)
ContinueDecodes ==
    /\ CurEntry.curBitmap.left > 1
    /\ IF cur.kind = "owned"
       THEN cur' = Owned(Decoding(cur.entry)) /\ UNCHANGED imageCache
       ELSE /\ imageCache' = [imageCache EXCEPT ![cur.key] = Decoding(@)]
            /\ UNCHANGED cur
    /\ UNCHANGED <<imageStream, timeCount, cacheSize>>

ContinueEnds ==
    /\ CurEntry.curBitmap.left = 1
    /\ EndsLoad([CurEntry EXCEPT !.curBitmap.left = 0],
                IF cur.kind = "owned" THEN imageStream[cur.entry.image] ELSE cur.key)
-----------------------------------------------------------------------------
(* CacheOptimization: the entries are gone through by age, those of one    *)
(* age in any order, and what is taken out for one is the entry under the  *)
(* stream its image has now.                                               *)
Younger(j, k) ==                   \* fault: the youngest entries go first
    imageCache[j].time >= imageCache[k].time
NotYounger(j, k) == imageCache[j].time <= imageCache[k].time

Oldest(S) == \A j \in S : \A k \in DOMAIN imageCache \ S : NotYounger(j, k)

Cleared(S) == {imageStream[imageCache[k].image] : k \in S} \cap DOMAIN imageCache
SizeWithout(S) == cacheSize - TotalSize(imageCache, Cleared(S))

EnoughBytes(S, limit) ==           \* fault: the number of entries is not limited
    SizeWithout(S) <= limit \/ S = DOMAIN imageCache
Enough(S, limit) ==
    /\ Cardinality(S) + MaxEntries >= Cardinality(DOMAIN imageCache)
    /\ SizeWithout(S) <= limit \/ S = DOMAIN imageCache

(* The entries of S have been gone through, the last of them because those *)
(* before it were not enough.                                              *)
GoneThrough(S, limit) ==
    /\ Oldest(S) /\ Enough(S, limit)
    /\ \E last \in S : Oldest(S \ {last}) /\ ~Enough(S \ {last}, limit)

CurAlways(S) ==                    \* fault: the pointer is not reset
    cur
CurAfter(S) ==
    IF cur.kind = "kept" /\ cur.key \in S THEN NoCur ELSE cur

CacheOptimization(limit) ==
    IF cacheSize <= limit THEN UNCHANGED <<imageStream, cacheVars>>
    ELSE \E S \in SUBSET DOMAIN imageCache :
           /\ GoneThrough(S, limit)
           /\ imageCache' = Without(imageCache, Cleared(S))
           /\ cacheSize' = SizeWithout(S)
           /\ cur' = CurAfter(Cleared(S))
           /\ UNCHANGED <<imageStream, timeCount>>

(* ResetBitmapForImage: the bitmap goes, the entry and its mask stay.      *)
ResetEntry(e) == Sized([e EXCEPT !.cachedBitmap = Nothing])
ResetBitmapForImage(i) ==
    LET s == imageStream[i]
    IN  IF ~Found(i) THEN UNCHANGED cacheVars
        ELSE /\ imageCache' = [imageCache EXCEPT ![s] = ResetEntry(@)]
             /\ cacheSize' = cacheSize - imageCache[s].size
                               + ResetEntry(imageCache[s]).size
             /\ UNCHANGED <<cur, timeCount>>
=============================================================================
