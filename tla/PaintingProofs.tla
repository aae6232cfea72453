--------------------------- MODULE PaintingProofs ---------------------------
(***************************************************************************)
(* The image cache alone: what its operations keep true, whatever the      *)
(* images, their streams and the limits, and which entries an optimization *)
(* takes out.  Then the renderer with it: whatever the pages, the          *)
(* images, the limits and the pauses, the cache keeps within its limit and *)
(* its oldest go first, a load that is continued is that of the object     *)
(* being rendered, and what is painted is what the page says.              *)
(***************************************************************************)
EXTENDS ProgressiveRenderer, FiniteSetTheorems, WellFoundedInduction, TLAPS

-----------------------------------------------------------------------------
(* Numbers and finite sets.                                                *)

(* A set of natural numbers that is not empty has a least element: the     *)
(* intervals from 0 to its elements have a smallest one.                   *)
LEMMA LeastElement ==
    ASSUME NEW T \in SUBSET Nat, T # {}
    PROVE  \E x \in T : \A y \in T : x <= y
<1> DEFINE F == {0 .. x : x \in T}
<1>1. F \in SUBSET FiniteSubsetsOf(Nat) /\ F # {}
  <2> SUFFICES ASSUME NEW x \in T
               PROVE  IsFiniteSet(0 .. x) /\ 0 .. x \in SUBSET Nat
    BY DEF FiniteSubsetsOf
  <2> QED BY FS_Interval
<1> HIDE DEF F
<1>2. PICK X \in F : \A Y \in F : ~(<<Y, X>> \in StrictSubsetOrdering(Nat))
  BY <1>1, FS_StrictSubsetOrderingWellFounded, WFMin
<1>3. PICK x \in T : X = 0 .. x
  BY DEF F
<1>4. \A y \in T : x <= y
  <2> SUFFICES ASSUME NEW y \in T, y < x
               PROVE  FALSE
    OBVIOUS
  <2>1. 0 .. y \in F
    BY DEF F
  <2>2. x \in 0 .. x /\ x \notin 0 .. y
    OBVIOUS
  <2>3. /\ 0 .. y \in SUBSET Nat /\ 0 .. x \in SUBSET Nat
        /\ 0 .. y \subseteq 0 .. x /\ 0 .. y # 0 .. x
    BY <2>2
  <2> QED BY <2>1, <2>3, <1>2, <1>3 DEF StrictSubsetOrdering
<1> QED BY <1>4

(* A bounded one has a greatest element.                                   *)
LEMMA GreatestElement ==
    ASSUME NEW T \in SUBSET Nat, T # {}, NEW m \in Nat, \A x \in T : x <= m
    PROVE  Max(T) \in T /\ \A y \in T : Max(T) >= y
<1> DEFINE U == {m - x : x \in T}
<1>1. U \in SUBSET Nat /\ U # {}
  <2>1. \A x \in T : m - x \in Nat
    OBVIOUS
  <2> QED BY <2>1
<1> HIDE DEF U
<1>2. PICK u \in U : \A v \in U : u <= v
  BY <1>1, LeastElement
<1>3. PICK x \in T : u = m - x
  BY DEF U
<1>4. \A y \in T : x >= y
  <2> SUFFICES ASSUME NEW y \in T
               PROVE  x >= y
    OBVIOUS
  <2>1. m - y \in U
    BY DEF U
  <2> QED BY <2>1, <1>2, <1>3
<1> QED BY <1>4 DEF Max

-----------------------------------------------------------------------------
(* The bytes of the entries.                                               *)

(* An entry takes as many bytes as its size says.                          *)
LEMMA BytesOfOne ==
    ASSUME NEW s, NEW n \in Nat
    PROVE  IsFiniteSet({s} \X (1 .. n)) /\ Cardinality({s} \X (1 .. n)) = n
<1>1. IsFiniteSet({s}) /\ Cardinality({s}) = 1
  BY FS_Singleton
<1>2. IsFiniteSet(1 .. n) /\ Cardinality(1 .. n) = n
  <2>1. 1 \in Int /\ n \in Int
    OBVIOUS
  <2> QED BY <2>1, FS_Interval
<1>3. /\ IsFiniteSet({s} \X (1 .. n))
      /\ Cardinality({s} \X (1 .. n)) = Cardinality({s}) * Cardinality(1 .. n)
  BY <1>1, <1>2, FS_Product
<1>4. 1 * n = n
  OBVIOUS
<1> QED BY <1>1, <1>2, <1>3, <1>4

(* Finitely many entries take a number of bytes.                           *)
LEMMA BytesFinite ==
    ASSUME NEW cache, NEW S, IsFiniteSet(S), \A s \in S : cache[s].size \in Nat
    PROVE  IsFiniteSet(Bytes(cache, S)) /\ TotalSize(cache, S) \in Nat
<1> DEFINE f == [s \in S |-> {s} \X (1 .. cache[s].size)]
           T == {{s} \X (1 .. cache[s].size) : s \in S}
<1>1. f \in Surjection(S, T)
  BY DEF Surjection
<1>2. IsFiniteSet(T)
  BY <1>1, FS_Surjection
<1>3. \A X \in T : IsFiniteSet(X)
  <2> SUFFICES ASSUME NEW s \in S
               PROVE  IsFiniteSet({s} \X (1 .. cache[s].size))
    OBVIOUS
  <2>1. cache[s].size \in Nat
    OBVIOUS
  <2> QED BY <2>1, BytesOfOne
<1> HIDE DEF T
<1>4. IsFiniteSet(UNION T)
  BY <1>2, <1>3, FS_UNION
<1> QED BY <1>4, FS_CardinalityType DEF Bytes, TotalSize, T

(* Fewer or smaller entries take no more.                                  *)
LEMMA BytesMonotone ==
    ASSUME NEW cache, NEW S, IsFiniteSet(S), \A s \in S : cache[s].size \in Nat,
           NEW small, NEW T \in SUBSET S,
           \A s \in T : small[s].size \in Nat /\ small[s].size <= cache[s].size
    PROVE  TotalSize(small, T) <= TotalSize(cache, S)
<1>1. Bytes(small, T) \in SUBSET Bytes(cache, S)
  <2> SUFFICES ASSUME NEW s \in T
               PROVE  1 .. small[s].size \subseteq 1 .. cache[s].size
    BY DEF Bytes
  <2>1. small[s].size \in Nat /\ cache[s].size \in Nat
        /\ small[s].size <= cache[s].size
    OBVIOUS
  <2> QED BY <2>1
<1> QED BY <1>1, BytesFinite, FS_Subset DEF TotalSize

(* The entries that are left take what those that go do not.               *)
LEMMA BytesLeft ==
    ASSUME NEW cache, NEW S, IsFiniteSet(S), \A s \in S : cache[s].size \in Nat,
           NEW C \in SUBSET S
    PROVE  /\ TotalSize(cache, C) \in Nat
           /\ TotalSize(cache, C) <= TotalSize(cache, S)
           /\ TotalSize(cache, S \ C) = TotalSize(cache, S) - TotalSize(cache, C)
<1>1. IsFiniteSet(C) /\ IsFiniteSet(S \ C)
  BY FS_Subset
<1>2. /\ IsFiniteSet(Bytes(cache, C)) /\ TotalSize(cache, C) \in Nat
      /\ IsFiniteSet(Bytes(cache, S \ C)) /\ TotalSize(cache, S \ C) \in Nat
  BY <1>1, BytesFinite
<1>3. Bytes(cache, S) = Bytes(cache, S \ C) \cup Bytes(cache, C)
  BY DEF Bytes
<1>4. Bytes(cache, S \ C) \cap Bytes(cache, C) = {}
  <2> SUFFICES ASSUME NEW b \in Bytes(cache, S \ C), b \in Bytes(cache, C)
               PROVE  FALSE
    OBVIOUS
  <2>1. b[1] \in S \ C /\ b[1] \in C
    BY DEF Bytes
  <2> QED BY <2>1
<1>5. TotalSize(cache, S)
        = TotalSize(cache, S \ C) + TotalSize(cache, C) - Cardinality({})
  BY <1>2, <1>3, <1>4, FS_Union DEF TotalSize
<1>6. Cardinality({}) = 0
  BY FS_EmptySet
<1> QED BY <1>2, <1>5, <1>6

(* An entry that is put under a stream adds at most its own bytes.         *)
LEMMA BytesOfWith ==
    ASSUME NEW cache, IsFiniteSet(DOMAIN cache),
           \A k \in DOMAIN cache : cache[k].size \in Nat,
           NEW s, NEW e, e.size \in Nat
    PROVE  /\ DOMAIN With(cache, s, e) = DOMAIN cache \cup {s}
           /\ IsFiniteSet(DOMAIN With(cache, s, e))
           /\ TotalSize(With(cache, s, e), DOMAIN With(cache, s, e))
                <= TotalSize(cache, DOMAIN cache) + e.size
<1> DEFINE new == With(cache, s, e)
           D == DOMAIN cache
           One == {s} \X (1 .. e.size)
<1>1. DOMAIN new = D \cup {s}
  BY DEF With
<1>2. \A k \in D \cup {s} : new[k] = IF k = s THEN e ELSE cache[k]
  BY DEF With
<1>3. IsFiniteSet(DOMAIN new)
  BY <1>1, FS_AddElement
<1> HIDE DEF new
<1>4. IsFiniteSet(One) /\ Cardinality(One) = e.size
  BY BytesOfOne
<1>5. IsFiniteSet(Bytes(cache, D)) /\ TotalSize(cache, D) \in Nat
  BY BytesFinite
<1>6. Bytes(new, DOMAIN new) \in SUBSET (Bytes(cache, D) \cup One)
  BY <1>1, <1>2 DEF Bytes
<1> HIDE DEF One
<1>7. /\ IsFiniteSet(Bytes(cache, D) \cup One)
      /\ Cardinality(Bytes(cache, D) \cup One) <= TotalSize(cache, D) + e.size
  <2>1. Cardinality(Bytes(cache, D) \cap One) \in Nat
    BY <1>4, FS_Intersection, FS_CardinalityType
  <2>2. /\ IsFiniteSet(Bytes(cache, D) \cup One)
        /\ Cardinality(Bytes(cache, D) \cup One)
             = Cardinality(Bytes(cache, D)) + Cardinality(One)
               - Cardinality(Bytes(cache, D) \cap One)
    BY <1>4, <1>5, FS_Union
  <2>3. TotalSize(cache, D) = Cardinality(Bytes(cache, D))
    BY DEF TotalSize
  <2> QED BY <2>1, <2>2, <2>3, <1>4, <1>5
<1>8. /\ TotalSize(new, DOMAIN new) <= Cardinality(Bytes(cache, D) \cup One)
      /\ TotalSize(new, DOMAIN new) \in Nat
      /\ Cardinality(Bytes(cache, D) \cup One) \in Nat
  BY <1>6, <1>7, FS_Subset, FS_CardinalityType DEF TotalSize
<1> QED BY <1>1, <1>3, <1>5, <1>7, <1>8 DEF new
(* An entry that takes the place of another takes its bytes for those.     *)
LEMMA BytesReplaced ==
    ASSUME NEW cache, IsFiniteSet(DOMAIN cache),
           \A k \in DOMAIN cache : cache[k].size \in Nat,
           NEW s \in DOMAIN cache, NEW e, e.size \in Nat,
           NEW new, new = [cache EXCEPT ![s] = e]
    PROVE  /\ cache[s].size <= TotalSize(cache, DOMAIN cache)
           /\ TotalSize(cache, DOMAIN cache) \in Nat
           /\ TotalSize(new, DOMAIN cache) \in Nat
           /\ TotalSize(new, DOMAIN cache)
                <= TotalSize(cache, DOMAIN cache) - cache[s].size + e.size
<1> DEFINE D == DOMAIN cache
           rest == Without(cache, {s})
<1>1. DOMAIN rest = D \ {s} /\ \A k \in D \ {s} : rest[k] = cache[k]
  BY DEF Without
<1>2. new = With(rest, s, e)
  BY DEF With, Without
<1>3. DOMAIN new = D /\ \A k \in D : new[k] = IF k = s THEN e ELSE cache[k]
  OBVIOUS
<1> HIDE DEF rest
<1>4. IsFiniteSet(DOMAIN rest) /\ \A k \in DOMAIN rest : rest[k].size \in Nat
  BY <1>1, FS_RemoveElement
<1>5. TotalSize(new, D) <= TotalSize(rest, DOMAIN rest) + e.size
  BY <1>2, <1>3, <1>4, BytesOfWith
<1>6. TotalSize(rest, DOMAIN rest) = TotalSize(cache, D \ {s})
  <2>1. Bytes(rest, DOMAIN rest) = Bytes(cache, D \ {s})
    BY <1>1 DEF Bytes
  <2> QED BY <2>1 DEF TotalSize
<1>7. /\ TotalSize(cache, {s}) \in Nat
      /\ TotalSize(cache, {s}) <= TotalSize(cache, D)
      /\ TotalSize(cache, D \ {s}) = TotalSize(cache, D) - TotalSize(cache, {s})
  BY BytesLeft
<1>8. TotalSize(cache, {s}) = cache[s].size
  <2>1. Bytes(cache, {s}) = {s} \X (1 .. cache[s].size)
    BY DEF Bytes
  <2>2. cache[s].size \in Nat
    OBVIOUS
  <2> QED BY <2>1, <2>2, BytesOfOne DEF TotalSize
<1>9. TotalSize(cache, D) \in Nat /\ TotalSize(new, D) \in Nat
  BY <1>3, BytesFinite
<1> QED BY <1>5, <1>6, <1>7, <1>8, <1>9

-----------------------------------------------------------------------------
(* Entries.                                                                *)

(* A bitmap is as large as its image or as the device it is decoded for.   *)
LEMMA DecodedSizeFacts ==
    ASSUME NEW s \in Streams, NEW device \in Nat \ {0}
    PROVE  /\ DecodedSize(s, device) \in Nat
           /\ \/ DecodedSize(s, device) >= StreamInfo[s].size
              \/ DecodedSize(s, device) >= device
<1> DEFINE size == StreamInfo[s].size
           m == Max({1, size \div device})
           p == Max(Reductions(m))
<1>1. size \in Nat \ {0} /\ StreamInfo[s].jpx \in BOOLEAN
  BY CacheAssumption
<1>2. size \div device \in Nat
  BY <1>1
<1> HIDE DEF size
<1>3. m \in {1, size \div device} /\ m >= 1
  <2> DEFINE T == {1, size \div device}
  <2>1. T \in SUBSET Nat /\ T # {} /\ \A x \in T : x <= (size \div device) + 1
    BY <1>2
  <2>2. (size \div device) + 1 \in Nat /\ 1 \in T
    BY <1>2
  <2> HIDE DEF T
  <2>3. Max(T) \in T /\ \A y \in T : Max(T) >= y
    BY <2>1, <2>2, GreatestElement
  <2> QED BY <2>2, <2>3 DEF T
<1>4. m \in Nat
  BY <1>2, <1>3
<1> HIDE DEF m
<1>5. p \in Reductions(m)
  <2> DEFINE T == Reductions(m)
  <2>1. T \in SUBSET Nat /\ \A x \in T : x <= m
    BY <1>4 DEF Reductions
  <2>2. 1 \in T
    <3>1. 1 = 2 ^ 0 /\ 0 \in 0 .. m /\ 1 \in 1 .. m
      BY <1>3, <1>4
    <3> QED BY <3>1 DEF Reductions
  <2> HIDE DEF T
  <2> QED BY <1>4, <2>1, <2>2, GreatestElement DEF T
<1>6. p \in Nat \ {0} /\ p <= m
  BY <1>4, <1>5 DEF Reductions
<1> HIDE DEF p
<1>7. size \div p \in Nat
  BY <1>1, <1>6
<1>8. size \div p >= size \/ size \div p >= device
  <2>1. CASE m = 1
    <3>1. p = 1
      BY <2>1, <1>6
    <3> QED BY <3>1, <1>1
  <2>2. CASE m = size \div device
    BY <2>2, <1>1, <1>6
  <2> QED BY <1>3, <2>1, <2>2
<1>9. DecodedSize(s, device) = IF StreamInfo[s].jpx THEN size \div p ELSE size
  BY DEF DecodedSize, size, p, m
<1>10. DecodedSize(s, device) \in Nat
       /\ (DecodedSize(s, device) >= size \/ DecodedSize(s, device) >= device)
  BY <1>1, <1>7, <1>8, <1>9
<1> QED BY <1>10 DEF size

(* An entry that has been sized counts its bitmap and its mask.            *)
LEMMA SizedEntry ==
    ASSUME NEW e \in Entry
    PROVE  Sized(e) \in Entry /\ Sized(e).size = CalcSize(e)
<1>1. e.cachedBitmap # Nothing => e.cachedBitmap.size \in Nat
  BY DEF Entry, Bitmap
<1>2. e.cachedMask # Nothing => StreamInfo[e.cachedMask].mask \in Nat
  BY CacheAssumption DEF Entry
<1>3. CalcSize(e) \in Nat
  BY <1>1, <1>2 DEF CalcSize
<1> QED BY <1>3 DEF Sized, Entry

LEMMA NewEntryTyped ==
    ASSUME NEW i \in Images
    PROVE  NewEntry(i) \in Entry
BY DEF NewEntry, Entry

(* The beginning of a load.                                                *)
LEMMA LoadingEntry ==
    ASSUME imageStream \in [Images -> Streams], NEW e \in Entry,
           NEW device \in Nat \ {0}
    PROVE  LET s == imageStream[e.image]
               new == Loading(e, device)
           IN  /\ new \in Entry /\ new.image = e.image /\ new.size = e.size
               /\ new.cachedBitmap = e.cachedBitmap
               /\ new.cachedMask = e.cachedMask
               /\ new.curBitmap \in Bitmap /\ new.curBitmap # Nothing
               /\ new.curBitmap.stream = s
               /\ new.curBitmap.size = DecodedSize(s, device)
<1> DEFINE s == imageStream[e.image]
           b == [ stream |-> s, size |-> DecodedSize(s, device),
                  left |-> StreamInfo[s].steps ]
<1>1. s \in Streams
  BY DEF Entry
<1>2. b \in Bitmap /\ b # Nothing
  <2>1. DecodedSize(s, device) \in Nat
    BY <1>1, DecodedSizeFacts
  <2>2. StreamInfo[s].steps \in Nat
    BY <1>1, CacheAssumption
  <2> HIDE DEF s
  <2>3. b \in Bitmap
    BY <1>1, <2>1, <2>2 DEF Bitmap
  <2> QED BY <2>3, NullAssumption
<1>3. Loading(e, device) = [e EXCEPT !.curBitmap = b]
  BY DEF Loading
<1>4. b.stream = s /\ b.size = DecodedSize(s, device)
  OBVIOUS
<1> HIDE DEF b
<1> QED BY <1>2, <1>3, <1>4 DEF Entry

(* A piece of a load.                                                      *)
LEMMA DecodingEntry ==
    ASSUME NEW e \in Entry, e.curBitmap # Nothing, NEW left \in Nat,
           NEW new, new = [e EXCEPT !.curBitmap.left = left]
    PROVE  /\ new \in Entry /\ new.image = e.image /\ new.size = e.size
           /\ new.cachedBitmap = e.cachedBitmap
           /\ new.cachedMask = e.cachedMask
           /\ new.curBitmap \in Bitmap /\ new.curBitmap # Nothing
           /\ new.curBitmap.stream = e.curBitmap.stream
           /\ new.curBitmap.size = e.curBitmap.size
           /\ new.curBitmap.left = left
<1> DEFINE b == [e.curBitmap EXCEPT !.left = left]
<1>1. e.curBitmap \in Bitmap
  BY DEF Entry
<1>2. b \in Bitmap /\ b # Nothing /\ b.left = left
      /\ b.stream = e.curBitmap.stream /\ b.size = e.curBitmap.size
  BY <1>1, NullAssumption DEF Bitmap
<1>3. new = [e EXCEPT !.curBitmap = b]
  OBVIOUS
<1> HIDE DEF b
<1> QED BY <1>2, <1>3 DEF Entry

(* The end of a load.                                                      *)
LEMMA LoadedEntry ==
    ASSUME timeCount \in Nat, NEW e \in Entry, e.curBitmap # Nothing
    PROVE  LET s == e.curBitmap.stream
               new == Loaded(e)
           IN  /\ new \in Entry /\ new.image = e.image
               /\ StreamInfo[s].good =>
                    /\ new.cachedBitmap = e.curBitmap
                    /\ new.cachedMask = IF StreamInfo[s].mask > 0 THEN s
                                        ELSE e.cachedMask
               /\ ~StreamInfo[s].good =>
                    /\ new.cachedBitmap = e.cachedBitmap
                    /\ new.cachedMask = e.cachedMask
<1> DEFINE s == e.curBitmap.stream
           mask == IF StreamInfo[s].mask > 0 THEN s ELSE e.cachedMask
<1>1. e.curBitmap \in Bitmap /\ s \in Streams
  BY DEF Entry, Bitmap
<1>2. CASE StreamInfo[s].good
  <2> DEFINE f == [e EXCEPT !.time = timeCount, !.cachedBitmap = e.curBitmap,
                            !.cachedMask = mask, !.curBitmap = Nothing]
  <2>1. mask \in Streams \cup {Nothing}
    BY <1>1 DEF Entry
  <2>2. Loaded(e) = Sized(f)
    BY <1>2 DEF Loaded
  <2> HIDE DEF mask
  <2>3. /\ f \in Entry /\ f.image = e.image /\ f.cachedBitmap = e.curBitmap
        /\ f.cachedMask = mask
    BY <1>1, <2>1 DEF Entry
  <2> HIDE DEF f
  <2>4. /\ Sized(f) \in Entry /\ Sized(f).image = f.image
        /\ Sized(f).cachedBitmap = f.cachedBitmap
        /\ Sized(f).cachedMask = f.cachedMask
    BY <2>3, SizedEntry DEF Sized, Entry
  <2> QED BY <1>2, <2>2, <2>3, <2>4 DEF mask
<1>3. CASE ~StreamInfo[s].good
  BY <1>3 DEF Loaded, Entry
<1> QED BY <1>2, <1>3

(* A bitmap that is given up: the entry gets smaller, not larger.          *)
LEMMA ResetEntryFacts ==
    ASSUME NEW e \in Entry
    PROVE  LET new == ResetEntry(e)
           IN  /\ new \in Entry /\ new.image = e.image
               /\ new.cachedBitmap = Nothing /\ new.cachedMask = e.cachedMask
               /\ new.curBitmap = e.curBitmap
<1> DEFINE f == [e EXCEPT !.cachedBitmap = Nothing]
<1>1. /\ f \in Entry /\ f.image = e.image /\ f.cachedBitmap = Nothing
      /\ f.cachedMask = e.cachedMask /\ f.curBitmap = e.curBitmap
  BY DEF Entry
<1>2. ResetEntry(e) = Sized(f)
  BY DEF ResetEntry
<1> HIDE DEF f
<1> QED BY <1>1, <1>2, SizedEntry DEF Sized, Entry
-----------------------------------------------------------------------------
(* The cache.                                                              *)

CacheTyped ==
    /\ imageStream \in [Images -> Streams]
    /\ DOMAIN imageCache \in SUBSET Streams
    /\ \A s \in DOMAIN imageCache : imageCache[s] \in Entry
    /\ cur \in {NoCur} \cup {Kept(s) : s \in Streams}
                        \cup [kind : {"owned"}, entry : Entry]
    /\ timeCount \in Nat

(* An image has a stream of its own, under which no other one is kept.     *)
StreamsApart ==
    /\ \A i, j \in Images : imageStream[i] = imageStream[j] => i = j
    /\ \A i \in Images : Found(i) => imageCache[imageStream[i]].image = i

SizesSound ==
    /\ IsFiniteSet(DOMAIN imageCache)
    /\ cacheSize \in Nat
    /\ TotalSize(imageCache, DOMAIN imageCache) <= cacheSize

CurSound == cur.kind = "kept" => cur.key \in DOMAIN imageCache

CacheSound == CacheTyped /\ StreamsApart /\ SizesSound /\ CurSound

(* What is kept under a stream was decoded from it.                        *)
EntryRight(e, s) ==
    /\ e.cachedBitmap # Nothing =>
         /\ e.cachedBitmap.stream = s /\ StreamInfo[s].good
         /\ StreamInfo[s].mask > 0 => e.cachedMask = s
    /\ e.cachedMask # Nothing => e.cachedMask = s /\ StreamInfo[s].mask > 0

CacheRight == \A s \in DOMAIN imageCache : EntryRight(imageCache[s], s)

(* The sizes of entries are numbers.                                       *)
LEMMA EntrySizes ==
    ASSUME CacheTyped
    PROVE  \A s \in DOMAIN imageCache : imageCache[s].size \in Nat
BY DEF CacheTyped, Entry

(* A pointer to the entry is one of three kinds.                           *)
LEMMA CurKinds ==
    ASSUME CacheSound
    PROVE  \/ cur = NoCur /\ cur.kind = "none"
           \/ cur.kind = "kept" /\ cur.key \in DOMAIN imageCache
                                /\ cur = Kept(cur.key)
           \/ cur.kind = "owned" /\ cur.entry \in Entry
                                 /\ cur = Owned(cur.entry)
<1>1. CASE cur = NoCur
  BY <1>1 DEF NoCur
<1>2. CASE \E s \in Streams : cur = Kept(s)
  BY <1>2 DEF Kept, CacheSound, CurSound
<1>3. CASE cur \in [kind : {"owned"}, entry : Entry]
  BY <1>3 DEF Owned
<1> QED BY <1>1, <1>2, <1>3 DEF CacheSound, CacheTyped

(* An entry that is replaced by one of its size keeps the cache sound.     *)
LEMMA SameSizeSound ==
    ASSUME CacheSound, NEW s \in DOMAIN imageCache, NEW e \in Entry,
           e.size = imageCache[s].size, e.image = imageCache[s].image,
           imageCache' = [imageCache EXCEPT ![s] = e],
           cur' = cur \/ cur' = Kept(s),
           timeCount' \in Nat, UNCHANGED <<imageStream, cacheSize>>
    PROVE  CacheSound' /\ DOMAIN imageCache' = DOMAIN imageCache
<1>1. /\ DOMAIN imageCache' = DOMAIN imageCache
      /\ \A k \in DOMAIN imageCache : imageCache'[k] = IF k = s THEN e ELSE imageCache[k]
  OBVIOUS
<1>2. CacheTyped'
  BY <1>1 DEF CacheSound, CacheTyped
<1>3. StreamsApart'
  BY <1>1 DEF CacheSound, StreamsApart, Found
<1>4. TotalSize(imageCache', DOMAIN imageCache) <= TotalSize(imageCache, DOMAIN imageCache)
  <2>1. \A k \in DOMAIN imageCache : /\ imageCache'[k].size \in Nat
                                     /\ imageCache'[k].size <= imageCache[k].size
    BY <1>1, EntrySizes DEF CacheSound
  <2>2. IsFiniteSet(DOMAIN imageCache)
    BY DEF CacheSound, SizesSound
  <2> QED BY <2>1, <2>2, EntrySizes, BytesMonotone DEF CacheSound
<1>5. SizesSound'
  <2>1. \A k \in DOMAIN imageCache : imageCache'[k].size \in Nat
    BY <1>1, EntrySizes DEF CacheSound
  <2>2. IsFiniteSet(DOMAIN imageCache)
    BY DEF CacheSound, SizesSound
  <2>3. /\ TotalSize(imageCache', DOMAIN imageCache) \in Nat
        /\ TotalSize(imageCache, DOMAIN imageCache) \in Nat
    BY <2>1, <2>2, EntrySizes, BytesFinite DEF CacheSound
  <2> QED BY <1>1, <1>4, <2>2, <2>3 DEF CacheSound, SizesSound
<1>6. CurSound'
  BY <1>1 DEF CacheSound, CurSound, Kept
<1> QED BY <1>1, <1>2, <1>3, <1>5, <1>6 DEF CacheSound

(* StartGetCachedBitmap that finds a bitmap of the size asked for.         *)
LEMMA FindsSound ==
    ASSUME CacheSound, NEW i \in Images, NEW device \in Nat \ {0},
           StartFindsBitmap(i, device)
    PROVE  /\ CacheSound' /\ UNCHANGED imageStream
           /\ LET s == imageStream[i]
                  e == imageCache'[cur'.key]
              IN  /\ cur' = Kept(s)
                  /\ e \in Entry /\ e.cachedBitmap # Nothing
                  /\ e.cachedBitmap.size >= device
                  /\ CacheRight => CacheRight' /\ EntryRight(e, s)
<1> DEFINE s == imageStream[i]
           e == imageCache[s]
           new == [e EXCEPT !.curBitmap = Nothing]
<1>1. /\ s \in DOMAIN imageCache /\ e \in Entry
      /\ cur' = Kept(s) /\ timeCount' = timeCount + 1
      /\ imageCache' = [imageCache EXCEPT ![s] = new]
      /\ UNCHANGED <<imageStream, cacheSize>>
      /\ e.cachedBitmap # Nothing /\ e.cachedBitmap.size >= device
  BY DEF StartFindsBitmap, Found, EntryFor, IsCacheValid, CacheSound, CacheTyped
<1>2. /\ new \in Entry /\ new.size = e.size /\ new.image = e.image
      /\ new.cachedBitmap = e.cachedBitmap /\ new.cachedMask = e.cachedMask
  BY <1>1 DEF Entry
<1>3. timeCount' \in Nat
  BY <1>1 DEF CacheSound, CacheTyped
<1> HIDE DEF new, e
<1>4. CacheSound'
  BY <1>1, <1>2, <1>3, SameSizeSound DEF e
<1>5. CacheRight => EntryRight(new, s)
  BY <1>1, <1>2 DEF CacheRight, EntryRight, e
<1>6. CacheRight => CacheRight'
  BY <1>1, <1>5 DEF CacheRight
<1>7. imageCache'[cur'.key] = new
  BY <1>1 DEF Kept
<1> QED BY <1>1, <1>2, <1>4, <1>5, <1>6, <1>7

(* The entry that StartGetCachedBitmap works on.                           *)
LEMMA EntryForSound ==
    ASSUME CacheSound, NEW i \in Images
    PROVE  /\ EntryFor(i) \in Entry /\ EntryFor(i).image = i
           /\ imageStream[i] \in Streams
           /\ CacheRight => EntryRight(EntryFor(i), imageStream[i])
<1>1. imageStream[i] \in Streams
  BY DEF CacheSound, CacheTyped
<1>2. CASE Found(i)
  BY <1>1, <1>2 DEF EntryFor, Found, CacheSound, CacheTyped, StreamsApart, CacheRight
<1>3. CASE ~Found(i)
  BY <1>1, <1>3, NewEntryTyped DEF EntryFor, NewEntry, EntryRight
<1> QED BY <1>2, <1>3

(* A load that begins and pauses.                                          *)
LEMMA LoadsSound ==
    ASSUME CacheSound, NEW i \in Images, NEW device \in Nat \ {0},
           StartLoads(i, device)
    PROVE  /\ CacheSound' /\ UNCHANGED imageStream
           /\ cur' # NoCur
           /\ LET s == imageStream[i]
                  e == CurEntry'
              IN  /\ e \in Entry /\ e.image = i
                  /\ CacheRight => CacheRight' /\ EntryRight(e, s)
                  /\ cur'.kind = "kept" => cur'.key = s
                  /\ e.curBitmap \in Bitmap /\ e.curBitmap # Nothing
                  /\ e.curBitmap.left > 0 /\ e.curBitmap.stream = s
                  /\ e.curBitmap.size = DecodedSize(s, device)
<1> DEFINE s == imageStream[i]
           e == EntryFor(i)
           new == Loading(e, device)
<1>1. /\ e \in Entry /\ e.image = i /\ s \in Streams
      /\ CacheRight => EntryRight(e, s)
  BY EntryForSound
<1>2. imageStream \in [Images -> Streams]
  BY DEF CacheSound, CacheTyped
<1> HIDE DEF e
<1>3. /\ new \in Entry /\ new.image = i /\ new.size = e.size
      /\ new.cachedBitmap = e.cachedBitmap /\ new.cachedMask = e.cachedMask
      /\ new.curBitmap \in Bitmap /\ new.curBitmap # Nothing
      /\ new.curBitmap.stream = s /\ new.curBitmap.size = DecodedSize(s, device)
  BY <1>1, <1>2, LoadingEntry
<1>4. /\ new.curBitmap.left > 0
      /\ IF Found(i) THEN cur' = Kept(s) /\ imageCache' = [imageCache EXCEPT ![s] = new]
         ELSE cur' = Owned(new) /\ UNCHANGED imageCache
      /\ UNCHANGED <<imageStream, timeCount, cacheSize>>
  BY DEF StartLoads, e
<1> HIDE DEF new
<1>5. CacheRight => EntryRight(new, s)
  BY <1>1, <1>3 DEF EntryRight
<1>6. CASE Found(i)
  <2>1. s \in DOMAIN imageCache /\ e = imageCache[s]
    BY <1>6 DEF Found, EntryFor, e
  <2>2. CacheSound'
    <3>1. timeCount' \in Nat
      BY <1>4 DEF CacheSound, CacheTyped
    <3> QED BY <2>1, <1>1, <1>3, <1>4, <1>6, <3>1, SameSizeSound
  <2>3. CacheRight => CacheRight'
    BY <1>4, <1>5, <1>6 DEF CacheRight
  <2>4. cur'.kind = "kept" /\ cur'.key = s /\ cur' # NoCur
    BY <1>4, <1>6 DEF Kept, NoCur
  <2>5. CurEntry' = new
    BY <1>4, <1>6, <2>1, <2>4 DEF CurEntry
  <2> QED BY <1>3, <1>4, <1>5, <2>2, <2>3, <2>4, <2>5
<1>7. CASE ~Found(i)
  <2>1. cur' = Owned(new) /\ UNCHANGED imageCache
    BY <1>4, <1>7
  <2>2. cur'.kind = "owned" /\ cur'.entry = new /\ cur' # NoCur
    BY <2>1 DEF Owned, NoCur
  <2>3. CacheSound'
    <3>1. cur' \in [kind : {"owned"}, entry : Entry]
      BY <1>3, <2>1 DEF Owned
    <3>2. CacheTyped'
      BY <1>4, <2>1, <3>1 DEF CacheSound, CacheTyped
    <3>3. StreamsApart' /\ SizesSound' /\ CurSound'
      BY <1>4, <2>1, <2>2 DEF CacheSound, StreamsApart, Found, SizesSound, CurSound
    <3> QED BY <3>2, <3>3 DEF CacheSound
  <2>4. CacheRight => CacheRight'
    BY <1>4, <2>1 DEF CacheRight
  <2>5. CurEntry' = new
    BY <2>2 DEF CurEntry
  <2> QED BY <1>3, <1>4, <1>5, <2>2, <2>3, <2>4, <2>5
<1> QED BY <1>6, <1>7

(* The end of a load.                                                      *)
LEMMA EndsSound ==
    ASSUME CacheSound, NEW s \in Streams, NEW e \in Entry, e.curBitmap # Nothing,
           \A j \in Images : imageStream[j] = s => e.image = j, EndsLoad(e, s)
    PROVE  /\ CacheSound' /\ UNCHANGED imageStream /\ cur' = Kept(s)
           /\ imageCache'[cur'.key] = Loaded(e)
           /\ (e.curBitmap.stream = s /\ EntryRight(e, s)) =>
                /\ EntryRight(Loaded(e), s)
                /\ CacheRight => CacheRight'
<1> DEFINE new == Loaded(e)
<1>1. /\ imageCache' = With(imageCache, s, new) /\ cur' = Kept(s)
      /\ timeCount' = timeCount + 1 /\ cacheSize' = cacheSize + new.size
      /\ UNCHANGED imageStream
  BY DEF EndsLoad, SizeAdded
<1>2. timeCount \in Nat
  BY DEF CacheSound, CacheTyped
<1>3. /\ new \in Entry /\ new.image = e.image
      /\ StreamInfo[e.curBitmap.stream].good =>
           /\ new.cachedBitmap = e.curBitmap
           /\ new.cachedMask = IF StreamInfo[e.curBitmap.stream].mask > 0
                               THEN e.curBitmap.stream ELSE e.cachedMask
      /\ ~StreamInfo[e.curBitmap.stream].good =>
           /\ new.cachedBitmap = e.cachedBitmap
           /\ new.cachedMask = e.cachedMask
  BY <1>2, LoadedEntry
<1> HIDE DEF new
<1>4. new.size \in Nat
  BY <1>3 DEF Entry
<1>5. /\ DOMAIN imageCache' = DOMAIN imageCache \cup {s}
      /\ \A k \in DOMAIN imageCache \cup {s} :
           imageCache'[k] = IF k = s THEN new ELSE imageCache[k]
  BY <1>1 DEF With
<1>6. cur'.kind = "kept" /\ cur'.key = s
  BY <1>1 DEF Kept
<1>7. CacheTyped'
  <2>1. timeCount' \in Nat
    BY <1>1, <1>2
  <2> QED BY <1>1, <1>3, <1>5, <2>1 DEF CacheSound, CacheTyped
<1>8. StreamsApart'
  BY <1>1, <1>3, <1>5 DEF CacheSound, StreamsApart, Found
<1>9. SizesSound'
  <2>1. /\ IsFiniteSet(DOMAIN imageCache)
        /\ \A k \in DOMAIN imageCache : imageCache[k].size \in Nat
    BY EntrySizes DEF CacheSound, SizesSound
  <2>2. /\ IsFiniteSet(DOMAIN imageCache')
        /\ TotalSize(imageCache', DOMAIN imageCache')
             <= TotalSize(imageCache, DOMAIN imageCache) + new.size
    BY <1>1, <1>4, <2>1, BytesOfWith
  <2>3. \A k \in DOMAIN imageCache' : imageCache'[k].size \in Nat
    BY <1>4, <1>5, <2>1
  <2>4. /\ TotalSize(imageCache, DOMAIN imageCache) \in Nat
        /\ TotalSize(imageCache', DOMAIN imageCache') \in Nat
    BY <2>1, <2>2, <2>3, BytesFinite
  <2> QED BY <1>1, <1>4, <2>2, <2>4 DEF CacheSound, SizesSound
<1>10. CurSound'
  BY <1>5, <1>6 DEF CurSound
<1>11. ASSUME e.curBitmap.stream = s, EntryRight(e, s)
       PROVE  EntryRight(new, s)
  BY <1>3, <1>11 DEF EntryRight
<1>12. ASSUME e.curBitmap.stream = s, EntryRight(e, s), CacheRight
       PROVE  CacheRight'
  BY <1>5, <1>11, <1>12 DEF CacheRight
<1> QED BY <1>1, <1>5, <1>6, <1>7, <1>8, <1>9, <1>10, <1>11, <1>12
        DEF CacheSound, new

(* The load of an image that ends in the call that began it.               *)
LEMMA LoadsAtOnceSound ==
    ASSUME CacheSound, NEW i \in Images, NEW device \in Nat \ {0},
           StartLoadsAtOnce(i, device)
    PROVE  /\ CacheSound' /\ UNCHANGED imageStream
           /\ \E e \in Entry :
                /\ imageCache'[cur'.key] = Loaded(e)
                /\ e.curBitmap \in Bitmap /\ e.curBitmap # Nothing
                /\ e.curBitmap.stream = imageStream[i]
                /\ e.curBitmap.size = DecodedSize(imageStream[i], device)
                /\ CacheRight => /\ CacheRight'
                                 /\ EntryRight(Loaded(e), imageStream[i])
<1> DEFINE s == imageStream[i]
           e == EntryFor(i)
           new == Loading(e, device)
<1>1. /\ e \in Entry /\ e.image = i /\ s \in Streams
      /\ CacheRight => EntryRight(e, s)
  BY EntryForSound
<1>2. imageStream \in [Images -> Streams]
  BY DEF CacheSound, CacheTyped
<1> HIDE DEF e
<1>3. /\ new \in Entry /\ new.image = i
      /\ new.cachedBitmap = e.cachedBitmap /\ new.cachedMask = e.cachedMask
      /\ new.curBitmap \in Bitmap /\ new.curBitmap # Nothing
      /\ new.curBitmap.stream = s /\ new.curBitmap.size = DecodedSize(s, device)
  BY <1>1, <1>2, LoadingEntry
<1>4. EndsLoad(new, s)
  BY DEF StartLoadsAtOnce, e
<1> HIDE DEF new
<1>5. CacheRight => EntryRight(new, s)
  BY <1>1, <1>3 DEF EntryRight
<1>6. \A j \in Images : imageStream[j] = s => new.image = j
  BY <1>3 DEF CacheSound, StreamsApart
<1>7. /\ CacheSound' /\ UNCHANGED imageStream
      /\ imageCache'[cur'.key] = Loaded(new)
      /\ CacheRight => CacheRight' /\ EntryRight(Loaded(new), s)
  BY <1>1, <1>3, <1>4, <1>5, <1>6, EndsSound
<1> QED BY <1>3, <1>7

(* The current entry is an entry, and one under its stream is its image's. *)
LEMMA CurEntrySound ==
    ASSUME CacheSound, cur # NoCur
    PROVE  /\ CurEntry \in Entry
           /\ cur.kind = "kept" => /\ cur.key \in DOMAIN imageCache
                                  /\ cur.key \in Streams
                                  /\ CurEntry = imageCache[cur.key]
                                  /\ cur = Kept(cur.key)
           /\ cur.kind # "kept" => /\ cur.kind = "owned" /\ CurEntry = cur.entry
                                  /\ cur = Owned(cur.entry)
           /\ cur.kind = "kept" => \A j \in Images :
                imageStream[j] = cur.key => CurEntry.image = j
<1>1. CASE cur.kind = "kept" /\ cur.key \in DOMAIN imageCache /\ cur = Kept(cur.key)
  BY <1>1 DEF CurEntry, CacheSound, CacheTyped, StreamsApart, Found
<1>2. CASE cur.kind = "owned" /\ cur.entry \in Entry /\ cur = Owned(cur.entry)
  BY <1>2 DEF CurEntry
<1> QED BY <1>1, <1>2, CurKinds

(* A piece of a load: everything but what is left to do stays.             *)
LEMMA DecodesSound ==
    ASSUME CacheSound, cur # NoCur, CurEntry.curBitmap # Nothing, ContinueDecodes
    PROVE  /\ CacheSound' /\ UNCHANGED imageStream
           /\ CacheRight => CacheRight'
           /\ cur' # NoCur /\ cur'.kind = cur.kind
           /\ cur.kind = "kept" => cur'.key = cur.key
           /\ LET e == CurEntry
                  new == CurEntry'
              IN  /\ new.image = e.image /\ new.cachedBitmap = e.cachedBitmap
                  /\ new.cachedMask = e.cachedMask
                  /\ new.curBitmap \in Bitmap /\ new.curBitmap # Nothing
                  /\ new.curBitmap.stream = e.curBitmap.stream
                  /\ new.curBitmap.size = e.curBitmap.size
                  /\ new.curBitmap.left > 0
<1> DEFINE e == CurEntry
           left == e.curBitmap.left - 1
           new == [e EXCEPT !.curBitmap.left = left]
<1>1. e \in Entry
  BY CurEntrySound
<1>2. left \in Nat /\ left > 0
  BY <1>1 DEF ContinueDecodes, Entry, Bitmap
<1> HIDE DEF left
<1>3. /\ new \in Entry /\ new.image = e.image /\ new.size = e.size
      /\ new.cachedBitmap = e.cachedBitmap /\ new.cachedMask = e.cachedMask
      /\ new.curBitmap \in Bitmap /\ new.curBitmap # Nothing
      /\ new.curBitmap.stream = e.curBitmap.stream
      /\ new.curBitmap.size = e.curBitmap.size /\ new.curBitmap.left = left
  BY <1>1, <1>2, DecodingEntry
<1>4. Decoding(e) = new
  BY DEF Decoding, left
<1>5. UNCHANGED <<imageStream, timeCount, cacheSize>>
  BY DEF ContinueDecodes
<1>6. CASE cur.kind = "kept"
  <2>1. cur.key \in DOMAIN imageCache /\ e = imageCache[cur.key] /\ cur = Kept(cur.key)
    BY <1>6, CurEntrySound
  <2>2. imageCache' = [imageCache EXCEPT ![cur.key] = new] /\ UNCHANGED cur
    BY <1>4, <1>6, <2>1 DEF ContinueDecodes
  <2> HIDE DEF new, e
  <2>3. CacheSound'
    <3>1. timeCount' \in Nat
      BY <1>5 DEF CacheSound, CacheTyped
    <3> QED BY <1>3, <1>5, <2>1, <2>2, <3>1, SameSizeSound
  <2>4. CacheRight => CacheRight'
    BY <1>3, <2>1, <2>2 DEF CacheRight, EntryRight
  <2>5. CurEntry' = new
    BY <1>6, <2>1, <2>2 DEF CurEntry
  <2> QED BY <1>2, <1>3, <1>5, <2>2, <2>3, <2>4, <2>5 DEF e
<1>7. CASE cur.kind # "kept"
  <2>1. cur.kind = "owned" /\ e = cur.entry
    BY <1>7, CurEntrySound
  <2>2. cur' = Owned(new) /\ UNCHANGED imageCache
    BY <1>4, <2>1 DEF ContinueDecodes
  <2> HIDE DEF new, e
  <2>3. cur' \in [kind : {"owned"}, entry : Entry] /\ cur'.kind = "owned"
        /\ cur'.entry = new /\ cur' # NoCur
    BY <1>3, <2>2 DEF Owned, NoCur
  <2>4. CacheSound'
    <3>1. CacheTyped'
      BY <1>5, <2>2, <2>3 DEF CacheSound, CacheTyped
    <3>2. StreamsApart' /\ SizesSound' /\ CurSound'
      BY <1>5, <2>2, <2>3 DEF CacheSound, StreamsApart, Found, SizesSound, CurSound
    <3> QED BY <3>1, <3>2 DEF CacheSound
  <2>5. CacheRight => CacheRight'
    BY <2>2 DEF CacheRight
  <2>6. CurEntry' = new
    BY <2>3 DEF CurEntry
  <2> QED BY <1>2, <1>3, <1>5, <1>7, <2>1, <2>3, <2>4, <2>5, <2>6 DEF e
<1> QED BY <1>6, <1>7

(* The last piece, after which the entry is filed under its stream.        *)
LEMMA ContinueEndsSound ==
    ASSUME CacheSound, cur # NoCur, CurEntry.curBitmap # Nothing, ContinueEnds
    PROVE  /\ CacheSound' /\ UNCHANGED imageStream
           /\ \E e \in Entry :
                /\ imageCache'[cur'.key] = Loaded(e)
                /\ e.curBitmap \in Bitmap /\ e.curBitmap # Nothing
                /\ e.curBitmap.stream = CurEntry.curBitmap.stream
                /\ e.curBitmap.size = CurEntry.curBitmap.size
                /\ (/\ CacheRight /\ EntryRight(CurEntry, CurEntry.curBitmap.stream)
                    /\ CurEntry.curBitmap.stream = IF cur.kind = "kept" THEN cur.key
                         ELSE imageStream[CurEntry.image])
                    => /\ CacheRight'
                       /\ EntryRight(Loaded(e), CurEntry.curBitmap.stream)
<1> DEFINE e == CurEntry
           new == [e EXCEPT !.curBitmap.left = 0]
           s == IF cur.kind = "kept" THEN cur.key ELSE imageStream[e.image]
<1>1. e \in Entry
  BY CurEntrySound
<1>2. /\ new \in Entry /\ new.image = e.image
      /\ new.cachedBitmap = e.cachedBitmap /\ new.cachedMask = e.cachedMask
      /\ new.curBitmap \in Bitmap /\ new.curBitmap # Nothing
      /\ new.curBitmap.stream = e.curBitmap.stream
      /\ new.curBitmap.size = e.curBitmap.size
  <2>1. 0 \in Nat
    OBVIOUS
  <2> QED BY <1>1, <2>1, DecodingEntry
<1>3. s \in Streams
  BY <1>1, CurEntrySound DEF CacheSound, CacheTyped, Entry
<1>4. \A j \in Images : imageStream[j] = s => new.image = j
  <2>1. CASE cur.kind = "kept"
    BY <1>2, <2>1, CurEntrySound
  <2>2. CASE cur.kind # "kept"
    BY <1>1, <1>2, <2>2 DEF CacheSound, StreamsApart, Entry
  <2> QED BY <2>1, <2>2
<1>5. EndsLoad(new, s)
  BY CurEntrySound DEF ContinueEnds
<1>6. EntryRight(e, e.curBitmap.stream) => EntryRight(new, e.curBitmap.stream)
  BY <1>2 DEF EntryRight
<1> HIDE DEF new, s, e
<1>7. /\ CacheSound' /\ UNCHANGED imageStream
      /\ imageCache'[cur'.key] = Loaded(new)
      /\ (new.curBitmap.stream = s /\ EntryRight(new, s)) =>
            /\ EntryRight(Loaded(new), s)
            /\ CacheRight => CacheRight'
  BY <1>2, <1>3, <1>4, <1>5, EndsSound
<1> QED BY <1>2, <1>6, <1>7 DEF s, e

(* An optimization takes the sizes of what it takes out away.              *)
LEMMA OptimizationSound ==
    ASSUME CacheSound, NEW limit, CacheOptimization(limit)
    PROVE  /\ CacheSound' /\ UNCHANGED imageStream
           /\ CacheRight => CacheRight'
<1>1. CASE UNCHANGED <<imageStream, cacheVars>>
  BY <1>1 DEF cacheVars, CacheSound, CacheTyped, StreamsApart, Found, SizesSound,
              CurSound, CacheRight
<1>2. CASE ~(cacheSize <= limit)
  <2>0. PICK S \in SUBSET DOMAIN imageCache :
          /\ imageCache' = Without(imageCache, Cleared(S))
          /\ cacheSize' = SizeWithout(S)
          /\ cur' = CurAfter(Cleared(S))
          /\ UNCHANGED <<imageStream, timeCount>>
    BY <1>2 DEF CacheOptimization
  <2> DEFINE C == Cleared(S)
             D == DOMAIN imageCache
  <2>1. C \in SUBSET D
    BY DEF Cleared
  <2>2. /\ imageCache' = Without(imageCache, C)
        /\ cacheSize' = cacheSize - TotalSize(imageCache, C)
        /\ cur' = CurAfter(C) /\ UNCHANGED <<imageStream, timeCount>>
    BY <2>0 DEF SizeWithout
  <2> HIDE DEF C
  <2>3. DOMAIN imageCache' = D \ C /\ \A k \in D \ C : imageCache'[k] = imageCache[k]
    BY <2>2 DEF Without
  <2>4. CacheTyped'
    BY <2>1, <2>2, <2>3 DEF CacheSound, CacheTyped, CurAfter
  <2>5. StreamsApart'
    BY <2>2, <2>3 DEF CacheSound, StreamsApart, Found
  <2>6. SizesSound'
    <3>1. IsFiniteSet(D) /\ \A k \in D : imageCache[k].size \in Nat
      BY EntrySizes DEF CacheSound, SizesSound
    <3>2. /\ TotalSize(imageCache, C) \in Nat
          /\ TotalSize(imageCache, C) <= TotalSize(imageCache, D)
          /\ TotalSize(imageCache, D \ C)
               = TotalSize(imageCache, D) - TotalSize(imageCache, C)
      BY <2>1, <3>1, BytesLeft
    <3>3. TotalSize(imageCache, D) \in Nat
      BY <3>1, BytesFinite
    <3>4. TotalSize(imageCache', D \ C) = TotalSize(imageCache, D \ C)
      <4>1. Bytes(imageCache', D \ C) = Bytes(imageCache, D \ C)
        BY <2>3 DEF Bytes
      <4> QED BY <4>1 DEF TotalSize
    <3>5. IsFiniteSet(D \ C)
      BY <3>1, FS_Subset
    <3> QED BY <2>2, <2>3, <3>2, <3>3, <3>4, <3>5 DEF CacheSound, SizesSound
  <2>7. CurSound'
    BY <2>2, <2>3 DEF CacheSound, CurSound, CurAfter, NoCur
  <2>8. CacheRight => CacheRight'
    BY <2>3 DEF CacheRight
  <2> QED BY <2>2, <2>4, <2>5, <2>6, <2>7, <2>8 DEF CacheSound
<1> QED BY <1>1, <1>2 DEF CacheOptimization

(* An image that gets a new stream, with or without a reset of its entry:  *)
(* the image and the load of the current entry stay what they were.        *)
LEMMA NewStreamSound ==
    ASSUME CacheSound, NEW i \in Images,
           ResetBitmapForImage(i) \/ UNCHANGED cacheVars,
           NewStream(i) \/ UNCHANGED imageStream
    PROVE  /\ CacheSound' /\ UNCHANGED cur
           /\ CacheRight => CacheRight'
           /\ cur # NoCur => /\ CurEntry'.image = CurEntry.image
                             /\ CurEntry'.curBitmap = CurEntry.curBitmap
           /\ cur # NoCur /\ cur.kind # "kept" => CurEntry' = CurEntry
           /\ \A j \in Images \ {i} : imageStream'[j] = imageStream[j]
<1>1. /\ imageStream' \in [Images -> Streams]
      /\ \A j \in Images \ {i} : imageStream'[j] = imageStream[j]
      /\ \/ imageStream'[i] = imageStream[i]
         \/ /\ imageStream'[i] \notin DOMAIN imageCache
            /\ \A j \in Images : imageStream[j] # imageStream'[i]
  <2>1. imageStream \in [Images -> Streams]
    BY DEF CacheSound, CacheTyped
  <2>2. CASE NewStream(i)
    <3>1. PICK s \in Streams : /\ \A j \in Images : imageStream[j] # s
                               /\ s \notin DOMAIN imageCache
                               /\ imageStream' = [imageStream EXCEPT ![i] = s]
      BY <2>2 DEF NewStream
    <3> QED BY <2>1, <3>1
  <2>3. CASE UNCHANGED imageStream
    BY <2>1, <2>3
  <2> QED BY <2>2, <2>3
<1>2. CASE UNCHANGED cacheVars
  <2>1. UNCHANGED <<imageCache, cur, timeCount, cacheSize>>
    BY <1>2 DEF cacheVars
  <2>2. CacheTyped'
    BY <1>1, <2>1 DEF CacheSound, CacheTyped
  <2>3. StreamsApart'
    BY <1>1, <2>1 DEF CacheSound, StreamsApart, Found
  <2>4. SizesSound' /\ CurSound' /\ CurEntry' = CurEntry
    BY <2>1 DEF CacheSound, SizesSound, CurSound, CurEntry
  <2>5. CacheRight => CacheRight'
    BY <2>1 DEF CacheRight
  <2> QED BY <1>1, <2>1, <2>2, <2>3, <2>4, <2>5 DEF CacheSound
<1>3. CASE ResetBitmapForImage(i) /\ Found(i)
  <2> DEFINE k == imageStream[i]
             e == imageCache[k]
             new == ResetEntry(e)
  <2>1. k \in DOMAIN imageCache /\ e \in Entry
    BY <1>3 DEF Found, CacheSound, CacheTyped
  <2>2. /\ imageCache' = [imageCache EXCEPT ![k] = new]
        /\ cacheSize' = cacheSize - e.size + new.size
        /\ UNCHANGED <<cur, timeCount>>
    BY <1>3 DEF ResetBitmapForImage
  <2>3. /\ new \in Entry /\ new.image = e.image
        /\ new.cachedBitmap = Nothing /\ new.cachedMask = e.cachedMask
        /\ new.curBitmap = e.curBitmap
    BY <2>1, ResetEntryFacts
  <2>4. new.size \in Nat
    BY <2>3 DEF Entry
  <2> HIDE DEF new, k
  <2>5. /\ DOMAIN imageCache' = DOMAIN imageCache
        /\ \A j \in DOMAIN imageCache : imageCache'[j] = IF j = k THEN new ELSE imageCache[j]
    BY <2>2
  <2>6. CacheTyped'
    BY <1>1, <2>2, <2>3, <2>5 DEF CacheSound, CacheTyped
  <2>7. StreamsApart'
    BY <1>1, <2>3, <2>5 DEF CacheSound, StreamsApart, Found
  <2>8. SizesSound'
    <3>1. IsFiniteSet(DOMAIN imageCache)
          /\ \A j \in DOMAIN imageCache : imageCache[j].size \in Nat
      BY EntrySizes DEF CacheSound, SizesSound
    <3>2. /\ e.size \in Nat
          /\ e.size <= TotalSize(imageCache, DOMAIN imageCache)
          /\ TotalSize(imageCache, DOMAIN imageCache) \in Nat
          /\ TotalSize(imageCache', DOMAIN imageCache) \in Nat
          /\ TotalSize(imageCache', DOMAIN imageCache)
               <= TotalSize(imageCache, DOMAIN imageCache) - e.size + new.size
      BY <2>1, <2>2, <2>4, <3>1, BytesReplaced
    <3>3. cacheSize \in Nat /\ TotalSize(imageCache, DOMAIN imageCache) <= cacheSize
      BY DEF CacheSound, SizesSound
    <3> HIDE DEF e
    <3>4. cacheSize' \in Nat /\ TotalSize(imageCache', DOMAIN imageCache) <= cacheSize'
      BY <2>2, <2>4, <3>2, <3>3
    <3> QED BY <2>5, <3>1, <3>4 DEF SizesSound
  <2>9. CurSound'
    BY <2>2, <2>5 DEF CacheSound, CurSound
  <2>10. CacheRight => CacheRight'
    BY <2>1, <2>3, <2>5 DEF CacheRight, EntryRight
  <2>11. cur # NoCur => /\ CurEntry'.image = CurEntry.image
                        /\ CurEntry'.curBitmap = CurEntry.curBitmap
    BY <2>1, <2>2, <2>3, <2>5, CurEntrySound DEF CurEntry
  <2>12. cur # NoCur /\ cur.kind # "kept" => CurEntry' = CurEntry
    BY <2>2, CurEntrySound DEF CurEntry
  <2> QED BY <1>1, <2>2, <2>6, <2>7, <2>8, <2>9, <2>10, <2>11, <2>12 DEF CacheSound
<1> QED BY <1>2, <1>3 DEF ResetBitmapForImage
-----------------------------------------------------------------------------
(* The renderer alone, whatever its images come from: every object that    *)
(* can be seen is painted once, in the order of the page.                  *)

Typed ==
    /\ page \in Seq(Seq(PageObject))
    /\ painted \in Seq({painted[j] : j \in DOMAIN painted})
    /\ status \in {"none", "continue", "done"}
    /\ stage \in {"next", "loading", "drawing"}
    /\ running \in BOOLEAN /\ inLayer \in BOOLEAN
    /\ layerIndex \in 1 .. (Len(page) + 1)
    /\ lastObj \in Nat

(* Where the rendering is: only one that is to be continued is inside a    *)
(* layer, and an image is loaded or drawn at an object that can be seen.   *)
Located ==
    /\ running => status = "continue"
    /\ inLayer => status = "continue" /\ layerIndex <= Len(page)
                                      /\ lastObj <= Len(Layer)
    /\ stage # "next" => inLayer /\ lastObj < Len(Layer) /\ CurObj.visible

IInv == Typed /\ Located /\ PaintedInOrder

-----------------------------------------------------------------------------
(* Lemmas.                                                                 *)

(* What Append does.                                                       *)
LEMMA AppendFacts ==
    ASSUME NEW S, NEW s \in Seq(S), NEW e, NEW t, t = Append(s, e)
    PROVE  /\ t \in Seq({t[j] : j \in DOMAIN t})
           /\ Len(s) \in Nat /\ DOMAIN s = 1 .. Len(s)
           /\ DOMAIN t = 1 .. (Len(s) + 1)
           /\ \A j \in 1 .. Len(s) : t[j] = s[j]
           /\ t[Len(s) + 1] = e
<1>1. /\ t \in Seq(S \cup {e}) /\ Len(t) = Len(s) + 1
      /\ Len(s) \in Nat /\ DOMAIN s = 1 .. Len(s)
  OBVIOUS
<1>2. /\ DOMAIN t = 1 .. (Len(s) + 1)
      /\ \A j \in 1 .. Len(s) : t[j] = s[j]
      /\ t[Len(s) + 1] = e
  BY <1>1
<1>3. t \in Seq({t[j] : j \in DOMAIN t})
  BY <1>1
<1> QED BY <1>1, <1>2, <1>3

(* The place where the rendering is lies on the page.                      *)
LEMMA PlaceFacts ==
    ASSUME Typed, Located, inLayer
    PROVE  /\ layerIndex \in DOMAIN page /\ layerIndex \in Nat
           /\ Layer \in Seq(PageObject)
           /\ Len(Layer) \in Nat /\ DOMAIN Layer = 1 .. Len(Layer)
           /\ lastObj < Len(Layer) => lastObj + 1 \in DOMAIN Layer
<1>1. layerIndex \in DOMAIN page /\ layerIndex \in Nat
  BY DEF Typed, Located
<1>2. Layer \in Seq(PageObject)
  BY <1>1 DEF Typed, Layer
<1> QED BY <1>1, <1>2 DEF Typed

(* What optional content hides cannot be seen.                             *)
LEMMA HiddenFacts ==
    ASSUME Typed, Located, inLayer, lastObj < Len(Layer), CurObj.hidden
    PROVE  ~CurObj.visible
<1>1. CurObj \in PageObject
  BY PlaceFacts DEF CurObj
<1> QED BY <1>1 DEF PageObject

(* Pages and their layers have whole numbers as places.                    *)
LEMMA PageFacts ==
    ASSUME Typed
    PROVE  /\ Len(page) \in Nat /\ DOMAIN page = 1 .. Len(page)
           /\ layerIndex \in Nat /\ layerIndex > 0
           /\ \A l \in DOMAIN page : \A n \in DOMAIN page[l] :
                l \in Nat /\ n \in Nat /\ n > 0
           /\ \A l \in DOMAIN page : DOMAIN page[l] = 1 .. Len(page[l])
                                     /\ Len(page[l]) \in Nat
<1>1. Len(page) \in Nat /\ DOMAIN page = 1 .. Len(page)
  BY DEF Typed
<1>2. \A l \in DOMAIN page : page[l] \in Seq(PageObject)
  BY DEF Typed
<1> QED BY <1>1, <1>2 DEF Typed

(* A step that paints nothing, and comes past nothing that can be seen,    *)
(* keeps the order.                                                        *)
LEMMA NothingPainted ==
    ASSUME IInv, UNCHANGED <<page, painted, status>>, status = "continue",
           \A l \in DOMAIN page : \A n \in DOMAIN page[l] :
             /\ Reached(l, n) => Reached(l, n)'
             /\ Reached(l, n)' => Reached(l, n) \/ ~page[l][n].visible
    PROVE  PaintedInOrder'
BY DEF IInv, PaintedInOrder, Before

(* A step that paints the object it has come to keeps the order.           *)
LEMMA OnePainted ==
    ASSUME IInv, UNCHANGED <<page, status>>, status = "continue",
           inLayer, lastObj < Len(Layer), stage # "drawing",
           NEW picture, Paint(picture),
           \A l \in DOMAIN page : \A n \in DOMAIN page[l] :
             Reached(l, n)' <=> Reached(l, n)
                                \/ (l = layerIndex /\ n = lastObj + 1)
    PROVE  PaintedInOrder' /\ painted' \in Seq({painted'[j] : j \in DOMAIN painted'})
<1> DEFINE e == [ layer |-> layerIndex, object |-> lastObj + 1,
                  picture |-> picture ]
<1>1. painted' = Append(painted, e)
  BY DEF Paint
<1>2. PICK k \in Nat : k = Len(painted)
  BY DEF IInv, Typed
<1>3. /\ painted' \in Seq({painted'[j] : j \in DOMAIN painted'})
      /\ DOMAIN painted = 1 .. k /\ DOMAIN painted' = 1 .. (k + 1)
      /\ \A j \in 1 .. k : painted'[j] = painted[j]
      /\ painted'[k + 1].layer = layerIndex
      /\ painted'[k + 1].object = lastObj + 1
  BY <1>1, <1>2, AppendFacts DEF IInv, Typed
<1>4. layerIndex \in DOMAIN page /\ lastObj + 1 \in DOMAIN page[layerIndex]
  BY PlaceFacts DEF IInv, Layer
<1>5. \A j \in 1 .. k :
        /\ painted[j].layer \in DOMAIN page
        /\ painted[j].object \in DOMAIN page[painted[j].layer]
        /\ Reached(painted[j].layer, painted[j].object)
  BY <1>3 DEF IInv, PaintedInOrder
<1>6. \A j \in 1 .. k : Before(painted[j].layer, painted[j].object,
                               layerIndex, lastObj + 1)
  <2> SUFFICES ASSUME NEW j \in 1 .. k
               PROVE  Before(painted[j].layer, painted[j].object,
                             layerIndex, lastObj + 1)
    OBVIOUS
  <2>1. painted[j].layer \in Nat /\ painted[j].object \in Nat
    BY <1>5, PageFacts DEF IInv
  <2>2. layerIndex \in Nat /\ lastObj \in Nat
    BY PageFacts DEF IInv, Typed
  <2>3. Reached(painted[j].layer, painted[j].object)
    BY <1>5
  <2> QED BY <2>1, <2>2, <2>3 DEF Before, Reached
<1>7. (\A i, j \in DOMAIN painted :
         i < j => Before(painted[i].layer, painted[i].object,
                         painted[j].layer, painted[j].object))'
  <2>1. \A i, j \in 1 .. k :
          i < j => Before(painted[i].layer, painted[i].object,
                          painted[j].layer, painted[j].object)
    BY <1>3 DEF IInv, PaintedInOrder
  <2> SUFFICES ASSUME NEW i \in 1 .. (k + 1), NEW j \in 1 .. (k + 1), i < j
               PROVE  Before(painted'[i].layer, painted'[i].object,
                             painted'[j].layer, painted'[j].object)
    BY <1>3 DEF Before
  <2>2. i \in 1 .. k /\ (j \in 1 .. k \/ j = k + 1)
    BY <1>2
  <2>3. CASE j \in 1 .. k
    BY <2>1, <2>2, <2>3, <1>3
  <2>4. CASE j = k + 1
    BY <2>2, <2>4, <1>3, <1>6
  <2> QED BY <2>2, <2>3, <2>4
<1>8. (\A j \in DOMAIN painted :
         /\ Reached(painted[j].layer, painted[j].object)
         /\ painted[j].layer \in DOMAIN page
         /\ painted[j].object \in DOMAIN page[painted[j].layer])'
  <2> SUFFICES ASSUME NEW j \in 1 .. (k + 1)
               PROVE  /\ painted'[j].layer \in DOMAIN page
                      /\ painted'[j].object \in DOMAIN page[painted'[j].layer]
                      /\ \A l, n : /\ l = painted'[j].layer
                                   /\ n = painted'[j].object
                                   => Reached(l, n)'
    BY <1>3 DEF Reached
  <2>1. j \in 1 .. k \/ j = k + 1
    BY <1>2
  <2>2. CASE j \in 1 .. k
    BY <2>2, <1>3, <1>5
  <2>3. CASE j = k + 1
    BY <2>3, <1>3, <1>4
  <2> QED BY <2>1, <2>2, <2>3
<1>9. (\A l \in DOMAIN page : \A n \in DOMAIN page[l] :
         Reached(l, n) /\ page[l][n].visible =>
           \E j \in DOMAIN painted : painted[j].layer = l
                                     /\ painted[j].object = n)'
  <2> SUFFICES ASSUME NEW l \in DOMAIN page, NEW n \in DOMAIN page[l],
                      Reached(l, n)', page[l][n].visible
               PROVE  \E j \in 1 .. (k + 1) : painted'[j].layer = l
                                              /\ painted'[j].object = n
    BY <1>3
  <2>1. CASE Reached(l, n)
    <3>1. PICK j \in 1 .. k : painted[j].layer = l /\ painted[j].object = n
      BY <2>1, <1>3 DEF IInv, PaintedInOrder
    <3> QED BY <3>1, <1>3, <1>2
  <2>2. CASE l = layerIndex /\ n = lastObj + 1
    BY <2>2, <1>3, <1>2
  <2> QED BY <2>1, <2>2
<1>10. (status = "done" => layerIndex = Len(page) + 1)'
  OBVIOUS
<1> QED BY <1>3, <1>7, <1>8, <1>9, <1>10 DEF PaintedInOrder

-----------------------------------------------------------------------------
(* The invariant holds, one step per action.                               *)

LEMMA InitIInv ==
    ASSUME Init
    PROVE  IInv
<1>1. page \in Seq(Seq(PageObject)) /\ Len(page) \in Nat
  BY PagesAssumption DEF Init
<1>2. painted = <<>> /\ painted \in Seq({painted[j] : j \in DOMAIN painted})
  BY DEF Init
<1>3. Typed
  <2>1. layerIndex \in 1 .. (Len(page) + 1) /\ lastObj \in Nat
    BY <1>1 DEF Init
  <2>2. status = "none" /\ stage = "next" /\ running = FALSE /\ inLayer = FALSE
    BY DEF Init
  <2> QED BY <1>1, <1>2, <2>1, <2>2 DEF Typed
<1>4. Located
  BY DEF Init, Located
<1>5. PaintedInOrder
  BY DEF Init, PaintedInOrder
<1> QED BY <1>3, <1>4, <1>5 DEF IInv

(* Steps that leave the place, and do not begin to draw, disturb nothing.  *)
LEMMA PlaceKept ==
    ASSUME IInv, UNCHANGED <<page, status, painted, positionVars>>,
           running' \in BOOLEAN, running' => status = "continue",
           \/ stage' = stage
           \/ stage = "next" /\ stage' = "loading" /\ inLayer
              /\ lastObj < Len(Layer) /\ CurObj.visible
    PROVE  IInv'
<1>1. Typed'
  BY DEF IInv, Typed, positionVars
<1>2. Located'
  BY DEF IInv, Located, positionVars, Layer, CurObj
<1>3. PaintedInOrder'
  BY DEF IInv, PaintedInOrder, positionVars, Reached, Before
<1> QED BY <1>1, <1>2, <1>3 DEF IInv

(* Coming past the object that the rendering is at.                        *)
LEMMA ObjectPassed ==
    ASSUME IInv, running, inLayer, lastObj < Len(Layer),
           UNCHANGED <<page, status, layerIndex, inLayer>>, stage' = "next",
           NEW togo, ObjectDone(togo),
           painted' \in Seq({painted'[j] : j \in DOMAIN painted'}),
           PaintedInOrder'
    PROVE  IInv'
<1>1. lastObj' = lastObj + 1 /\ running' \in BOOLEAN /\ status = "continue"
  BY DEF ObjectDone, Passed, IInv, Located
<1>2. lastObj \in Nat /\ Len(Layer) \in Nat
  BY PlaceFacts DEF IInv, Typed
<1>3. Typed'
  BY <1>1, <1>2 DEF IInv, Typed
<1>4. Located'
  BY <1>1, <1>2 DEF IInv, Located, Layer
<1> QED BY <1>3, <1>4 DEF IInv

(* An image begins to be drawn.                                            *)
LEMMA DrawingBegins ==
    ASSUME IInv, running, inLayer, lastObj < Len(Layer), CurObj.visible,
           stage # "drawing", UNCHANGED <<page, status, positionVars>>,
           running' = running, NEW hasBitmap, StartRenderDIBBase(hasBitmap)
    PROVE  IInv'
<1>1. PICK picture : Paint(picture)
  BY DEF StartRenderDIBBase
<1>2. stage' = "drawing" /\ status = "continue"
  BY DEF StartRenderDIBBase, IInv, Located
<1>3. \A l \in DOMAIN page : \A n \in DOMAIN page[l] :
        Reached(l, n)' <=> Reached(l, n) \/ (l = layerIndex /\ n = lastObj + 1)
  BY <1>2 DEF Reached, positionVars
<1>4. PaintedInOrder' /\ painted' \in Seq({painted'[j] : j \in DOMAIN painted'})
  BY <1>1, <1>2, <1>3, OnePainted
<1>5. Typed'
  BY <1>2, <1>4 DEF IInv, Typed, positionVars
<1>6. Located'
  BY <1>2 DEF IInv, Located, positionVars, Layer, CurObj
<1> QED BY <1>4, <1>5, <1>6 DEF IInv

LEMMA LayerSteps ==
    ASSUME IInv, EnterLayer \/ LeaveLayer \/ Done
    PROVE  IInv'
<1>1. CASE EnterLayer
  <2>1. stage = "next" /\ status = "continue"
    BY <1>1 DEF EnterLayer, IInv, Located, Typed
  <2>2. layerIndex \in DOMAIN page /\ Len(Layer) \in Nat
    BY <1>1, PageFacts DEF EnterLayer, IInv, Layer
  <2>3. Typed'
    BY <1>1 DEF EnterLayer, IInv, Typed
  <2>4. Located'
    BY <1>1, <2>1, <2>2 DEF EnterLayer, Located, Layer
  <2>5. \A l \in DOMAIN page : \A n \in DOMAIN page[l] :
          Reached(l, n)' <=> Reached(l, n)
    BY <1>1, <2>1, PageFacts DEF EnterLayer, IInv, Reached
  <2>6. PaintedInOrder'
    BY <1>1, <2>1, <2>5, NothingPainted DEF EnterLayer
  <2> QED BY <2>3, <2>4, <2>6 DEF IInv
<1>2. CASE LeaveLayer
  <2>1. status = "continue" /\ layerIndex <= Len(page)
    BY <1>2 DEF LeaveLayer, IInv, Located
  <2>2. Typed'
    <3>1. layerIndex' \in 1 .. (Len(page) + 1)
      BY <1>2, <2>1, PageFacts DEF LeaveLayer, IInv
    <3> QED BY <1>2, <3>1 DEF LeaveLayer, IInv, Typed
  <2>3. Located'
    BY <1>2, <2>1 DEF LeaveLayer, Located
  <2>4. \A l \in DOMAIN page : \A n \in DOMAIN page[l] :
          Reached(l, n)' <=> Reached(l, n)
    BY <1>2, PageFacts DEF LeaveLayer, IInv, Reached, Layer
  <2>5. PaintedInOrder'
    BY <1>2, <2>1, <2>4, NothingPainted DEF LeaveLayer
  <2> QED BY <2>2, <2>3, <2>5 DEF IInv
<1>3. CASE Done
  <2>1. layerIndex = Len(page) + 1 /\ stage = "next"
    BY <1>3, PageFacts DEF Done, IInv, Typed, Located
  <2>2. Typed'
    BY <1>3 DEF Done, IInv, Typed, positionVars
  <2>3. Located'
    BY <1>3, <2>1 DEF Done, Located, positionVars
  <2>4. status = "continue"
    BY <1>3 DEF Done, IInv, Located
  <2>5. PaintedInOrder'
    BY <1>3, <2>1, <2>4 DEF Done, IInv, PaintedInOrder, positionVars, Reached,
                            Before
  <2> QED BY <2>2, <2>3, <2>5 DEF IInv
<1> QED BY <1>1, <1>2, <1>3

LEMMA ObjectSteps ==
    ASSUME IInv, SkipObject \/ HideObject \/ DrawObject \/ ImageDone
    PROVE  IInv'
<1>1. CASE SkipObject \/ HideObject
  <2>1. /\ running /\ inLayer /\ stage = "next" /\ lastObj < Len(Layer)
        /\ ~CurObj.visible /\ lastObj' = lastObj + 1
        /\ UNCHANGED <<page, status, layerIndex, inLayer, stage, painted>>
    <3>1. InList /\ lastObj' = lastObj + 1
          /\ UNCHANGED <<page, status, layerIndex, inLayer, stage, painted>>
      BY <1>1 DEF SkipObject, HideObject, ObjectDone, Passed
    <3>2. ~CurObj.visible
      BY <1>1, <3>1, HiddenFacts DEF SkipObject, HideObject, InList, IInv
    <3> QED BY <3>1, <3>2 DEF InList
  <2>2. status = "continue" /\ lastObj \in Nat
    BY <2>1 DEF IInv, Located, Typed
  <2>3. \A l \in DOMAIN page : \A n \in DOMAIN page[l] :
          /\ Reached(l, n) => Reached(l, n)'
          /\ Reached(l, n)' => Reached(l, n) \/ ~page[l][n].visible
    BY <2>1, <2>2, PageFacts DEF IInv, Reached, CurObj, Layer
  <2>4. PaintedInOrder'
    BY <2>1, <2>2, <2>3, NothingPainted
  <2>5. PICK togo : ObjectDone(togo)
    BY <1>1 DEF SkipObject, HideObject
  <2> QED BY <2>1, <2>4, <2>5, ObjectPassed DEF IInv, Typed
<1>2. CASE DrawObject
  <2>1. /\ running /\ inLayer /\ stage = "next" /\ lastObj < Len(Layer)
        /\ lastObj' = lastObj + 1 /\ Paint(Nothing)
        /\ UNCHANGED <<page, status, layerIndex, inLayer, stage>>
    BY <1>2 DEF DrawObject, InList, ObjectDone, Passed
  <2>2. status = "continue" /\ lastObj \in Nat
    BY <2>1 DEF IInv, Located, Typed
  <2>3. \A l \in DOMAIN page : \A n \in DOMAIN page[l] :
          Reached(l, n)' <=> Reached(l, n)
                             \/ (l = layerIndex /\ n = lastObj + 1)
    BY <2>1, <2>2, PageFacts DEF IInv, Reached
  <2>4. PaintedInOrder' /\ painted' \in Seq({painted'[j] : j \in DOMAIN painted'})
    BY <2>1, <2>2, <2>3, OnePainted
  <2> QED BY <1>2, <2>1, <2>4, ObjectPassed DEF DrawObject
<1>3. CASE ImageDone
  <2>1. /\ running /\ stage = "drawing" /\ stage' = "next"
        /\ lastObj' = lastObj + 1
        /\ UNCHANGED <<page, status, layerIndex, inLayer, painted>>
    BY <1>3 DEF ImageDone, ObjectDone, Passed
  <2>2. /\ status = "continue" /\ lastObj \in Nat
        /\ inLayer /\ lastObj < Len(Layer)
    BY <2>1 DEF IInv, Located, Typed
  <2>3. \A l \in DOMAIN page : \A n \in DOMAIN page[l] :
          Reached(l, n)' <=> Reached(l, n)
    BY <2>1, <2>2, PageFacts DEF IInv, Reached
  <2>4. PaintedInOrder'
    BY <2>1, <2>2, <2>3, NothingPainted
  <2> QED BY <1>3, <2>1, <2>2, <2>4, ObjectPassed DEF ImageDone, IInv, Typed
<1> QED BY <1>1, <1>2, <1>3

LEMMA ImageSteps ==
    ASSUME IInv, StartImage \/ ContinueLoad \/ ContinueDrawing
    PROVE  IInv'
<1>1. CASE StartImage
  <2>1. /\ running /\ inLayer /\ stage = "next" /\ lastObj < Len(Layer)
        /\ CurObj.visible
        /\ UNCHANGED <<page, status, running, positionVars>>
    BY <1>1 DEF StartImage, InList
  <2>2. CASE \E hasBitmap : StartRenderDIBBase(hasBitmap)
    BY <2>1, <2>2, DrawingBegins
  <2>3. CASE stage' = "loading" /\ UNCHANGED painted
    BY <2>1, <2>3, PlaceKept DEF IInv, Typed, Located
  <2> QED BY <1>1, <2>2, <2>3 DEF StartImage
<1>2. CASE ContinueLoad
  <2>1. /\ running /\ stage = "loading"
        /\ UNCHANGED <<page, status, positionVars>>
    BY <1>2 DEF ContinueLoad
  <2>2. inLayer /\ lastObj < Len(Layer) /\ CurObj.visible /\ status = "continue"
    BY <2>1 DEF IInv, Located
  <2>3. CASE running' = running /\ \E hasBitmap : StartRenderDIBBase(hasBitmap)
    BY <2>1, <2>2, <2>3, DrawingBegins
  <2>4. CASE running' \in BOOLEAN /\ stage' = stage /\ UNCHANGED painted
    BY <2>1, <2>2, <2>4, PlaceKept
  <2> QED BY <1>2, <2>3, <2>4 DEF ContinueLoad
<1>3. CASE ContinueDrawing
  BY <1>3, PlaceKept DEF ContinueDrawing, positionVars
<1> QED BY <1>1, <1>2, <1>3

LEMMA CallSteps ==
    ASSUME IInv, Start \/ Continue \/ Close \/ (\E i \in Images : SetImage(i))
    PROVE  IInv'
<1>1. CASE Start
  <2>1. Typed'
    <3>1. painted' = <<>> /\ painted' \in Seq({painted'[j] : j \in DOMAIN painted'})
      BY <1>1 DEF Start
    <3>2. layerIndex' \in 1 .. (Len(page) + 1)
      BY <1>1, PageFacts DEF Start, IInv
    <3> QED BY <1>1, <3>1, <3>2 DEF Start, IInv, Typed
  <2>2. Located'
    BY <1>1 DEF Start, Located
  <2>3. PaintedInOrder'
    BY <1>1, PageFacts DEF Start, IInv, PaintedInOrder, Reached
  <2> QED BY <2>1, <2>2, <2>3 DEF IInv
<1>2. CASE Continue
  BY <1>2, PlaceKept DEF Continue
<1>3. CASE Close
  <2>1. Typed'
    BY <1>3 DEF Close, IInv, Typed
  <2>2. Located'
    BY <1>3 DEF Close, Located
  <2>3. PaintedInOrder'
    BY <1>3 DEF Close, PaintedInOrder
  <2> QED BY <2>1, <2>2, <2>3 DEF IInv
<1>4. CASE \E i \in Images : SetImage(i)
  BY <1>4, PlaceKept DEF SetImage, renderVars, IInv, Typed, Located
<1> QED BY <1>1, <1>2, <1>3, <1>4

LEMMA StepIInv ==
    ASSUME IInv, [Next]_vars
    PROVE  IInv'
<1>1. CASE UNCHANGED vars
  BY <1>1, PlaceKept DEF vars, renderVars, IInv, Typed, Located
<1> QED BY <1>1, LayerSteps, ObjectSteps, ImageSteps, CallSteps DEF Next, Step

(* However CPDF_ProgressiveRenderer::Continue pauses and goes on, it       *)
(* renders each object that can be seen once, in the order of the page.    *)
THEOREM PaintedInOrderAlways == Spec => []PaintedInOrder
<1>1. Init => IInv
  BY InitIInv
<1>2. IInv /\ [Next]_vars => IInv'
  BY StepIInv
<1>3. IInv => PaintedInOrder
  BY DEF IInv
<1> QED BY <1>1, <1>2, <1>3, PTL DEF Spec

-----------------------------------------------------------------------------
(* The renderer with its cache: the inductive invariant.                   *)

RendererTyped ==
    /\ dev \in Nat /\ limited \in BOOLEAN
    /\ blend \in Nat /\ objsToGo \in Nat
    /\ painted \in Seq(Place)

(* A rendering has a device, and goes on for some objects.                 *)
Going ==
    /\ status = "continue" => dev # 0
    /\ inLayer => objsToGo # 0

(* The load that is continued is that of the object being rendered ...     *)
LoadingNow ==
    stage = "loading" =>
      /\ CurObj.image \in Images /\ cur # NoCur
      /\ CurEntry.image = CurObj.image
      /\ CurEntry.curBitmap # Nothing
      /\ CurEntry.curBitmap.left > 0

(* ... of the stream that its image has, for the device there is.          *)
LoadRight ==
    stage = "loading" =>
      LET s == imageStream[CurObj.image]
      IN  /\ EntryRight(CurEntry, s)
          /\ cur.kind = "kept" => cur.key = s
          /\ CurEntry.curBitmap.stream = s
          /\ CurEntry.curBitmap.size = DecodedSize(s, dev)

PicturesRight == ~EditWhileLoading => CacheRight /\ LoadRight

RInv == IInv /\ RendererTyped /\ Going /\ CacheSound /\ LoadingNow /\ PicturesRight

-----------------------------------------------------------------------------
(* Lemmas.                                                                 *)

(* The object that is being rendered is one of the page.                   *)
LEMMA CurObjFacts ==
    ASSUME IInv, inLayer, lastObj < Len(Layer)
    PROVE  /\ CurObj \in PageObject
           /\ CurObj.image # Nothing => CurObj.image \in Images
           /\ layerIndex \in Nat /\ lastObj + 1 \in Nat
           /\ layerIndex \in DOMAIN page /\ lastObj + 1 \in DOMAIN page[layerIndex]
           /\ CurObj = page[layerIndex][lastObj + 1]
<1>1. /\ layerIndex \in DOMAIN page /\ layerIndex \in Nat
      /\ Layer \in Seq(PageObject) /\ lastObj + 1 \in DOMAIN Layer
  BY PlaceFacts DEF IInv
<1>2. lastObj + 1 \in Nat
  BY DEF IInv, Typed
<1>3. CurObj \in PageObject
  BY <1>1 DEF CurObj
<1> QED BY <1>1, <1>2, <1>3 DEF CurObj, Layer, PageObject

(* The cache and what it is right about stay when nothing of it changes.   *)
LEMMA CacheKept ==
    ASSUME CacheSound, UNCHANGED <<imageStream, cacheVars>>
    PROVE  /\ CacheSound' /\ CurEntry' = CurEntry
           /\ CacheRight => CacheRight'
BY DEF cacheVars, CacheSound, CacheTyped, StreamsApart, Found, SizesSound,
       CurSound, CacheRight, CurEntry

(* Steps that are not about images, and those that find or leave no load.  *)
LEMMA NoLoad ==
    ASSUME RInv, IInv', UNCHANGED <<imageStream, cacheVars>>, stage' # "loading",
           RendererTyped', Going'
    PROVE  RInv'
BY CacheKept DEF RInv, LoadingNow, PicturesRight, LoadRight

(* What is painted is a picture at a place.                                *)
LEMMA PaintTyped ==
    ASSUME RInv, inLayer, lastObj < Len(Layer),
           NEW picture \in {Nothing} \cup Shown, Paint(picture)
    PROVE  painted' \in Seq(Place)
<1> DEFINE e == [layer |-> layerIndex, object |-> lastObj + 1, picture |-> picture]
<1>1. e \in Place
  BY CurObjFacts DEF RInv, Place
<1>2. painted' = Append(painted, e) /\ painted \in Seq(Place)
  BY DEF Paint, RInv, RendererTyped
<1> HIDE DEF e
<1> QED BY <1>1, <1>2

(* How many objects are left is never 0 behind an object.                  *)
LEMMA ToGoTyped ==
    ASSUME RInv, inLayer, NEW togo \in {objsToGo, ToGo}, ObjectDone(togo)
    PROVE  objsToGo' \in Nat /\ objsToGo' # 0
<1>1. objsToGo \in Nat /\ objsToGo # 0
  BY DEF RInv, RendererTyped, Going
<1>2. togo \in Nat
  BY <1>1 DEF ToGo
<1>3. StepLimit \in Nat /\ StepLimit # 0
  BY RendererAssumption
<1> QED BY <1>2, <1>3 DEF ObjectDone

-----------------------------------------------------------------------------
(* The invariant holds, one step per action.                               *)

LEMMA InitRInv ==
    ASSUME Init
    PROVE  RInv
<1>1. IInv
  BY InitIInv
<1>2. RendererTyped /\ Going
  <2>1. painted \in Seq(Place)
    BY DEF Init
  <2> QED BY <2>1 DEF Init, RendererTyped, Going
<1>3. DOMAIN imageCache = {}
  BY DEF Init
<1>4. CacheTyped
  BY <1>3, FirstStreamAssumption DEF Init, CacheTyped
<1>5. StreamsApart
  BY <1>3, FirstStreamAssumption DEF Init, StreamsApart, Found
<1>6. SizesSound
  <2>1. Bytes(imageCache, {}) = {}
    BY DEF Bytes
  <2>2. TotalSize(imageCache, {}) = 0
    BY <2>1, FS_EmptySet DEF TotalSize
  <2> QED BY <1>3, <2>2, FS_EmptySet DEF Init, SizesSound
<1>7. CurSound
  BY DEF Init, CurSound, NoCur
<1>8. LoadingNow /\ PicturesRight
  BY <1>3 DEF Init, LoadingNow, PicturesRight, LoadRight, CacheRight
<1> QED BY <1>1, <1>2, <1>4, <1>5, <1>6, <1>7, <1>8 DEF RInv, CacheSound

LEMMA CallStepsRInv ==
    ASSUME RInv, IInv', Start \/ Continue \/ Close
    PROVE  RInv'
<1>1. CASE Start
  <2>1. /\ dev' \in Nat \ {0} /\ limited' \in BOOLEAN /\ blend' = 0
        /\ objsToGo' = StepLimit /\ painted' = <<>> /\ stage' = "next"
        /\ UNCHANGED <<imageStream, cacheVars>>
    BY <1>1, RendererAssumption DEF Start
  <2>2. RendererTyped' /\ Going'
    BY <2>1, RendererAssumption DEF RendererTyped, Going
  <2> QED BY <2>1, <2>2, NoLoad
<1>2. CASE Continue
  <2>1. /\ UNCHANGED <<imageStream, cacheVars, page, status, dev, limited,
                       positionVars, stage, blend, painted>>
        /\ objsToGo' = StepLimit
    BY <1>2 DEF Continue
  <2>2. RendererTyped' /\ Going'
    BY <2>1, RendererAssumption DEF RInv, RendererTyped, Going
  <2>3. CacheSound' /\ CurEntry' = CurEntry /\ (CacheRight => CacheRight')
    BY <2>1, CacheKept DEF RInv
  <2>4. UNCHANGED <<CurObj, cur>>
    BY <2>1 DEF CurObj, Layer, positionVars, cacheVars
  <2>5. LoadingNow' /\ PicturesRight'
    BY <2>1, <2>3, <2>4 DEF RInv, LoadingNow, PicturesRight, LoadRight
  <2> QED BY <2>2, <2>3, <2>5 DEF RInv
<1>3. CASE Close
  <2>1. /\ UNCHANGED <<imageStream, cacheVars, dev, limited, objsToGo, painted>>
        /\ stage' = "next" /\ blend' = 0 /\ inLayer' = FALSE /\ status' = "none"
    BY <1>3 DEF Close
  <2>2. RendererTyped' /\ Going'
    BY <2>1 DEF RInv, RendererTyped, Going
  <2> QED BY <2>1, <2>2, NoLoad
<1> QED BY <1>1, <1>2, <1>3

LEMMA LayerStepsRInv ==
    ASSUME RInv, IInv', EnterLayer \/ LeaveLayer \/ Done
    PROVE  RInv'
<1>1. /\ stage = "next" /\ UNCHANGED stage
      /\ UNCHANGED <<imageStream, cacheVars, dev, limited, blend, painted>>
  BY DEF EnterLayer, LeaveLayer, Done, RInv, IInv, Typed, Located
<1>2. objsToGo' \in Nat /\ (inLayer' => objsToGo' # 0)
  BY RendererAssumption DEF EnterLayer, LeaveLayer, Done, RInv, RendererTyped, Going,
                            positionVars
<1>3. status' = "continue" => status = "continue"
  BY DEF EnterLayer, LeaveLayer, Done
<1>4. RendererTyped' /\ Going'
  BY <1>1, <1>2, <1>3 DEF RInv, RendererTyped, Going
<1> QED BY <1>1, <1>4, NoLoad

LEMMA ObjectStepsRInv ==
    ASSUME RInv, IInv', SkipObject \/ DrawObject \/ ContinueDrawing
    PROVE  RInv'
<1>1. CASE SkipObject
  <2>1. /\ inLayer /\ ObjectDone(objsToGo) /\ stage = "next"
        /\ UNCHANGED <<imageStream, cacheVars, status, dev, limited, inLayer,
                       stage, blend, painted>>
    BY <1>1 DEF SkipObject, InList
  <2>2. RendererTyped' /\ Going'
    BY <2>1, ToGoTyped DEF RInv, RendererTyped, Going
  <2> QED BY <2>1, <2>2, NoLoad
<1>2. CASE DrawObject
  <2>1. /\ inLayer /\ lastObj < Len(Layer) /\ ObjectDone(ToGo) /\ Paint(Nothing)
        /\ stage = "next"
        /\ UNCHANGED <<imageStream, cacheVars, status, dev, limited, inLayer,
                       stage, blend>>
    BY <1>2 DEF DrawObject, InList
  <2>2. painted' \in Seq(Place)
    BY <2>1, PaintTyped
  <2>3. RendererTyped' /\ Going'
    BY <2>1, <2>2, ToGoTyped DEF RInv, RendererTyped, Going
  <2> QED BY <2>1, <2>3, NoLoad
<1>3. CASE ContinueDrawing
  <2>1. /\ stage = "drawing" /\ blend' = blend - 1 /\ blend > 0
        /\ UNCHANGED <<imageStream, cacheVars, status, dev, limited, positionVars,
                       objsToGo, stage, painted>>
    BY <1>3 DEF ContinueDrawing
  <2>2. RendererTyped' /\ Going'
    BY <2>1 DEF RInv, RendererTyped, Going, positionVars
  <2> QED BY <2>1, <2>2, NoLoad
<1> QED BY <1>1, <1>2, <1>3
-----------------------------------------------------------------------------
(* Images: what is painted is right, and so is what a pause leaves.        *)

(* The picture of an entry that has a bitmap.                              *)
LEMMA PictureShown ==
    ASSUME NEW e \in Entry, e.cachedBitmap # Nothing
    PROVE  /\ Picture(e) \in Shown /\ Picture(e) # Nothing
           /\ Picture(e).stream = e.cachedBitmap.stream
           /\ Picture(e).size = e.cachedBitmap.size
           /\ Picture(e).mask = e.cachedMask
<1>1. e.cachedBitmap \in Bitmap /\ e.cachedMask \in Streams \cup {Nothing}
  BY DEF Entry
<1>2. Picture(e) \in Shown
  BY <1>1 DEF Picture, Bitmap, Shown
<1> QED BY <1>2, NullAssumption DEF Picture

(* It is what the page says when the entry is right and its bitmap large   *)
(* enough.                                                                 *)
LEMMA PictureRight ==
    ASSUME NEW obj, obj.image # Nothing, NEW s, s = imageStream[obj.image],
           NEW e \in Entry, e.cachedBitmap # Nothing, EntryRight(e, s),
           e.cachedBitmap.size >= StreamInfo[s].size \/ e.cachedBitmap.size >= dev
    PROVE  Whole!Right(obj, Picture(e))
<1>1. /\ Picture(e) # Nothing /\ Picture(e).stream = s
      /\ Picture(e).size = e.cachedBitmap.size
      /\ Picture(e).mask = IF StreamInfo[s].mask > 0 THEN s ELSE Nothing
  BY PictureShown DEF EntryRight
<1>2. StreamInfo[s].good
  BY DEF EntryRight
<1> QED BY <1>1, <1>2 DEF Whole!Right, Whole!AsSharp

(* The entry that a load leaves shows what was loaded.                     *)
LEMMA LoadedPicture ==
    ASSUME RInv, NEW e \in Entry, e.curBitmap \in Bitmap, e.curBitmap # Nothing,
           NEW hasBitmap, hasBitmap = StreamInfo[e.curBitmap.stream].good,
           NEW picture, picture = IF hasBitmap THEN Picture(Loaded(e)) ELSE Nothing,
           NEW obj, obj.image \in Images,
           ~EditWhileLoading =>
                    /\ e.curBitmap.stream = imageStream[obj.image]
                    /\ e.curBitmap.size = DecodedSize(imageStream[obj.image], dev)
                    /\ EntryRight(Loaded(e), imageStream[obj.image])
                    /\ dev \in Nat \ {0}
    PROVE  /\ picture \in {Nothing} \cup Shown
           /\ ~EditWhileLoading => Whole!Right(obj, picture)
<1> DEFINE s == e.curBitmap.stream
           new == Loaded(e)
<1>1. s \in Streams /\ StreamInfo[s].good \in BOOLEAN
  BY CacheAssumption DEF Bitmap
<1>2. /\ new \in Entry
      /\ StreamInfo[s].good => new.cachedBitmap = e.curBitmap
  BY LoadedEntry DEF RInv, CacheSound, CacheTyped
<1>3. obj.image # Nothing
  BY CacheAssumption
<1> HIDE DEF new
<1>4. CASE hasBitmap
  <2>1. new.cachedBitmap = e.curBitmap /\ picture = Picture(new)
    BY <1>2, <1>4 DEF new
  <2>2. picture \in Shown
    BY <1>2, <2>1, PictureShown
  <2>3. ASSUME ~EditWhileLoading
        PROVE  Whole!Right(obj, picture)
    <3>1. s = imageStream[obj.image] /\ EntryRight(new, s)
      BY <2>3 DEF new
    <3>2. new.cachedBitmap.size >= StreamInfo[s].size \/ new.cachedBitmap.size >= dev
      BY <1>1, <2>1, <2>3, <3>1, DecodedSizeFacts
    <3> QED BY <1>2, <1>3, <2>1, <3>1, <3>2, PictureRight
  <2> QED BY <2>2, <2>3
<1>5. CASE ~hasBitmap
  <2>1. ~EditWhileLoading => ~StreamInfo[imageStream[obj.image]].good
    BY <1>5
  <2> QED BY <1>5, <2>1 DEF Whole!Right
<1> QED BY <1>1, <1>4, <1>5

(* What a step of an image that is looked up or loaded leaves: a load that *)
(* goes on, or a picture that has been painted.                            *)
Pauses ==
    /\ stage' = "loading" /\ LoadingNow' /\ (~EditWhileLoading => LoadRight')
    /\ UNCHANGED <<blend, painted>>
Paints ==
    /\ stage' = "drawing" /\ blend' \in Nat
    /\ \E picture \in {Nothing} \cup Shown :
         /\ Paint(picture)
         /\ ~EditWhileLoading => Whole!Right(CurObj, picture)

LEMMA PaintsWhenDrawn ==
    ASSUME NEW hasBitmap, StartRenderDIBBase(hasBitmap),
           NEW picture \in {Nothing} \cup Shown,
           picture = IF hasBitmap THEN Picture(imageCache'[cur'.key]) ELSE Nothing,
           ~EditWhileLoading => Whole!Right(CurObj, picture)
    PROVE  Paints
<1>1. blend' \in Nat
  BY RendererAssumption DEF StartRenderDIBBase
<1> QED BY <1>1 DEF StartRenderDIBBase, Paints

LEMMA StartImageFacts ==
    ASSUME RInv, StartImage
    PROVE  /\ CacheSound' /\ UNCHANGED imageStream
           /\ ~EditWhileLoading => CacheRight'
           /\ Pauses \/ Paints
<1> DEFINE i == CurObj.image
           s == imageStream[i]
<1>1. /\ inLayer /\ lastObj < Len(Layer) /\ i # Nothing /\ running
      /\ UNCHANGED <<page, dev, positionVars>>
  BY DEF StartImage, InList
<1>2. i \in Images
  BY <1>1, CurObjFacts DEF RInv
<1>3. dev \in Nat \ {0} /\ s \in Streams
  BY <1>1, <1>2 DEF RInv, RendererTyped, Going, IInv, Located, CacheSound, CacheTyped
<1>4. ~EditWhileLoading => CacheRight
  BY DEF RInv, PicturesRight
<1>5. CacheSound
  BY DEF RInv
<1>6. CASE StartFindsBitmap(i, dev) /\ StartRenderDIBBase(TRUE)
  <2> DEFINE e == imageCache'[cur'.key]
  <2>1. /\ CacheSound' /\ UNCHANGED imageStream
        /\ e \in Entry /\ e.cachedBitmap # Nothing
        /\ e.cachedBitmap.size >= dev
        /\ CacheRight => CacheRight' /\ EntryRight(e, s)
    BY <1>2, <1>3, <1>5, <1>6, FindsSound
  <2>2. Picture(e) \in Shown
    BY <2>1, PictureShown
  <2>3. ~EditWhileLoading => Whole!Right(CurObj, Picture(e))
    BY <1>1, <1>4, <2>1, PictureRight
  <2>4. Paints
    BY <1>6, <2>2, <2>3, PaintsWhenDrawn
  <2> QED BY <1>4, <2>1, <2>4
<1>7. CASE StartLoadsAtOnce(i, dev) /\ StartRenderDIBBase(StreamInfo[s].good)
  <2>1. CacheSound' /\ UNCHANGED imageStream
    BY <1>2, <1>3, <1>5, <1>7, LoadsAtOnceSound
  <2>2. PICK e \in Entry :
          /\ imageCache'[cur'.key] = Loaded(e)
          /\ e.curBitmap \in Bitmap /\ e.curBitmap # Nothing
          /\ e.curBitmap.stream = s /\ e.curBitmap.size = DecodedSize(s, dev)
          /\ CacheRight => CacheRight' /\ EntryRight(Loaded(e), s)
    BY <1>2, <1>3, <1>5, <1>7, LoadsAtOnceSound
  <2> DEFINE picture == IF StreamInfo[s].good THEN Picture(Loaded(e)) ELSE Nothing
  <2>3. /\ picture \in {Nothing} \cup Shown
        /\ ~EditWhileLoading => Whole!Right(CurObj, picture)
    BY <1>2, <1>3, <1>4, <2>2, LoadedPicture
  <2>4. Paints
    BY <1>7, <2>2, <2>3, PaintsWhenDrawn
  <2> QED BY <1>4, <2>1, <2>2, <2>4
<1>8. CASE StartLoads(i, dev) /\ stage' = "loading" /\ UNCHANGED <<blend, painted>>
  <2>1. /\ CacheSound' /\ UNCHANGED imageStream /\ cur' # NoCur
        /\ CurEntry' \in Entry /\ CurEntry'.image = i
        /\ CacheRight => CacheRight' /\ EntryRight(CurEntry', s)
        /\ cur'.kind = "kept" => cur'.key = s
        /\ CurEntry'.curBitmap \in Bitmap /\ CurEntry'.curBitmap # Nothing
        /\ CurEntry'.curBitmap.left > 0 /\ CurEntry'.curBitmap.stream = s
        /\ CurEntry'.curBitmap.size = DecodedSize(s, dev)
    BY <1>2, <1>3, <1>5, <1>8, LoadsSound
  <2>2. CurObj' = CurObj
    BY <1>1 DEF CurObj, Layer, positionVars
  <2>3. LoadingNow'
    BY <1>2, <2>1, <2>2 DEF LoadingNow
  <2>4. ~EditWhileLoading => LoadRight'
    <3>1. dev' = dev
      BY <1>1
    <3> QED BY <1>4, <2>1, <2>2, <3>1 DEF LoadRight, EntryRight, DecodedSize
  <2>5. Pauses
    BY <1>8, <2>3, <2>4 DEF Pauses
  <2> QED BY <1>4, <2>1, <2>5
<1> QED BY <1>6, <1>7, <1>8 DEF StartImage

LEMMA ContinueLoadFacts ==
    ASSUME RInv, ContinueLoad
    PROVE  /\ CacheSound' /\ UNCHANGED imageStream
           /\ ~EditWhileLoading => CacheRight'
           /\ Pauses \/ Paints
<1> DEFINE i == CurObj.image
           s == imageStream[i]
<1>1. /\ stage = "loading" /\ inLayer /\ running
      /\ UNCHANGED <<page, dev, positionVars>>
  BY DEF ContinueLoad, RInv, IInv, Located
<1>2. /\ i \in Images /\ cur # NoCur /\ CurEntry.image = i
      /\ CurEntry.curBitmap # Nothing
  BY <1>1 DEF RInv, LoadingNow
<1>3. dev \in Nat \ {0}
  BY <1>1 DEF RInv, RendererTyped, Going, IInv, Located
<1>4. ~EditWhileLoading =>
        /\ CacheRight /\ EntryRight(CurEntry, s)
        /\ cur.kind = "kept" => cur.key = s
        /\ CurEntry.curBitmap.stream = s
        /\ CurEntry.curBitmap.size = DecodedSize(s, dev)
  BY <1>1 DEF RInv, PicturesRight, LoadRight
<1>5. CacheSound
  BY DEF RInv
<1>6. CASE ContinueDecodes /\ UNCHANGED <<stage, blend, painted>>
  <2>1. /\ CacheSound' /\ UNCHANGED imageStream
        /\ CacheRight => CacheRight'
        /\ cur' # NoCur /\ cur'.kind = cur.kind
        /\ cur.kind = "kept" => cur'.key = cur.key
        /\ CurEntry'.image = CurEntry.image
        /\ CurEntry'.cachedBitmap = CurEntry.cachedBitmap
        /\ CurEntry'.cachedMask = CurEntry.cachedMask
        /\ CurEntry'.curBitmap \in Bitmap /\ CurEntry'.curBitmap # Nothing
        /\ CurEntry'.curBitmap.stream = CurEntry.curBitmap.stream
        /\ CurEntry'.curBitmap.size = CurEntry.curBitmap.size
        /\ CurEntry'.curBitmap.left > 0
    BY <1>2, <1>5, <1>6, DecodesSound
  <2>2. CurObj' = CurObj
    BY <1>1 DEF CurObj, Layer, positionVars
  <2>3. LoadingNow'
    BY <1>2, <2>1, <2>2 DEF LoadingNow
  <2>4. ~EditWhileLoading => LoadRight'
    <3>1. dev' = dev
      BY <1>1
    <3> QED BY <1>4, <2>1, <2>2, <3>1 DEF LoadRight, EntryRight, DecodedSize
  <2>5. Pauses
    BY <1>1, <1>6, <2>3, <2>4 DEF Pauses
  <2> QED BY <1>4, <2>1, <2>5
<1>7. CASE /\ ContinueEnds
           /\ StartRenderDIBBase(StreamInfo[CurEntry.curBitmap.stream].good)
  <2>1. CacheSound' /\ UNCHANGED imageStream
    BY <1>2, <1>5, <1>7, ContinueEndsSound
  <2>2. PICK e \in Entry :
          /\ imageCache'[cur'.key] = Loaded(e)
          /\ e.curBitmap \in Bitmap /\ e.curBitmap # Nothing
          /\ e.curBitmap.stream = CurEntry.curBitmap.stream
          /\ e.curBitmap.size = CurEntry.curBitmap.size
          /\ (/\ CacheRight /\ EntryRight(CurEntry, CurEntry.curBitmap.stream)
              /\ CurEntry.curBitmap.stream = IF cur.kind = "kept" THEN cur.key
                   ELSE imageStream[CurEntry.image])
              => /\ CacheRight'
                 /\ EntryRight(Loaded(e), CurEntry.curBitmap.stream)
    BY <1>2, <1>5, <1>7, ContinueEndsSound
  <2>3. ~EditWhileLoading =>
          /\ CacheRight' /\ EntryRight(Loaded(e), s)
          /\ e.curBitmap.stream = s /\ e.curBitmap.size = DecodedSize(s, dev)
    BY <1>2, <1>4, <2>2
  <2> DEFINE good == StreamInfo[e.curBitmap.stream].good
             picture == IF good THEN Picture(Loaded(e)) ELSE Nothing
  <2>4. /\ picture \in {Nothing} \cup Shown
        /\ ~EditWhileLoading => Whole!Right(CurObj, picture)
    BY <1>2, <1>3, <2>2, <2>3, LoadedPicture
  <2>5. StartRenderDIBBase(good)
    BY <1>7, <2>2
  <2>6. Paints
    BY <2>2, <2>4, <2>5, PaintsWhenDrawn
  <2> QED BY <2>1, <2>3, <2>6
<1> QED BY <1>6, <1>7 DEF ContinueLoad

LEMMA ImageStepsRInv ==
    ASSUME RInv, IInv', StartImage \/ ContinueLoad
    PROVE  RInv'
<1>1. /\ CacheSound'
      /\ ~EditWhileLoading => CacheRight'
      /\ Pauses \/ Paints
  BY StartImageFacts, ContinueLoadFacts
<1>2. /\ inLayer /\ lastObj < Len(Layer)
      /\ UNCHANGED <<status, dev, limited, positionVars, objsToGo>>
  BY DEF StartImage, InList, ContinueLoad, RInv, IInv, Located
<1>3. Going'
  BY <1>2 DEF RInv, Going, positionVars
<1>4. CASE Pauses
  <2>1. RendererTyped'
    BY <1>2, <1>4 DEF Pauses, RInv, RendererTyped
  <2> QED BY <1>1, <1>3, <1>4, <2>1 DEF Pauses, RInv, PicturesRight
<1>5. CASE Paints
  <2>1. painted' \in Seq(Place)
    BY <1>2, <1>5, PaintTyped DEF Paints
  <2>2. RendererTyped'
    BY <1>2, <1>5, <2>1 DEF Paints, RInv, RendererTyped
  <2>3. LoadingNow' /\ LoadRight'
    BY <1>5 DEF Paints, LoadingNow, LoadRight
  <2> QED BY <1>1, <1>3, <2>2, <2>3 DEF RInv, PicturesRight
<1> QED BY <1>1, <1>4, <1>5

LEMMA ImageDoneRInv ==
    ASSUME RInv, IInv', ImageDone \/ HideObject
    PROVE  RInv'
<1>1. /\ inLayer /\ ObjectDone(ToGo) /\ stage' = "next"
      /\ UNCHANGED <<status, dev, limited, inLayer, blend, painted>>
  BY DEF ImageDone, HideObject, InList, RInv, IInv, Located
<1>2. CacheSound' /\ (CacheRight => CacheRight')
  BY OptimizationSound, CacheKept DEF ImageDone, HideObject, Optimize, RInv
<1>3. RendererTyped' /\ Going'
  BY <1>1, ToGoTyped DEF RInv, RendererTyped, Going
<1> QED BY <1>1, <1>2, <1>3 DEF RInv, LoadingNow, PicturesRight, LoadRight

LEMMA SetImageRInv ==
    ASSUME RInv, IInv', NEW i \in Images, SetImage(i)
    PROVE  RInv'
<1>1. NewStream(i) \/ UNCHANGED imageStream
  BY DEF SetImage
<1>2. /\ UNCHANGED <<page, status, dev, limited, positionVars, objsToGo, stage,
                     blend, painted>>
      /\ (stage = "loading" /\ ~EditWhileLoading) => CurObj.image # i
      /\ ResetBitmapForImage(i) \/ UNCHANGED cacheVars
  BY DEF SetImage, renderVars
<1>3. /\ CacheSound' /\ UNCHANGED cur
      /\ CacheRight => CacheRight'
      /\ cur # NoCur => /\ CurEntry'.image = CurEntry.image
                        /\ CurEntry'.curBitmap = CurEntry.curBitmap
      /\ cur # NoCur /\ cur.kind # "kept" => CurEntry' = CurEntry
      /\ \A j \in Images \ {i} : imageStream'[j] = imageStream[j]
  BY <1>1, <1>2, NewStreamSound DEF RInv
<1>4. RendererTyped' /\ Going'
  BY <1>2 DEF RInv, RendererTyped, Going, positionVars
<1>5. CurObj' = CurObj
  BY <1>2 DEF CurObj, Layer, positionVars
<1>6. LoadingNow'
  BY <1>2, <1>3, <1>5 DEF RInv, LoadingNow
<1>7. PicturesRight'
  <2> SUFFICES ASSUME ~EditWhileLoading
               PROVE  CacheRight' /\ LoadRight'
    BY DEF PicturesRight
  <2>1. CacheRight /\ LoadRight /\ CacheRight'
    BY <1>3 DEF RInv, PicturesRight
  <2>2. CASE stage # "loading"
    BY <1>2, <2>1, <2>2 DEF LoadRight
  <2>3. CASE stage = "loading"
    <3> DEFINE k == imageStream[CurObj.image]
    <3>1. /\ CurObj.image \in Images /\ cur # NoCur /\ CurObj.image # i
          /\ EntryRight(CurEntry, k)
          /\ cur.kind = "kept" => cur.key = k
          /\ CurEntry.curBitmap.stream = k
          /\ CurEntry.curBitmap.size = DecodedSize(k, dev)
      BY <1>2, <2>1, <2>3 DEF RInv, LoadingNow, LoadRight
    <3>2. imageStream'[CurObj.image] = k
      BY <1>3, <3>1
    <3>3. EntryRight(CurEntry', k)
      <4>1. CASE cur.kind # "kept"
        BY <1>3, <3>1, <4>1 DEF EntryRight
      <4>2. CASE cur.kind = "kept"
        <5>1. /\ cur' = cur /\ cur.key = k /\ k \in DOMAIN imageCache'
              /\ CurEntry' = imageCache'[k]
          BY <1>3, <3>1, <4>2 DEF CurEntry, CacheSound, CurSound
        <5> QED BY <2>1, <5>1 DEF CacheRight, EntryRight
      <4> QED BY <4>1, <4>2
    <3>4. LoadRight'
      BY <1>2, <1>3, <1>5, <3>1, <3>2, <3>3 DEF LoadRight, EntryRight, DecodedSize
    <3> QED BY <2>1, <3>4
  <2> QED BY <2>1, <2>2, <2>3
<1> QED BY <1>3, <1>4, <1>6, <1>7 DEF RInv

LEMMA StepRInv ==
    ASSUME RInv, [Next]_vars
    PROVE  RInv'
<1>1. IInv'
  BY StepIInv DEF RInv
<1>2. CASE UNCHANGED vars
  <2>1. UNCHANGED <<imageStream, cacheVars, page, status, dev, limited, positionVars,
                    objsToGo, stage, blend, painted>>
    BY <1>2 DEF vars, renderVars
  <2>2. RendererTyped' /\ Going'
    BY <2>1 DEF RInv, RendererTyped, Going, positionVars
  <2>3. CacheSound' /\ CurEntry' = CurEntry /\ (CacheRight => CacheRight')
    BY <2>1, CacheKept DEF RInv
  <2>4. UNCHANGED <<CurObj, cur>>
    BY <2>1 DEF CurObj, Layer, positionVars, cacheVars
  <2>5. LoadingNow' /\ PicturesRight'
    BY <2>1, <2>3, <2>4 DEF RInv, LoadingNow, PicturesRight, LoadRight
  <2> QED BY <1>1, <2>2, <2>3, <2>5 DEF RInv
<1> QED BY <1>1, <1>2, CallStepsRInv, LayerStepsRInv, ObjectStepsRInv, ImageStepsRInv,
           ImageDoneRInv, SetImageRInv DEF Next, Step

(* The invariant holds in every behaviour.                                 *)
THEOREM RInvAlways == Spec => []RInv
<1>1. Init => RInv
  BY InitRInv
<1>2. RInv /\ [Next]_vars => RInv'
  BY StepRInv
<1> QED BY <1>1, <1>2, PTL DEF Spec

-----------------------------------------------------------------------------
(* The invariants of the specification.                                    *)

(* The variables of the renderer and of the cache have their types.        *)
THEOREM TypeOKAlways == Spec => []TypeOK
<1>1. RInv => TypeOK
  BY DEF RInv, IInv, Typed, RendererTyped, CacheSound, CacheTyped, SizesSound, TypeOK
<1> QED BY <1>1, RInvAlways, PTL

(* ContinueToLoad goes on with an entry that is there, of the image that   *)
(* is being rendered, and that has something left to load.                 *)
THEOREM LoadGoesOnAlways == Spec => []LoadGoesOn
<1>1. RInv => LoadGoesOn
  BY DEF RInv, CacheSound, CurSound, LoadingNow, LoadGoesOn
<1> QED BY <1>1, RInvAlways, PTL

(* cache_size_ is never less than what the entries take, so that taking    *)
(* one out of the cache never takes it below 0.                            *)
THEOREM SizeIsEnoughAlways == Spec => []SizeIsEnough
<1>1. RInv => SizeIsEnough
  BY DEF RInv, CacheSound, SizesSound, SizeIsEnough
<1> QED BY <1>1, RInvAlways, PTL

-----------------------------------------------------------------------------
(* Behind an image.                                                        *)

(* Behind an image the cache is optimized.                                 *)
LEMMA OptimizesOnce ==
    ASSUME RInv, Next, Optimizes
    PROVE  CacheOptimization(Limit)
<1>1. limited /\ CurObj.kind = "image"
  BY DEF Optimizes
<1>2. CASE running /\ stage = "drawing" /\ stage' = "next"
  <2>1. ~Start /\ ~Continue /\ ~Close /\ \A i \in Images : ~SetImage(i)
    BY <1>2 DEF Start, Continue, Close, SetImage, RInv, IInv, Located
  <2>2. ~EnterLayer /\ ~LeaveLayer /\ ~Done
    BY <1>2 DEF EnterLayer, LeaveLayer, Done
  <2>3. ~SkipObject /\ ~HideObject /\ ~DrawObject /\ ~StartImage
    BY <1>2 DEF SkipObject, HideObject, DrawObject, StartImage, InList
  <2>4. ~ContinueLoad /\ ~ContinueDrawing
    BY <1>2 DEF ContinueLoad, ContinueDrawing
  <2> QED BY <1>1, <2>1, <2>2, <2>3, <2>4 DEF Next, Step, ImageDone, Optimize
<1>3. CASE InList /\ CurObj.hidden
  <2>1. ~CurObj.visible
    BY <1>3, HiddenFacts DEF InList, RInv, IInv
  <2>2. ~Start /\ ~Continue /\ ~Close /\ \A i \in Images : ~SetImage(i)
    BY <1>3 DEF Start, Continue, Close, SetImage, InList, RInv, IInv, Located
  <2>3. ~EnterLayer /\ ~LeaveLayer /\ ~Done
    <3>1. lastObj # Len(Layer)
      BY <1>3, PlaceFacts DEF InList, RInv, IInv, Typed
    <3> QED BY <1>3, <3>1 DEF EnterLayer, LeaveLayer, Done, InList
  <2>4. ~SkipObject /\ ~DrawObject /\ ~StartImage
    BY <1>3, <2>1 DEF SkipObject, DrawObject, StartImage
  <2>5. ~ContinueLoad /\ ~ContinueDrawing /\ ~ImageDone
    BY <1>3 DEF ContinueLoad, ContinueDrawing, ImageDone, InList
  <2> QED BY <1>1, <2>2, <2>3, <2>4, <2>5 DEF Next, Step, HideObject, Optimize
<1> QED BY <1>2, <1>3 DEF Optimizes

(* An entry of an image that has its stream goes when it is its turn.      *)
LEMMA LiveIsLeft ==
    ASSUME RInv, NEW S, imageCache' = Without(imageCache, Cleared(S)),
           imageStream' = imageStream
    PROVE  /\ DOMAIN imageCache' = DOMAIN imageCache \ Cleared(S)
           /\ \A k \in DOMAIN imageCache' : imageCache'[k] = imageCache[k]
           /\ Live(imageCache') \in SUBSET (DOMAIN imageCache \ S)
           /\ Live(imageCache') \in SUBSET DOMAIN imageCache'
<1>1. /\ DOMAIN imageCache' = DOMAIN imageCache \ Cleared(S)
      /\ \A k \in DOMAIN imageCache' : imageCache'[k] = imageCache[k]
  BY DEF Without
<1>2. Live(imageCache') \in SUBSET DOMAIN imageCache'
  BY DEF Live
<1>3. ASSUME NEW k \in Live(imageCache'), k \in S
      PROVE  FALSE
  <2>1. k \in DOMAIN imageCache' /\ imageStream[imageCache[k].image] = k
    BY <1>1 DEF Live
  <2> QED BY <1>1, <1>3, <2>1 DEF Cleared
<1> QED BY <1>1, <1>2, <1>3

(* What an optimization leaves of the images that have their streams.      *)
LEMMA OptimizationLimits ==
    ASSUME RInv, CacheOptimization(Limit)
    PROVE  /\ TotalSize(imageCache', Live(imageCache')) <= Limit
           /\ cacheSize > Limit => Cardinality(Live(imageCache')) <= MaxEntries
<1> DEFINE D == DOMAIN imageCache
           L == Live(imageCache')
<1>1. /\ IsFiniteSet(D) /\ \A k \in D : imageCache[k].size \in Nat
      /\ cacheSize \in Nat /\ TotalSize(imageCache, D) <= cacheSize
      /\ TotalSize(imageCache, D) \in Nat
  BY EntrySizes, BytesFinite DEF RInv, CacheSound, SizesSound
<1>2. Limit \in Nat /\ MaxEntries \in Nat
  BY RendererAssumption, CacheAssumption
<1>3. CASE cacheSize <= Limit
  <2>1. imageCache' = imageCache
    BY <1>3 DEF CacheOptimization, cacheVars
  <2>2. L \in SUBSET D
    BY <2>1 DEF Live
  <2> HIDE DEF L
  <2>3. /\ TotalSize(imageCache, L) \in Nat
        /\ TotalSize(imageCache, L) <= TotalSize(imageCache, D)
    BY <1>1, <2>2, BytesLeft
  <2> QED BY <1>1, <1>2, <1>3, <2>1, <2>3 DEF L
<1>4. CASE ~(cacheSize <= Limit)
  <2>1. PICK S \in SUBSET D :
          /\ Enough(S, Limit)
          /\ imageCache' = Without(imageCache, Cleared(S))
          /\ cacheSize' = SizeWithout(S)
          /\ imageStream' = imageStream
    BY <1>4 DEF CacheOptimization, GoneThrough
  <2>2. /\ Cardinality(S) + MaxEntries >= Cardinality(D)
        /\ SizeWithout(S) <= Limit \/ S = D
    BY <2>1 DEF Enough
  <2>3. /\ DOMAIN imageCache' = D \ Cleared(S)
        /\ \A k \in DOMAIN imageCache' : imageCache'[k] = imageCache[k]
        /\ L \in SUBSET (D \ S) /\ L \in SUBSET DOMAIN imageCache'
    BY <2>1, LiveIsLeft
  <2>4. IsFiniteSet(S) /\ Cardinality(S) \in Nat /\ Cardinality(D) \in Nat
    BY <1>1, <2>1, FS_Subset, FS_CardinalityType
  <2> HIDE DEF L
  <2>5. Cardinality(L) <= MaxEntries
    <3>1. /\ IsFiniteSet(D \ S)
          /\ Cardinality(D \ S) = Cardinality(D) - Cardinality(D \cap S)
      BY <1>1, FS_Difference
    <3>2. D \cap S = S
      OBVIOUS
    <3>3. IsFiniteSet(L) /\ Cardinality(L) <= Cardinality(D \ S)
      BY <2>3, <3>1, FS_Subset
    <3>4. Cardinality(L) \in Nat
      BY <3>3, FS_CardinalityType
    <3>5. Cardinality(D \ S) = Cardinality(D) - Cardinality(S)
      BY <3>1, <3>2
    <3> QED BY <1>2, <2>2, <2>4, <3>3, <3>4, <3>5
  <2>6. TotalSize(imageCache', L) <= Limit
    <3>1. CASE S = D
      <4>1. Bytes(imageCache', L) = {}
        BY <2>3, <3>1 DEF Bytes
      <4> QED BY <1>2, <4>1, FS_EmptySet DEF TotalSize
    <3>2. CASE SizeWithout(S) <= Limit
      <4>1. cacheSize' <= Limit
        BY <2>1, <3>2
      <4>2. /\ IsFiniteSet(DOMAIN imageCache')
            /\ \A k \in DOMAIN imageCache' : imageCache'[k].size \in Nat
            /\ cacheSize' \in Nat
            /\ TotalSize(imageCache', DOMAIN imageCache') <= cacheSize'
        <5>1. CacheSound'
          BY OptimizationSound DEF RInv
        <5>2. \A k \in DOMAIN imageCache' : imageCache'[k].size \in Nat
          BY <1>1, <2>3
        <5> QED BY <5>1, <5>2 DEF CacheSound, SizesSound
      <4>3. /\ TotalSize(imageCache', L) \in Nat
            /\ TotalSize(imageCache', L) <= TotalSize(imageCache', DOMAIN imageCache')
        BY <2>3, <4>2, BytesLeft
      <4>4. TotalSize(imageCache', DOMAIN imageCache') \in Nat
        BY <4>2, BytesFinite
      <4> QED BY <1>2, <4>1, <4>2, <4>3, <4>4
    <3> QED BY <2>2, <3>1, <3>2
  <2> QED BY <2>5, <2>6 DEF L
<1> QED BY <1>1, <1>2, <1>3, <1>4

(* With FPDF_RENDER_LIMITEDIMAGECACHE the bitmaps that are kept behind an  *)
(* image are within the limit, and no more than MaxEntries of them when    *)
(* it was exceeded; those of images that were changed are not counted.     *)
THEOREM LimitKeptAlways == Spec => LimitKept
<1>1. ASSUME RInv, [Next]_vars
      PROVE  [ Optimizes =>
                 /\ TotalSize(imageCache', Live(imageCache')) <= Limit
                 /\ cacheSize > Limit =>
                      Cardinality(Live(imageCache')) <= MaxEntries ]_vars
  BY <1>1, OptimizesOnce, OptimizationLimits
<1> QED BY <1>1, RInvAlways, PTL DEF Spec, LimitKept

(* CacheOptimization takes nothing out that was loaded after something it  *)
(* leaves, as long as no image was changed.                                *)
THEOREM OldestGoFirstAlways == Spec => OldestGoFirst
<1>1. ASSUME RInv, Next, Optimizes, Live(imageCache) = DOMAIN imageCache,
             NEW s \in DOMAIN imageCache \ DOMAIN imageCache',
             NEW k \in DOMAIN imageCache'
      PROVE  imageCache[s].time <= imageCache[k].time
  <2>1. CacheOptimization(Limit)
    BY <1>1, OptimizesOnce
  <2>2. PICK S \in SUBSET DOMAIN imageCache :
          Oldest(S) /\ imageCache' = Without(imageCache, Cleared(S))
    BY <1>1, <2>1 DEF CacheOptimization, GoneThrough, cacheVars
  <2>3. s \in Cleared(S) /\ k \in DOMAIN imageCache /\ k \notin Cleared(S)
    BY <1>1, <2>2 DEF Without
  <2>4. \A j \in DOMAIN imageCache : imageStream[imageCache[j].image] = j
    BY <1>1 DEF Live
  <2>5. Cleared(S) = S
    BY <2>4 DEF Cleared
  <2> QED BY <2>2, <2>3, <2>5 DEF Oldest, NotYounger
<1>2. ASSUME RInv, [Next]_vars
      PROVE  [ (Optimizes /\ Live(imageCache) = DOMAIN imageCache) =>
                 \A s \in DOMAIN imageCache \ DOMAIN imageCache' :
                   \A k \in DOMAIN imageCache' :
                     imageCache[s].time <= imageCache[k].time ]_vars
  BY <1>1, <1>2
<1> QED BY <1>2, RInvAlways, PTL DEF Spec, OldestGoFirst
-----------------------------------------------------------------------------
(* The rendering does what Painting says.                                  *)

(* The object that the rendering has come to is the next one to paint.     *)
LEMMA PlaceIsNext ==
    ASSUME RInv, inLayer, lastObj < Len(Layer), stage # "drawing", CurObj.visible
    PROVE  Whole!IsNext(layerIndex, lastObj + 1)
<1>1. status = "continue" /\ PaintedInOrder /\ lastObj \in Nat
  BY DEF RInv, IInv, Typed, Located
<1>2. /\ layerIndex \in DOMAIN page /\ lastObj + 1 \in DOMAIN page[layerIndex]
      /\ layerIndex \in Nat /\ page[layerIndex][lastObj + 1].visible
  BY CurObjFacts DEF RInv
<1>3. \A l \in DOMAIN page : \A n \in DOMAIN page[l] : l \in Nat /\ n \in Nat
  BY PageFacts DEF RInv, IInv
<1>4. ~Reached(layerIndex, lastObj + 1)
  BY <1>1, <1>2 DEF Reached
<1>5. ~Whole!Painted(layerIndex, lastObj + 1)
  BY <1>1, <1>4 DEF PaintedInOrder, Whole!Painted
<1>6. ASSUME NEW l \in DOMAIN page, NEW n \in DOMAIN page[l], page[l][n].visible,
             Whole!Before(l, n, layerIndex, lastObj + 1)
      PROVE  Whole!Painted(l, n)
  <2>1. Reached(l, n)
    BY <1>1, <1>2, <1>3, <1>6 DEF Whole!Before, Reached
  <2> QED BY <1>1, <1>6, <2>1 DEF PaintedInOrder, Whole!Painted
<1> QED BY <1>2, <1>5, <1>6 DEF Whole!IsNext

(* Painting it with the right picture is a step of Painting.               *)
LEMMA PaintingOne ==
    ASSUME RInv, inLayer, lastObj < Len(Layer), stage # "drawing", CurObj.visible,
           UNCHANGED <<page, imageStream, status, dev>>,
           NEW picture, Paint(picture), Whole!Right(CurObj, picture)
    PROVE  Whole!Paint
<1> DEFINE e == [layer |-> layerIndex, object |-> lastObj + 1, picture |-> picture]
           k == Len(painted) + 1
<1>1. painted' = Append(painted, e) /\ painted \in Seq(Place)
  BY DEF Paint, RInv, RendererTyped
<1>2. k \in DOMAIN painted' /\ painted'[k] = e
  BY <1>1, AppendFacts
<1>3. Whole!IsNext(e.layer, e.object)
  BY PlaceIsNext
<1>4. page[e.layer][e.object] = CurObj /\ e.picture = picture
  BY DEF CurObj, Layer
<1>5. status = "continue"
  BY DEF RInv, IInv, Located
<1> HIDE DEF e, k
<1> QED BY <1>1, <1>2, <1>3, <1>4, <1>5 DEF Whole!Paint

(* Every step of the renderer is a step of Painting or shows nothing.      *)
LEMMA StepPaints ==
    ASSUME ~EditWhileLoading, RInv, [Next]_vars
    PROVE  [Whole!Next]_Whole!vars
<1>1. CASE UNCHANGED vars
  BY <1>1 DEF vars, renderVars, Whole!vars
<1>2. CASE Start
  <2>1. dev' \in Nat
    BY <1>2, RendererAssumption DEF Start
  <2> QED BY <1>2, <2>1 DEF Start, Whole!Next, Whole!Begin
<1>3. CASE Continue \/ EnterLayer \/ LeaveLayer \/ SkipObject \/ ContinueDrawing
  BY <1>3 DEF Continue, EnterLayer, LeaveLayer, SkipObject, ContinueDrawing, Whole!vars
<1>4. CASE Close
  BY <1>4 DEF Close, Whole!Next, Whole!Close
<1>5. CASE Done
  <2>1. /\ status = "continue" /\ PaintedInOrder
        /\ \A l \in DOMAIN page : l < layerIndex
    BY <1>5, PageFacts DEF Done, RInv, IInv, Located
  <2>2. \A l \in DOMAIN page : \A n \in DOMAIN page[l] :
          page[l][n].visible => Whole!Painted(l, n)
    BY <2>1 DEF PaintedInOrder, Reached, Whole!Painted
  <2> QED BY <1>5, <2>1, <2>2 DEF Done, Whole!Next, Whole!Finish
<1>6. CASE DrawObject
  <2>1. /\ inLayer /\ lastObj < Len(Layer) /\ stage = "next" /\ CurObj.visible
        /\ UNCHANGED <<page, imageStream, status, dev>> /\ Paint(Nothing)
        /\ CurObj.image = Nothing
    BY <1>6 DEF DrawObject, InList
  <2>2. Whole!Right(CurObj, Nothing)
    BY <2>1 DEF Whole!Right
  <2>3. Whole!Paint
    BY <2>1, <2>2, PaintingOne
  <2> QED BY <2>3 DEF Whole!Next
<1>7. CASE StartImage \/ ContinueLoad
  <2>1. /\ inLayer /\ lastObj < Len(Layer) /\ stage # "drawing" /\ CurObj.visible
        /\ UNCHANGED <<page, status, dev>>
    BY <1>7 DEF StartImage, InList, ContinueLoad, RInv, IInv, Located
  <2>2. UNCHANGED imageStream /\ (Pauses \/ Paints)
    BY <1>7, StartImageFacts, ContinueLoadFacts
  <2>3. CASE Pauses
    BY <2>1, <2>2, <2>3 DEF Pauses, Whole!vars
  <2>4. CASE Paints
    <3>1. PICK picture : Paint(picture) /\ Whole!Right(CurObj, picture)
      BY <2>4 DEF Paints
    <3>2. Whole!Paint
      BY <2>1, <2>2, <3>1, PaintingOne
    <3> QED BY <3>2 DEF Whole!Next
  <2> QED BY <2>2, <2>3, <2>4
<1>8. CASE ImageDone \/ HideObject
  <2>1. UNCHANGED imageStream
    BY <1>8, OptimizationSound DEF ImageDone, HideObject, Optimize, RInv
  <2> QED BY <1>8, <2>1 DEF ImageDone, HideObject, Whole!vars
<1>9. CASE \E i \in Images : SetImage(i)
  BY <1>9 DEF SetImage, renderVars, Whole!Next, Whole!Edit
<1> QED BY <1>1, <1>2, <1>3, <1>4, <1>5, <1>6, <1>7, <1>8, <1>9 DEF Next, Step

(* As long as no image is changed while its own load is paused, pausing,   *)
(* closing, loading, finding and evicting do not show: what the progressive *)
(* renderer paints is what Painting promises of a page.                    *)
THEOREM RefinesPainting ==
    ASSUME ~EditWhileLoading
    PROVE  Spec => Implements
<1>1. Init => Whole!Init
  BY DEF Init, Whole!Init
<1>2. RInv /\ [Next]_vars => [Whole!Next]_Whole!vars
  BY StepPaints
<1> QED BY <1>1, <1>2, RInvAlways, PTL DEF Spec, Implements, Whole!Spec
=============================================================================
