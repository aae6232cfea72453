--------------------------- MODULE PageTreeProofs ---------------------------
(***************************************************************************)
(* The page tree under every operation: the caches stay right and the tree *)
(* implements the sequence of pages, whatever the files.                   *)
(***************************************************************************)
EXTENDS PageTree, PageTraversalProofs

-----------------------------------------------------------------------------
(* A page more.                                                            *)

(* t is s with p put in behind the first j.                                *)
Spliced(s, t, j, p) ==
    /\ s \in Seq(Page) /\ t \in Seq(Page) /\ p \in Page
    /\ j \in 0 .. Len(s) /\ Len(t) = Len(s) + 1
    /\ \A x \in 1 .. j : t[x] = s[x]
    /\ t[j + 1] = p
    /\ \A x \in (j + 1) .. Len(s) : t[x + 1] = s[x]

LEMMA SplicedEnd ==
    ASSUME NEW s \in Seq(Page), NEW p \in Page
    PROVE  Spliced(s, s \o <<p>>, Len(s), p)
<1>1. s \o <<p>> \in Seq(Page) /\ Len(s \o <<p>>) = Len(s) + 1 /\ Len(s) \in Nat
  OBVIOUS
<1>2. \A x \in 1 .. Len(s) : (s \o <<p>>)[x] = s[x]
  OBVIOUS
<1>3. (s \o <<p>>)[Len(s) + 1] = p
  OBVIOUS
<1> QED BY <1>1, <1>2, <1>3 DEF Spliced

LEMMA SplicedBefore ==
    ASSUME NEW s, NEW t, NEW j, NEW p, Spliced(s, t, j, p), NEW r \in Seq(Page)
    PROVE  Spliced(s \o r, t \o r, j, p)
<1> DEFINE n == Len(s)
           m == Len(r)
           a == s \o r
           b == t \o r
<1>1. /\ s \in Seq(Page) /\ t \in Seq(Page) /\ p \in Page /\ j \in 0 .. n /\ Len(t) = n + 1
      /\ n \in Nat /\ m \in Nat
      /\ \A x \in 1 .. j : t[x] = s[x]
      /\ t[j + 1] = p
      /\ \A x \in (j + 1) .. n : t[x + 1] = s[x]
  BY DEF Spliced
<1>2. /\ a \in Seq(Page) /\ Len(a) = n + m
      /\ \A x \in 1 .. n + m : a[x] = IF x <= n THEN s[x] ELSE r[x - n]
  BY <1>1
<1>3. /\ b \in Seq(Page) /\ Len(b) = (n + 1) + m
      /\ \A x \in 1 .. (n + 1) + m : b[x] = IF x <= n + 1 THEN t[x] ELSE r[x - (n + 1)]
  <2> DEFINE l == Len(t)
  <2>1. /\ b \in Seq(Page) /\ Len(b) = l + m
        /\ \A x \in 1 .. l + m : b[x] = IF x <= l THEN t[x] ELSE r[x - l]
    <3>1. t \in Seq(Page) /\ r \in Seq(Page) /\ m = Len(r)
      BY <1>1
    <3> HIDE DEF m
    <3> QED BY <3>1
  <2>2. l = n + 1
    BY <1>1
  <2> HIDE DEF l, n, m, b
  <2> QED BY <2>1, <2>2
<1> HIDE DEF n, m, a, b
<1>4. j \in 0 .. n + m /\ Len(b) = Len(a) + 1
  BY <1>1, <1>2, <1>3
<1>5. \A x \in 1 .. j : b[x] = a[x]
  BY <1>1, <1>2, <1>3
<1>6. b[j + 1] = p
  BY <1>1, <1>3
<1>7. ASSUME NEW x \in (j + 1) .. n + m
      PROVE  b[x + 1] = a[x]
  <2>1. CASE x <= n
    BY <1>1, <1>2, <1>3, <2>1
  <2>2. CASE ~(x <= n)
    <3>1. x + 1 \in 1 .. (n + 1) + m /\ ~(x + 1 <= n + 1) /\ (x + 1) - (n + 1) = x - n /\ x \in 1 .. n + m
      BY <1>1, <2>2
    <3> QED BY <1>2, <1>3, <2>2, <3>1
  <2> QED BY <2>1, <2>2
<1> QED BY <1>1, <1>2, <1>3, <1>4, <1>5, <1>6, <1>7 DEF Spliced, a, b

LEMMA SplicedBehind ==
    ASSUME NEW s, NEW t, NEW j, NEW p, Spliced(s, t, j, p), NEW r \in Seq(Page)
    PROVE  Spliced(r \o s, r \o t, Len(r) + j, p)
<1> DEFINE n == Len(s)
           m == Len(r)
           a == r \o s
           b == r \o t
           k == m + j
<1>1. /\ s \in Seq(Page) /\ t \in Seq(Page) /\ p \in Page /\ j \in 0 .. n /\ Len(t) = n + 1
      /\ n \in Nat /\ m \in Nat
      /\ \A x \in 1 .. j : t[x] = s[x]
      /\ t[j + 1] = p
      /\ \A x \in (j + 1) .. n : t[x + 1] = s[x]
  BY DEF Spliced
<1>2. /\ a \in Seq(Page) /\ Len(a) = m + n
      /\ \A x \in 1 .. m + n : a[x] = IF x <= m THEN r[x] ELSE s[x - m]
  BY <1>1
<1>3. /\ b \in Seq(Page) /\ Len(b) = m + (n + 1)
      /\ \A x \in 1 .. m + (n + 1) : b[x] = IF x <= m THEN r[x] ELSE t[x - m]
  <2> DEFINE l == Len(t)
  <2>1. /\ b \in Seq(Page) /\ Len(b) = m + l
        /\ \A x \in 1 .. m + l : b[x] = IF x <= m THEN r[x] ELSE t[x - m]
    <3>1. t \in Seq(Page) /\ r \in Seq(Page) /\ m = Len(r)
      BY <1>1
    <3> QED BY <3>1
  <2>2. l = n + 1
    BY <1>1
  <2> HIDE DEF l, n, m, b
  <2> QED BY <2>1, <2>2
<1> HIDE DEF n, m, a, b
<1>4. k \in 0 .. m + n /\ Len(b) = Len(a) + 1
  BY <1>1, <1>2, <1>3
<1>5. ASSUME NEW x \in 1 .. k
      PROVE  b[x] = a[x]
  <2>1. CASE x <= m
    <3>1. x \in 1 .. m + n /\ x \in 1 .. m + (n + 1)
      BY <1>1, <2>1
    <3> QED BY <1>2, <1>3, <2>1, <3>1
  <2>2. CASE ~(x <= m)
    <3>1. x - m \in 1 .. j /\ x \in 1 .. m + n /\ x \in 1 .. m + (n + 1)
      BY <1>1, <2>2
    <3> QED BY <1>1, <1>2, <1>3, <2>2, <3>1
  <2> QED BY <2>1, <2>2
<1>6. b[k + 1] = p
  <2>1. k + 1 \in 1 .. m + (n + 1) /\ ~(k + 1 <= m) /\ (k + 1) - m = j + 1
    BY <1>1
  <2> QED BY <1>1, <1>3, <2>1
<1>7. ASSUME NEW x \in (k + 1) .. m + n
      PROVE  b[x + 1] = a[x]
  <2>1. /\ x \in 1 .. m + n /\ ~(x <= m) /\ x - m \in (j + 1) .. n
        /\ x + 1 \in 1 .. m + (n + 1) /\ ~(x + 1 <= m) /\ (x + 1) - m = (x - m) + 1
    BY <1>1
  <2> QED BY <1>1, <1>2, <1>3, <2>1
<1> HIDE DEF k
<1>8. Spliced(a, b, k, p)
  BY <1>1, <1>2, <1>3, <1>4, <1>5, <1>6, <1>7 DEF Spliced
<1> QED BY <1>8 DEF a, b, k, m

(* One of the sequences put one after the other has a page more.           *)
LEMMA FlatSplice ==
    ASSUME NEW G, NEW H, NEW n \in Nat, NEW c \in 1 .. n, NEW j, NEW p,
           \A k \in 1 .. n : G[k] \in Seq(Page) /\ H[k] \in Seq(Page),
           \A k \in 1 .. n : k # c => H[k] = G[k],
           Spliced(G[c], H[c], j, p)
    PROVE  Spliced(Flat(G, n), Flat(H, n), Len(Flat(G, c - 1)) + j, p)
<1> DEFINE at == Len(Flat(G, c - 1)) + j
           T == {m \in 0 .. n : c <= m => Spliced(Flat(G, m), Flat(H, m), at, p)}
<1>1. \A m \in 0 .. n : Flat(G, m) \in Seq(Page) /\ Flat(H, m) \in Seq(Page)
  BY FlatTyped
<1>2. ASSUME NEW m \in 0 .. n, m < n
      PROVE  /\ Flat(G, m + 1) = Flat(G, m) \o G[m + 1]
             /\ Flat(H, m + 1) = Flat(H, m) \o H[m + 1]
             /\ m + 1 \in 1 .. n
  <2>1. m + 1 \in 1 .. n /\ \A k \in 1 .. m + 1 : k \in 1 .. n
    BY <1>2
  <2>2. /\ \A k \in 1 .. m + 1 : G[k] \in Seq(Page)
        /\ \A k \in 1 .. m + 1 : H[k] \in Seq(Page)
    BY <2>1
  <2>3. m \in Nat
    OBVIOUS
  <2>4. Flat(G, m + 1) = Flat(G, m) \o G[m + 1]
    BY <2>2, <2>3, FlatNext
  <2>5. Flat(H, m + 1) = Flat(H, m) \o H[m + 1]
    BY <2>2, <2>3, FlatNext
  <2> QED BY <2>1, <2>4, <2>5
<1>3. Flat(H, c - 1) = Flat(G, c - 1)
  <2>1. c - 1 \in Nat /\ \A k \in 1 .. c - 1 : k \in 1 .. n /\ k # c
    OBVIOUS
  <2> QED BY <2>1, FlatDepends
<1>4. 0 \in T
  OBVIOUS
<1>5. ASSUME NEW m \in 0 .. n, m \in T, m < n
      PROVE  m + 1 \in T
  <2>1. CASE c = m + 1
    <3>1. m = c - 1
      BY <2>1
    <3>2. /\ Flat(G, m + 1) = Flat(G, c - 1) \o G[c] /\ Flat(H, m + 1) = Flat(G, c - 1) \o H[c]
          /\ Flat(G, c - 1) \in Seq(Page)
      BY <1>1, <1>2, <1>3, <1>5, <2>1, <3>1
    <3>3. Spliced(Flat(G, c - 1) \o G[c], Flat(G, c - 1) \o H[c], at, p)
      BY <3>2, SplicedBehind
    <3>4. Spliced(Flat(G, m + 1), Flat(H, m + 1), at, p)
      BY <3>2, <3>3
    <3> QED BY <1>2, <1>5, <3>4
  <2>2. CASE c <= m
    <3>1. Spliced(Flat(G, m), Flat(H, m), at, p)
      BY <1>5, <2>2
    <3>2. H[m + 1] = G[m + 1] /\ G[m + 1] \in Seq(Page)
      BY <1>2, <1>5, <2>2
    <3> HIDE DEF at
    <3>3. Spliced(Flat(G, m) \o G[m + 1], Flat(H, m) \o G[m + 1], at, p)
      BY <3>1, <3>2, SplicedBefore
    <3>4. Spliced(Flat(G, m + 1), Flat(H, m + 1), at, p)
      BY <1>2, <1>5, <3>2, <3>3
    <3> QED BY <1>2, <1>5, <3>4
  <2>3. CASE m + 1 < c
    <3>1. ~(c <= m + 1)
      BY <2>3
    <3> QED BY <1>2, <1>5, <3>1
  <2> QED BY <2>1, <2>2, <2>3
<1>6. n \in T
  <2> HIDE DEF T
  <2>1. 0 .. n \subseteq T
    BY <1>4, <1>5, UpToBound
  <2> QED BY <2>1
<1> QED BY <1>6

(* There is a page more among the sequences.                               *)
LEMMA FlatGrow ==
    ASSUME NEW G, NEW H, NEW n \in Nat, NEW c \in 1 .. n + 1, NEW p \in Page,
           \A k \in 1 .. n : G[k] \in Seq(Page),
           \A k \in 1 .. n + 1 : H[k] \in Seq(Page),
           \A k \in 1 .. c - 1 : H[k] = G[k],
           H[c] = <<p>>,
           \A k \in c .. n : H[k + 1] = G[k]
    PROVE  Spliced(Flat(G, n), Flat(H, n + 1), Len(Flat(G, c - 1)), p)
<1> DEFINE at == Len(Flat(G, c - 1))
           T == {m \in 0 .. n : c - 1 <= m => Spliced(Flat(G, m), Flat(H, m + 1), at, p)}
<1>1. \A m \in 0 .. n : Flat(G, m) \in Seq(Page)
  BY FlatTyped
<1>2. ASSUME NEW m \in 0 .. n, m < n
      PROVE  /\ Flat(G, m + 1) = Flat(G, m) \o G[m + 1] /\ m + 1 \in 1 .. n
  <2>1. m + 1 \in 1 .. n /\ \A k \in 1 .. m + 1 : k \in 1 .. n
    BY <1>2
  <2>2. \A k \in 1 .. m + 1 : G[k] \in Seq(Page)
    BY <2>1
  <2> QED BY <2>1, <2>2, FlatNext
<1>3. ASSUME NEW m \in 0 .. n
      PROVE  Flat(H, m + 1) = Flat(H, m) \o H[m + 1]
  <2>1. \A k \in 1 .. m + 1 : k \in 1 .. n + 1
    OBVIOUS
  <2>2. m \in Nat /\ \A k \in 1 .. m + 1 : H[k] \in Seq(Page)
    BY <2>1
  <2> QED BY <2>2, FlatNext
<1>4. c - 1 \in 0 .. n /\ (c - 1) + 1 = c
  OBVIOUS
<1>5. Spliced(Flat(G, c - 1), Flat(H, c), at, p)
  <2>1. Flat(H, c - 1) = Flat(G, c - 1)
    BY <1>4, FlatDepends
  <2>2. Flat(H, c) = Flat(G, c - 1) \o <<p>>
    BY <1>3, <1>4, <2>1
  <2>3. Flat(G, c - 1) \in Seq(Page)
    BY <1>1, <1>4
  <2> QED BY <2>2, <2>3, SplicedEnd
<1>6. 0 \in T
  <2>1. CASE c = 1
    <3>1. c - 1 = 0 /\ 0 + 1 = c
      BY <2>1
    <3> QED BY <1>5, <3>1
  <2>2. CASE c # 1
    <3>1. ~(c - 1 <= 0)
      BY <2>2
    <3> QED BY <3>1
  <2> QED BY <2>1, <2>2
<1>7. ASSUME NEW m \in 0 .. n, m \in T, m < n
      PROVE  m + 1 \in T
  <2>1. CASE c - 1 = m + 1
    <3>1. c = (m + 1) + 1
      BY <2>1
    <3> QED BY <1>2, <1>5, <1>7, <2>1, <3>1
  <2>2. CASE c - 1 <= m
    <3>1. Spliced(Flat(G, m), Flat(H, m + 1), at, p)
      BY <1>7, <2>2
    <3>2. H[(m + 1) + 1] = G[m + 1] /\ G[m + 1] \in Seq(Page)
      <4>1. m + 1 \in c .. n /\ m + 1 \in 1 .. n
        BY <1>7, <2>2
      <4> QED BY <4>1
    <3> HIDE DEF at
    <3>3. Spliced(Flat(G, m) \o G[m + 1], Flat(H, m + 1) \o G[m + 1], at, p)
      BY <3>1, <3>2, SplicedBefore
    <3>4. m + 1 \in 0 .. n
      BY <1>7
    <3>5. Flat(H, (m + 1) + 1) = Flat(H, m + 1) \o G[m + 1]
      BY <1>3, <3>2, <3>4
    <3>6. Spliced(Flat(G, m + 1), Flat(H, (m + 1) + 1), at, p)
      BY <1>2, <1>7, <3>3, <3>5
    <3> QED BY <3>4, <3>6
  <2>3. CASE m + 1 < c - 1
    <3>1. ~(c - 1 <= m + 1)
      BY <2>3
    <3> QED BY <1>2, <1>7, <3>1
  <2> QED BY <2>1, <2>2, <2>3
<1>8. n \in T
  <2> HIDE DEF T
  <2>1. 0 .. n \subseteq T
    BY <1>6, <1>7, UpToBound
  <2> QED BY <2>1
<1> QED BY <1>4, <1>8

-----------------------------------------------------------------------------
(* A page tree with a page more.                                           *)

(* big is small with page p as another kid of node b, the k-th.            *)
Grown(small, big, b, k, p) ==
    /\ small \in Kids /\ big \in Kids /\ b \in Branch /\ p \in Page
    /\ \A x \in Branch \ {b} : big[x] = small[x]
    /\ k \in 1 .. Len(small[b]) + 1 /\ Len(big[b]) = Len(small[b]) + 1
    /\ \A j \in 1 .. k - 1 : big[b][j] = small[b][j]
    /\ big[b][k] = p
    /\ \A j \in k .. Len(small[b]) : big[b][j + 1] = small[b][j]

LEMMA KidsTyped ==
    ASSUME NEW kids \in Kids, NEW b \in Branch
    PROVE  /\ kids[b] \in Seq(Nodes) /\ Len(kids[b]) \in Nat
           /\ DOMAIN kids[b] = 1 .. Len(kids[b])
           /\ \A k \in DOMAIN kids[b] : kids[b][k] \in Nodes
<1>1. kids[b] \in Seq(Nodes)
  BY DEF Kids
<1> QED BY <1>1

LEMMA GrownFacts ==
    ASSUME NEW small, NEW big, NEW b, NEW k, NEW p, Grown(small, big, b, k, p)
    PROVE  LET n == Len(small[b])
           IN  /\ n \in Nat /\ DOMAIN small[b] = 1 .. n /\ DOMAIN big[b] = 1 .. n + 1
               /\ k \in 1 .. n + 1
               /\ \A j \in 1 .. n + 1 :
                    \/ j < k /\ j \in 1 .. n /\ big[b][j] = small[b][j]
                    \/ j = k /\ big[b][j] = p
                    \/ k < j /\ j - 1 \in 1 .. n /\ big[b][j] = small[b][j - 1]
               /\ \A j \in 1 .. n :
                    \/ j < k /\ big[b][j] = small[b][j]
                    \/ k <= j /\ big[b][j + 1] = small[b][j]
<1> DEFINE n == Len(small[b])
           s == small[b]
           t == big[b]
<1>1. /\ n \in Nat /\ DOMAIN s = 1 .. n /\ DOMAIN t = 1 .. n + 1 /\ k \in 1 .. n + 1
      /\ \A j \in 1 .. k - 1 : t[j] = s[j]
      /\ t[k] = p
      /\ \A j \in k .. n : t[j + 1] = s[j]
  <2>1. small \in Kids /\ big \in Kids /\ b \in Branch
    BY DEF Grown
  <2> QED BY <2>1, KidsTyped DEF Grown
<1> HIDE DEF n, s, t
<1>2. ASSUME NEW j \in 1 .. n + 1
      PROVE  \/ j < k /\ j \in 1 .. n /\ t[j] = s[j]
             \/ j = k /\ t[j] = p
             \/ k < j /\ j - 1 \in 1 .. n /\ t[j] = s[j - 1]
  <2>1. CASE j < k
    <3>1. j \in 1 .. k - 1 /\ j \in 1 .. n
      BY <1>1, <2>1
    <3> QED BY <1>1, <2>1, <3>1
  <2>2. CASE j = k
    BY <1>1, <2>2
  <2>3. CASE k < j
    <3>1. j - 1 \in k .. n /\ j - 1 \in 1 .. n /\ (j - 1) + 1 = j
      BY <1>1, <2>3
    <3> QED BY <1>1, <2>3, <3>1
  <2> QED BY <1>1, <2>1, <2>2, <2>3
<1>3. ASSUME NEW j \in 1 .. n
      PROVE  \/ j < k /\ t[j] = s[j]
             \/ k <= j /\ t[j + 1] = s[j]
  <2>1. j \in 1 .. k - 1 \/ j \in k .. n
    BY <1>1
  <2> QED BY <1>1, <2>1
<1> QED BY <1>1, <1>2, <1>3 DEF n, s, t

LEMMA GrownKids ==
    ASSUME NEW small, NEW big, NEW b, NEW k, NEW p, Grown(small, big, b, k, p)
    PROVE  \A x \in Branch : /\ ToSet(small[x]) \subseteq ToSet(big[x])
                             /\ ToSet(big[x]) \subseteq ToSet(small[x]) \cup {p}
                             /\ ToSet(big[x]) \cap Branch = ToSet(small[x]) \cap Branch
<1> DEFINE n == Len(small[b])
<1>1. /\ n \in Nat /\ DOMAIN small[b] = 1 .. n /\ DOMAIN big[b] = 1 .. n + 1
      /\ \A j \in 1 .. n + 1 :
           \/ j \in 1 .. n /\ big[b][j] = small[b][j]
           \/ big[b][j] = p
           \/ j - 1 \in 1 .. n /\ big[b][j] = small[b][j - 1]
      /\ \A j \in 1 .. n : big[b][j] = small[b][j] \/ big[b][j + 1] = small[b][j]
  BY GrownFacts
<1> HIDE DEF n
<1>2. ToSet(small[b]) \subseteq ToSet(big[b])
  <2>1. \A j \in 1 .. n : j \in 1 .. n + 1 /\ j + 1 \in 1 .. n + 1
    BY <1>1
  <2> QED BY <1>1, <2>1 DEF ToSet
<1>3. ToSet(big[b]) \subseteq ToSet(small[b]) \cup {p}
  BY <1>1 DEF ToSet
<1>4. p \in Page /\ \A x \in Branch \ {b} : big[x] = small[x]
  BY DEF Grown
<1>5. p \notin Branch
  BY <1>4, NodesAssumption
<1> QED BY <1>2, <1>3, <1>4, <1>5

LEMMA GrownDescends ==
    ASSUME NEW small, NEW big, NEW b, NEW k, NEW p, Grown(small, big, b, k, p)
    PROVE  Descends(small) <=> Descends(big)
<1>1. \A x \in Branch : ToSet(big[x]) \cap Branch = ToSet(small[x]) \cap Branch
  BY GrownKids
<1>2. small \in Kids /\ big \in Kids
  BY DEF Grown
<1> QED BY <1>1, <1>2 DEF Descends, Kids, Nodes

LEMMA SplitAt ==
    ASSUME NEW S, NEW s \in Seq(S), NEW k \in 1 .. Len(s) + 1, NEW e \in S
    PROVE  LET t == InsertAt(s, k, e)
           IN  /\ t \in Seq(S) /\ Len(t) = Len(s) + 1
               /\ \A j \in 1 .. k - 1 : t[j] = s[j]
               /\ t[k] = e
               /\ \A j \in k .. Len(s) : t[j + 1] = s[j]
<1> DEFINE n == Len(s)
           a == SubSeq(s, 1, k - 1)
           c == SubSeq(s, k, n)
           b == a \o <<e>>
           t == b \o c
<1>1. n \in Nat
  OBVIOUS
<1>2. a \in Seq(S) /\ Len(a) = k - 1 /\ \A j \in 1 .. k - 1 : a[j] = s[j]
  OBVIOUS
<1>3. /\ c \in Seq(S) /\ Len(c) = n - k + 1
      /\ \A j \in 1 .. n - k + 1 : c[j] = s[k + j - 1]
  OBVIOUS
<1> HIDE DEF a, c
<1>4. /\ b \in Seq(S) /\ Len(b) = (k - 1) + 1 /\ b[(k - 1) + 1] = e
      /\ \A j \in 1 .. k - 1 : b[j] = a[j]
  BY <1>2
<1> HIDE DEF b
<1>5. Len(b) = k /\ b[k] = e /\ \A j \in 1 .. k - 1 : b[j] = s[j]
  BY <1>2, <1>4
<1>6. /\ t \in Seq(S) /\ Len(t) = Len(b) + Len(c)
      /\ \A j \in 1 .. Len(b) : t[j] = b[j]
      /\ \A j \in 1 .. Len(c) : t[Len(b) + j] = c[j]
  BY <1>3, <1>4
<1> HIDE DEF t, n
<1>7. Len(t) = n + 1 /\ t[k] = e /\ \A j \in 1 .. k - 1 : t[j] = s[j]
  BY <1>1, <1>3, <1>5, <1>6
<1>8. ASSUME NEW j \in k .. n
      PROVE  t[j + 1] = s[j]
  <2>1. j + 1 - k \in 1 .. n - k + 1 /\ k + (j + 1 - k) = j + 1 /\ k + (j + 1 - k) - 1 = j
    BY <1>1
  <2>2. t[k + (j + 1 - k)] = c[j + 1 - k]
    BY <1>3, <1>5, <1>6, <2>1
  <2> QED BY <1>3, <2>1, <2>2
<1>9. t = InsertAt(s, k, e)
  BY DEF InsertAt, t, a, b, c, n
<1> QED BY <1>6, <1>7, <1>8, <1>9 DEF n

LEMMA CloseAt ==
    ASSUME NEW S, NEW s \in Seq(S), NEW k \in 1 .. Len(s)
    PROVE  LET t == RemoveAt(s, k)
           IN  /\ t \in Seq(S) /\ Len(s) = Len(t) + 1 /\ k \in 1 .. Len(t) + 1
               /\ \A j \in 1 .. k - 1 : s[j] = t[j]
               /\ \A j \in k .. Len(t) : s[j + 1] = t[j]
<1> DEFINE n == Len(s)
           a == SubSeq(s, 1, k - 1)
           c == SubSeq(s, k + 1, n)
           t == a \o c
<1>1. n \in Nat /\ k \in 1 .. n
  OBVIOUS
<1>2. a \in Seq(S) /\ Len(a) = k - 1 /\ \A j \in 1 .. k - 1 : a[j] = s[j]
  OBVIOUS
<1>3. /\ c \in Seq(S) /\ Len(c) = n - k
      /\ \A j \in 1 .. n - k : c[j] = s[k + j]
  OBVIOUS
<1> HIDE DEF a, c
<1>4. /\ t \in Seq(S) /\ Len(t) = Len(a) + Len(c)
      /\ \A j \in 1 .. Len(a) : t[j] = a[j]
      /\ \A j \in 1 .. Len(c) : t[Len(a) + j] = c[j]
  <2>1. a \in Seq(S) /\ c \in Seq(S)
    BY <1>2, <1>3
  <2> QED BY <2>1
<1> HIDE DEF t, n
<1>5. n = Len(t) + 1 /\ Len(t) \in Nat /\ k \in 1 .. Len(t) + 1
  BY <1>1, <1>2, <1>3, <1>4
<1>6. \A j \in 1 .. k - 1 : s[j] = t[j]
  BY <1>2, <1>4
<1>7. ASSUME NEW j \in k .. Len(t)
      PROVE  s[j + 1] = t[j]
  <2> DEFINE i == j + 1 - k
  <2>1. i \in 1 .. n - k /\ (k - 1) + i = j /\ k + i = j + 1
    BY <1>1, <1>5
  <2> HIDE DEF i
  <2>2. t[(k - 1) + i] = c[i]
    BY <1>2, <1>3, <1>4, <2>1
  <2> QED BY <1>3, <2>1, <2>2
<1>8. t = RemoveAt(s, k)
  BY DEF RemoveAt, t, a, c, n
<1> QED BY <1>4, <1>5, <1>6, <1>7, <1>8 DEF n

LEMMA GrownInsert ==
    ASSUME NEW kids \in Kids, NEW b \in Branch, NEW k \in 1 .. Len(kids[b]) + 1, NEW p \in Page
    PROVE  Grown(kids, [kids EXCEPT ![b] = InsertAt(@, k, p)], b, k, p)
<1> DEFINE s == kids[b]
           t == InsertAt(s, k, p)
           big == [kids EXCEPT ![b] = t]
<1>1. s \in Seq(Nodes) /\ p \in Nodes
  BY KidsTyped DEF Nodes
<1>2. /\ t \in Seq(Nodes) /\ Len(t) = Len(s) + 1
      /\ \A j \in 1 .. k - 1 : t[j] = s[j]
      /\ t[k] = p
      /\ \A j \in k .. Len(s) : t[j + 1] = s[j]
  <2> HIDE DEF s
  <2>1. k \in 1 .. Len(s) + 1
    BY DEF s
  <2> DEFINE S == Nodes
  <2>2. s \in Seq(S) /\ p \in S
    BY <1>1
  <2> HIDE DEF S
  <2>3. /\ InsertAt(s, k, p) \in Seq(S) /\ Len(InsertAt(s, k, p)) = Len(s) + 1
        /\ \A j \in 1 .. k - 1 : InsertAt(s, k, p)[j] = s[j]
        /\ InsertAt(s, k, p)[k] = p
        /\ \A j \in k .. Len(s) : InsertAt(s, k, p)[j + 1] = s[j]
    BY <2>1, <2>2, SplitAt
  <2> QED BY <2>3 DEF S
<1> HIDE DEF t
<1>3. big \in Kids /\ big[b] = t /\ \A x \in Branch \ {b} : big[x] = kids[x]
  BY <1>2 DEF Kids
<1> HIDE DEF big
<1>4. Grown(kids, big, b, k, p)
  BY <1>2, <1>3 DEF Grown
<1> QED BY <1>4 DEF big, t

LEMMA GrownRemove ==
    ASSUME NEW kids \in Kids, NEW b \in Branch, NEW k \in DOMAIN kids[b], kids[b][k] \in Page
    PROVE  Grown([kids EXCEPT ![b] = RemoveAt(@, k)], kids, b, k, kids[b][k])
<1> DEFINE s == kids[b]
           t == RemoveAt(s, k)
           small == [kids EXCEPT ![b] = t]
<1>1. s \in Seq(Nodes) /\ k \in 1 .. Len(s)
  BY KidsTyped
<1>2. /\ t \in Seq(Nodes) /\ Len(s) = Len(t) + 1 /\ k \in 1 .. Len(t) + 1
      /\ \A j \in 1 .. k - 1 : s[j] = t[j]
      /\ \A j \in k .. Len(t) : s[j + 1] = t[j]
  <2> HIDE DEF s
  <2> QED BY <1>1, CloseAt
<1> HIDE DEF t
<1>3. small \in Kids /\ small[b] = t /\ \A x \in Branch \ {b} : kids[x] = small[x]
  BY <1>2 DEF Kids
<1> HIDE DEF small
<1>4. Grown(small, kids, b, k, kids[b][k])
  BY <1>2, <1>3 DEF Grown
<1> QED BY <1>4 DEF small, t

(* A node of a stack is found only at the child the one above went into.   *)
LEMMA OnTrail ==
    ASSUME NEW kids, IsTree(kids), NEW trav, NEW at, Stands(kids, trav, at),
           NEW x \in Branch, NEW j \in DOMAIN kids[x],
           NEW n \in 1 .. Len(trav), kids[x][j] = trav[n].node
    PROVE  /\ n - 1 \in 1 .. Len(trav) - 1
           /\ x = trav[n - 1].node /\ j = trav[n - 1].child
<1> DEFINE m == Len(trav)
           l == n - 1
           y == trav[l].node
           i == trav[l].child
<1> Descends(kids)
  BY DEF IsTree
<1>1. m \in Nat /\ \A o \in 1 .. m : trav[o].node \in Branch /\ trav[o].child \in Nat \ {0}
  BY StandsFacts
<1>2. n # 1
  <2>1. trav[1].node = Root
    BY DEF Stands
  <2>2. kids[x][j] \in ToSet(kids[x])
    BY DEF ToSet
  <2>3. Root \notin ToSet(kids[x])
    BY DEF IsTree
  <2> QED BY <2>1, <2>2, <2>3
<1>3. l \in 1 .. m - 1 /\ l \in 1 .. m /\ l + 1 = n
  <2>1. n \in 1 .. m
    OBVIOUS
  <2> HIDE DEF m
  <2> QED BY <1>1, <1>2, <2>1
<1> HIDE DEF l
<1>4. i <= Len(kids[y]) /\ trav[n].node = kids[y][i] /\ y \in Branch
  <2>1. /\ trav[l].child <= Len(kids[trav[l].node])
        /\ trav[l + 1].node = kids[trav[l].node][trav[l].child]
    BY <1>3 DEF Stands
  <2> QED BY <1>1, <1>3, <2>1
<1>5. i \in DOMAIN kids[y]
  <2>1. DOMAIN kids[y] = 1 .. Len(kids[y]) /\ Len(kids[y]) \in Nat
    BY <1>4, TreeFacts
  <2>2. i \in Nat \ {0}
    BY <1>1, <1>3
  <2> HIDE DEF y, i
  <2> QED BY <1>4, <2>1, <2>2
<1>6. x = y /\ j = i
  <2> HIDE DEF y, i
  <2>1. kids[x][j] = kids[y][i]
    BY <1>4
  <2> QED BY <1>4, <1>5, <2>1 DEF IsTree
<1> QED BY <1>3, <1>6 DEF l

(* The page is one more of the leaves of the nodes above it, at its place. *)
LEMMA GrownLeaves ==
    ASSUME NEW small, NEW big, NEW b, NEW k, NEW p, Grown(small, big, b, k, p),
           NEW kids \in {small, big}, IsTree(kids), NEW trav, NEW at, Stands(kids, trav, at),
           trav[Len(trav)].node = b, trav[Len(trav)].child = k
    PROVE  /\ \A n \in 1 .. Len(trav) :
                Spliced(Leaves(small, trav[n].node), Leaves(big, trav[n].node),
                        Here(kids, trav, at) - at[n], p)
           /\ \A x \in Branch :
                (\A n \in 1 .. Len(trav) : trav[n].node # x) => Leaves(big, x) = Leaves(small, x)
<1> DEFINE m == Len(trav)
           here == Here(kids, trav, at)
           Off(x) == \A n \in 1 .. m : trav[n].node # x
           S == {x \in Branch :
                  /\ Off(x) => Leaves(big, x) = Leaves(small, x)
                  /\ \A n \in 1 .. m : trav[n].node = x =>
                       Spliced(Leaves(small, x), Leaves(big, x), here - at[n], p)}
<1> Descends(small) /\ Descends(big)
  BY GrownDescends DEF IsTree
<1> Descends(kids)
  OBVIOUS
<1>1. /\ m \in Nat /\ m > 0 /\ m \in 1 .. m /\ here \in Nat /\ here = at[m] + Len(Before(kids, b, k))
      /\ Len(at) = m
      /\ \A n \in 1 .. m : trav[n].node \in Branch /\ trav[n].child \in Nat \ {0} /\ at[n] \in Nat
      /\ \A n \in 1 .. m : Len(Before(kids, trav[n].node, trav[n].child)) \in Nat
  <2>1. /\ m \in Nat /\ m > 0 /\ here \in Nat
        /\ \A n \in 1 .. m : trav[n].node \in Branch /\ trav[n].child \in Nat \ {0} /\ at[n] \in Nat
        /\ \A n \in 1 .. m : Len(Before(kids, trav[n].node, trav[n].child)) \in Nat
    BY StandsFacts
  <2>2. Len(at) = m
    BY DEF Stands
  <2>3. here = at[m] + Len(Before(kids, b, k))
    BY <2>2 DEF Here
  <2>4. m \in 1 .. m
    BY <2>1
  <2> QED BY <2>1, <2>2, <2>3, <2>4
<1>2. b \in Branch /\ p \in Page /\ \A x \in Branch \ {b} : big[x] = small[x] /\ kids[x] = small[x]
  BY DEF Grown
<1>3. small \in Kids /\ big \in Kids /\ \E height : Sinks(small, height)
  BY TreeFacts
<1>4. \A q \in Page : Leaves(small, q) = <<q>> /\ Leaves(big, q) = <<q>>
  BY LeavesUnfold
<1>5. \A x \in Nodes : Leaves(small, x) \in Seq(Page) /\ Leaves(big, x) \in Seq(Page)
  BY LeavesTyped
<1> HIDE DEF here, m
<1>6. ASSUME NEW x \in Branch, \A kid \in ToSet(small[x]) \cap Branch : kid \in S
      PROVE  x \in S
  <2> DEFINE G == KidLeaves(small, x)
             H == KidLeaves(big, x)
             len == Len(small[x])
  <2>1. /\ len \in Nat /\ DOMAIN small[x] = 1 .. len
        /\ \A j \in 1 .. len : small[x][j] \in Nodes
    BY <1>3, KidsTyped
  <2>2. /\ Leaves(small, x) = Flat(G, len)
        /\ Leaves(big, x) = Flat(H, Len(big[x]))
    BY LeavesUnfold
  <2>3. \A j \in 1 .. len : G[j] = Leaves(small, small[x][j]) /\ G[j] \in Seq(Page)
    BY <1>5, <2>1 DEF KidLeaves
  <2>4. ASSUME NEW j \in 1 .. len, Off(small[x][j])
        PROVE  Leaves(big, small[x][j]) = Leaves(small, small[x][j])
    <3>1. CASE small[x][j] \in Page
      BY <1>4, <3>1
    <3>2. CASE small[x][j] \in Branch
      <4>1. small[x][j] \in ToSet(small[x])
        BY <2>1 DEF ToSet
      <4>2. small[x][j] \in S
        BY <1>6, <3>2, <4>1
      <4> HIDE DEF Off
      <4> QED BY <2>4, <4>2
    <3> QED BY <2>1, <3>1, <3>2 DEF Nodes
  <2>5. ASSUME NEW j \in 1 .. len, NEW n \in 1 .. m, trav[n].node = small[x][j]
        PROVE  n - 1 \in 1 .. m - 1 /\ x = trav[n - 1].node
               /\ (x # b => j = trav[n - 1].child)
    <3>1. small[x][j] \in ToSet(kids[x])
      <4>1. small[x][j] \in ToSet(small[x])
        BY <2>1 DEF ToSet
      <4> QED BY <4>1, GrownKids
    <3>2. PICK i \in DOMAIN kids[x] : kids[x][i] = small[x][j] /\ (x # b => i = j)
      <4>1. CASE x = b
        BY <3>1, <4>1 DEF ToSet
      <4>2. CASE x # b
        BY <1>2, <2>1, <4>2
      <4> QED BY <4>1, <4>2
    <3>3. n \in 1 .. Len(trav)
      BY DEF m
    <3>4. n - 1 \in 1 .. Len(trav) - 1 /\ x = trav[n - 1].node /\ i = trav[n - 1].child
      BY <2>5, <3>2, <3>3, OnTrail
    <3> QED BY <3>2, <3>4 DEF m
  <2>6. ASSUME Off(x)
        PROVE  Leaves(big, x) = Leaves(small, x)
    <3>1. x # b
      BY <1>1, <2>6 DEF m
    <3>2. big[x] = small[x]
      BY <1>2, <3>1
    <3>3. ASSUME NEW j \in 1 .. len
          PROVE  H[j] = G[j]
      <4>1. Off(small[x][j])
        <5> SUFFICES ASSUME NEW n \in 1 .. m, trav[n].node = small[x][j]
                     PROVE  FALSE
          OBVIOUS
        <5>1. n - 1 \in 1 .. m - 1 /\ x = trav[n - 1].node
          BY <2>5
        <5>2. n - 1 \in 1 .. m
          BY <1>1, <5>1
        <5> QED BY <2>6, <5>1, <5>2
      <4>2. H[j] = Leaves(big, small[x][j])
        BY <2>1, <3>2 DEF KidLeaves
      <4> HIDE DEF Off
      <4> QED BY <2>3, <2>4, <4>1, <4>2
    <3> HIDE DEF G, H, len
    <3>4. Flat(G, len) = Flat(H, len)
      BY <2>1, <3>3, FlatDepends
    <3> QED BY <2>2, <3>2, <3>4 DEF len
  <2>7. ASSUME NEW n \in 1 .. m, trav[n].node = x
        PROVE  Spliced(Leaves(small, x), Leaves(big, x), here - at[n], p)
    <3> DEFINE c == trav[n].child
    <3>1. ASSUME NEW i \in 1 .. m, trav[i].node = x
          PROVE  i = n
      BY <2>7, <3>1, StackDistinct DEF m
    <3>2. CASE n = m
      <4>1. x = b /\ c = k
        BY <2>7, <3>2 DEF m
      <4>2. \A j \in 1 .. len : Leaves(big, small[x][j]) = Leaves(small, small[x][j])
        <5> SUFFICES ASSUME NEW j \in 1 .. len
                     PROVE  Leaves(big, small[x][j]) = Leaves(small, small[x][j])
          OBVIOUS
        <5>1. Off(small[x][j])
          <6> SUFFICES ASSUME NEW i \in 1 .. m, trav[i].node = small[x][j]
                       PROVE  FALSE
            OBVIOUS
          <6>1. i - 1 \in 1 .. m - 1 /\ x = trav[i - 1].node
            BY <2>5
          <6>2. i - 1 \in 1 .. m /\ i - 1 # m
            BY <1>1, <6>1
          <6> QED BY <3>1, <3>2, <6>1, <6>2
        <5> HIDE DEF Off
        <5> QED BY <2>4, <5>1
      <4>3. /\ DOMAIN big[b] = 1 .. len + 1 /\ k \in 1 .. len + 1 /\ Len(big[x]) = len + 1
            /\ \A j \in 1 .. k - 1 : big[b][j] = small[b][j]
            /\ big[b][k] = p
            /\ \A j \in k .. len : big[b][j + 1] = small[b][j]
        <5>1. DOMAIN big[b] = 1 .. len + 1
          BY <4>1, GrownFacts
        <5> QED BY <4>1, <5>1 DEF Grown
      <4>4. \A j \in 1 .. len + 1 : H[j] = Leaves(big, big[b][j])
        BY <4>1, <4>3 DEF KidLeaves
      <4>5. \A j \in 1 .. len + 1 : H[j] \in Seq(Page)
        <5>1. \A j \in 1 .. len + 1 : big[b][j] \in Nodes
          BY <1>2, <1>3, <4>3, KidsTyped
        <5> QED BY <1>5, <4>4, <5>1
      <4>6. \A j \in 1 .. k - 1 : H[j] = G[j]
        <5> SUFFICES ASSUME NEW j \in 1 .. k - 1
                     PROVE  H[j] = G[j]
          OBVIOUS
        <5>1. j \in 1 .. len /\ j \in 1 .. len + 1
          BY <2>1, <4>3
        <5> QED BY <2>3, <4>1, <4>2, <4>3, <4>4, <5>1
      <4>7. H[k] = <<p>>
        BY <1>2, <1>4, <4>3, <4>4
      <4>8. \A j \in k .. len : H[j + 1] = G[j]
        <5> SUFFICES ASSUME NEW j \in k .. len
                     PROVE  H[j + 1] = G[j]
          OBVIOUS
        <5>1. j \in 1 .. len /\ j + 1 \in 1 .. len + 1
          BY <2>1, <4>3
        <5> QED BY <2>3, <4>1, <4>2, <4>3, <4>4, <5>1
      <4> HIDE DEF G, H, len
      <4>9. Spliced(Flat(G, len), Flat(H, len + 1), Len(Flat(G, k - 1)), p)
        BY <1>2, <2>1, <2>3, <4>3, <4>5, <4>6, <4>7, <4>8, FlatGrow
      <4>10. Before(kids, b, k) = Flat(G, k - 1)
        <5>1. CASE kids = small
          BY <4>1, <5>1 DEF Before, G
        <5>2. CASE kids = big
          <6>1. k - 1 \in Nat
            BY <2>1, <4>3
          <6>2. Flat(G, k - 1) = Flat(H, k - 1)
            BY <4>6, <6>1, FlatDepends
          <6> QED BY <4>1, <5>2, <6>2 DEF Before, H
        <5> QED BY <5>1, <5>2
      <4>11. here - at[n] = Len(Flat(G, k - 1))
        <5>1. Len(Before(kids, b, k)) \in Nat /\ at[m] \in Nat
          BY <1>1, <2>7, <3>2, <4>1
        <5> QED BY <1>1, <3>2, <4>10, <5>1
      <4> QED BY <2>2, <4>3, <4>9, <4>11
    <3>3. CASE n # m
      <4>1. n \in 1 .. m - 1 /\ n + 1 \in 1 .. m /\ (n + 1) - 1 = n
        BY <1>1, <3>3
      <4>2. x # b
        BY <1>1, <3>1, <3>3 DEF m
      <4>3. big[x] = small[x] /\ kids[x] = small[x]
        BY <1>2, <4>2
      <4>4. /\ c <= len /\ trav[n + 1].node = small[x][c]
            /\ at[n + 1] = at[n] + Len(Before(kids, x, c))
        <5>1. /\ trav[n].child <= Len(kids[trav[n].node])
              /\ trav[n + 1].node = kids[trav[n].node][trav[n].child]
              /\ at[n + 1] = at[n] + Len(Before(kids, trav[n].node, trav[n].child))
          BY <4>1 DEF Stands, m
        <5> QED BY <2>7, <4>3, <5>1
      <4>5. c \in 1 .. len
        <5>1. c \in Nat \ {0}
          BY <1>1
        <5> HIDE DEF c, len
        <5> QED BY <2>1, <4>4, <5>1
      <4>6. \A j \in 1 .. len : H[j] = Leaves(big, small[x][j]) /\ H[j] \in Seq(Page)
        BY <1>5, <2>1, <4>3 DEF KidLeaves
      <4>7. ASSUME NEW j \in 1 .. len, j # c
            PROVE  H[j] = G[j]
        <5>1. Off(small[x][j])
          <6> SUFFICES ASSUME NEW i \in 1 .. m, trav[i].node = small[x][j]
                       PROVE  FALSE
            OBVIOUS
          <6>1. i - 1 \in 1 .. m - 1 /\ x = trav[i - 1].node /\ j = trav[i - 1].child
            BY <2>5, <4>2
          <6>2. i - 1 \in 1 .. m
            BY <1>1, <6>1
          <6>3. i - 1 = n
            BY <3>1, <6>1, <6>2
          <6> QED BY <4>7, <6>1, <6>3
        <5> HIDE DEF Off
        <5> QED BY <2>3, <2>4, <4>6, <5>1
      <4>8. Spliced(G[c], H[c], here - at[n + 1], p)
        <5>1. small[x][c] \in ToSet(small[x]) \cap Branch
          <6>1. trav[n + 1].node \in Branch
            BY <1>1, <4>1
          <6> QED BY <2>1, <4>4, <4>5, <6>1 DEF ToSet
        <5>2. small[x][c] \in S
          BY <1>6, <5>1
        <5>3. Spliced(Leaves(small, small[x][c]), Leaves(big, small[x][c]), here - at[n + 1], p)
          BY <4>1, <4>4, <5>2
        <5> QED BY <2>3, <4>5, <4>6, <5>3
      <4> HIDE DEF G, H, len, c
      <4>9. Spliced(Flat(G, len), Flat(H, len), Len(Flat(G, c - 1)) + (here - at[n + 1]), p)
        <5> DEFINE j == here - at[n + 1]
        <5>1. Spliced(G[c], H[c], j, p)
          BY <4>8
        <5>2. \A i \in 1 .. len : G[i] \in Seq(Page) /\ H[i] \in Seq(Page)
          BY <2>3, <4>6
        <5> HIDE DEF j
        <5>3. Spliced(Flat(G, len), Flat(H, len), Len(Flat(G, c - 1)) + j, p)
          BY <2>1, <4>5, <4>7, <5>1, <5>2, FlatSplice
        <5> QED BY <5>3 DEF j
      <4>10. Before(kids, x, c) = Flat(G, c - 1)
        <5>1. CASE kids = small
          BY <5>1 DEF Before, G
        <5>2. CASE kids = big
          <6>1. c - 1 \in Nat /\ \A j \in 1 .. c - 1 : j \in 1 .. len /\ j # c
            BY <2>1, <4>5
          <6>2. \A j \in 1 .. c - 1 : G[j] = H[j]
            BY <4>7, <6>1
          <6>3. Flat(G, c - 1) = Flat(H, c - 1)
            BY <6>1, <6>2, FlatDepends
          <6> QED BY <5>2, <6>3 DEF Before, H
        <5> QED BY <5>1, <5>2
      <4>11. Len(Flat(G, c - 1)) + (here - at[n + 1]) = here - at[n]
        <5>1. Len(Before(kids, x, c)) \in Nat /\ at[n] \in Nat
          BY <1>1, <2>7 DEF c
        <5> QED BY <1>1, <4>4, <4>10, <5>1
      <4> QED BY <2>2, <4>3, <4>9, <4>11 DEF len
    <3> QED BY <3>2, <3>3
  <2> HIDE DEF Off
  <2> QED BY <2>6, <2>7
<1>7. Branch \subseteq S
  <2> HIDE DEF S
  <2> QED BY <1>3, <1>6, TreeInduction
<1>8. \A n \in 1 .. m :
        Spliced(Leaves(small, trav[n].node), Leaves(big, trav[n].node), here - at[n], p)
  BY <1>1, <1>7
<1>9. \A x \in Branch : Off(x) => Leaves(big, x) = Leaves(small, x)
  BY <1>7
<1> QED BY <1>8, <1>9 DEF here, m

LEMMA SplicedPages ==
    ASSUME NEW s, NEW t, NEW j, NEW p, Spliced(s, t, j, p)
    PROVE  /\ ToSet(t) = ToSet(s) \cup {p}
           /\ IsInjective(t) <=> IsInjective(s) /\ p \notin ToSet(s)
<1> DEFINE n == Len(s)
<1>1. /\ n \in Nat /\ DOMAIN s = 1 .. n /\ DOMAIN t = 1 .. n + 1 /\ j \in 0 .. n
      /\ \A x \in 1 .. j : t[x] = s[x]
      /\ t[j + 1] = p
      /\ \A x \in (j + 1) .. n : t[x + 1] = s[x]
  <2>1. s \in Seq(Page) /\ t \in Seq(Page) /\ Len(t) = n + 1
    BY DEF Spliced
  <2>2. n \in Nat /\ DOMAIN s = 1 .. n /\ DOMAIN t = 1 .. Len(t)
    BY <2>1
  <2> QED BY <2>1, <2>2 DEF Spliced
<1> HIDE DEF n
<1> DEFINE Up(x) == IF x <= j THEN x ELSE x + 1
<1>2. \A x \in 1 .. n : Up(x) \in 1 .. n + 1 /\ t[Up(x)] = s[x] /\ Up(x) # j + 1
  BY <1>1
<1>3. \A x, y \in 1 .. n : Up(x) = Up(y) => x = y
  BY <1>1
<1>4. \A y \in 1 .. n + 1 : y = j + 1 \/ \E x \in 1 .. n : y = Up(x)
  <2> SUFFICES ASSUME NEW y \in 1 .. n + 1, y # j + 1
               PROVE  \E x \in 1 .. n : y = Up(x)
    OBVIOUS
  <2>1. CASE y <= j
    <3>1. y \in 1 .. n /\ y = Up(y)
      BY <1>1, <2>1
    <3> QED BY <3>1
  <2>2. CASE ~(y <= j)
    <3>1. y - 1 \in 1 .. n /\ y = Up(y - 1)
      BY <1>1, <2>2
    <3> QED BY <3>1
  <2> QED BY <2>1, <2>2
<1>5. j + 1 \in 1 .. n + 1
  BY <1>1
<1> HIDE DEF Up
<1>6. ToSet(t) = ToSet(s) \cup {p}
  <2>1. ASSUME NEW q \in ToSet(t)
        PROVE  q \in ToSet(s) \cup {p}
    <3>1. PICK y \in 1 .. n + 1 : q = t[y]
      BY <1>1, <2>1 DEF ToSet
    <3>2. CASE y = j + 1
      BY <1>1, <3>1, <3>2
    <3>3. CASE y # j + 1
      <4>1. PICK x \in 1 .. n : y = Up(x)
        BY <1>4, <3>3
      <4>2. q = s[x]
        BY <1>2, <3>1, <4>1
      <4> QED BY <1>1, <4>2 DEF ToSet
    <3> QED BY <3>2, <3>3
  <2>2. ASSUME NEW q \in ToSet(s)
        PROVE  q \in ToSet(t)
    <3>1. PICK x \in 1 .. n : q = s[x]
      BY <1>1, <2>2 DEF ToSet
    <3> QED BY <1>1, <1>2, <3>1 DEF ToSet
  <2>3. p \in ToSet(t)
    BY <1>1, <1>5 DEF ToSet
  <2> QED BY <2>1, <2>2, <2>3
<1>7. ASSUME IsInjective(t)
      PROVE  IsInjective(s) /\ p \notin ToSet(s)
  <2>1. \A x, y \in 1 .. n : s[x] = s[y] => x = y
    BY <1>1, <1>2, <1>3, <1>7 DEF IsInjective
  <2>2. \A x \in 1 .. n : s[x] # p
    BY <1>1, <1>2, <1>5, <1>7 DEF IsInjective
  <2> QED BY <1>1, <2>1, <2>2 DEF IsInjective, ToSet
<1>8. ASSUME IsInjective(s), p \notin ToSet(s)
      PROVE  IsInjective(t)
  <2>1. \A x \in 1 .. n : s[x] # p
    BY <1>1, <1>8 DEF ToSet
  <2> SUFFICES ASSUME NEW x \in 1 .. n + 1, NEW y \in 1 .. n + 1, t[x] = t[y]
               PROVE  x = y
    BY <1>1 DEF IsInjective
  <2>2. CASE x = j + 1 \/ y = j + 1
    BY <1>1, <1>2, <1>4, <2>1, <2>2
  <2>3. CASE x # j + 1 /\ y # j + 1
    <3>1. PICK a \in 1 .. n : x = Up(a)
      BY <1>4, <2>3
    <3>2. PICK c \in 1 .. n : y = Up(c)
      BY <1>4, <2>3
    <3>3. a = c
      BY <1>1, <1>2, <1>8, <3>1, <3>2 DEF IsInjective
    <3> QED BY <3>1, <3>2, <3>3
  <2> QED BY <2>2, <2>3
<1> QED BY <1>6, <1>7, <1>8

LEMMA SameSeq ==
    ASSUME NEW S, NEW s \in Seq(S), NEW t \in Seq(S), Len(s) = Len(t),
           \A x \in 1 .. Len(s) : s[x] = t[x]
    PROVE  s = t
OBVIOUS

LEMMA SplicedIs ==
    ASSUME NEW s, NEW t, NEW j, NEW p, Spliced(s, t, j, p)
    PROVE  t = InsertAt(s, j + 1, p) /\ s = RemoveAt(t, j + 1)
<1> DEFINE n == Len(s)
           k == j + 1
           u == InsertAt(s, k, p)
           v == RemoveAt(t, k)
<1>1. /\ s \in Seq(Page) /\ t \in Seq(Page) /\ p \in Page
      /\ n \in Nat /\ Len(t) = n + 1 /\ j \in 0 .. n
      /\ \A x \in 1 .. j : t[x] = s[x]
      /\ t[k] = p
      /\ \A x \in k .. n : t[x + 1] = s[x]
  BY DEF Spliced
<1>2. k \in 1 .. n + 1 /\ j = k - 1
  BY <1>1
<1> HIDE DEF k
<1>3. /\ u \in Seq(Page) /\ Len(u) = n + 1
      /\ \A x \in 1 .. k - 1 : u[x] = s[x]
      /\ u[k] = p
      /\ \A x \in k .. n : u[x + 1] = s[x]
  <2> DEFINE S == Page
  <2>1. s \in Seq(S) /\ p \in S /\ k \in 1 .. Len(s) + 1
    BY <1>1, <1>2
  <2> HIDE DEF S
  <2>2. /\ InsertAt(s, k, p) \in Seq(S) /\ Len(InsertAt(s, k, p)) = Len(s) + 1
        /\ \A x \in 1 .. k - 1 : InsertAt(s, k, p)[x] = s[x]
        /\ InsertAt(s, k, p)[k] = p
        /\ \A x \in k .. Len(s) : InsertAt(s, k, p)[x + 1] = s[x]
    BY <2>1, SplitAt
  <2> QED BY <2>2 DEF S
<1>4. /\ v \in Seq(Page) /\ Len(t) = Len(v) + 1
      /\ \A x \in 1 .. k - 1 : t[x] = v[x]
      /\ \A x \in k .. Len(v) : t[x + 1] = v[x]
  <2>1. k \in 1 .. Len(t)
    BY <1>1, <1>2
  <2> QED BY <1>1, <2>1, CloseAt
<1> HIDE DEF u, v, n
<1>5. t = u
  <2>1. ASSUME NEW x \in 1 .. n + 1
        PROVE  t[x] = u[x]
    <3>1. CASE x < k
      BY <1>1, <1>2, <1>3, <3>1
    <3>2. CASE x = k
      BY <1>1, <1>3, <3>2
    <3>3. CASE k < x
      <4>1. x - 1 \in k .. n /\ (x - 1) + 1 = x
        BY <1>1, <1>2, <3>3
      <4> QED BY <1>1, <1>3, <4>1
    <3> QED BY <1>2, <3>1, <3>2, <3>3
  <2> QED BY <1>1, <1>3, <2>1, SameSeq
<1>6. s = v
  <2>1. Len(v) = n /\ Len(s) = n
    <3>1. Len(v) \in Nat
      BY <1>4
    <3> QED BY <1>1, <1>4, <3>1 DEF n
  <2>2. ASSUME NEW x \in 1 .. n
        PROVE  s[x] = v[x]
    <3>1. CASE x < k
      BY <1>1, <1>2, <1>4, <3>1
    <3>2. CASE k <= x
      BY <1>1, <1>2, <1>4, <2>1, <3>2
    <3> QED BY <1>2, <3>1, <3>2
  <2> QED BY <1>1, <1>4, <2>1, <2>2, SameSeq
<1> QED BY <1>5, <1>6 DEF u, v, k

(* It is a page tree if the page is new.                                   *)
LEMMA GrownTree ==
    ASSUME NEW small, NEW big, NEW b, NEW k, NEW p, Grown(small, big, b, k, p),
           NEW kids \in {small, big}, IsTree(kids), NEW trav, NEW at, Stands(kids, trav, at),
           trav[Len(trav)].node = b, trav[Len(trav)].child = k,
           kids = small => p \notin ToSet(Leaves(small, Root))
    PROVE  /\ IsTree(small) /\ IsTree(big)
           /\ Spliced(Leaves(small, Root), Leaves(big, Root), Here(kids, trav, at), p)
<1> DEFINE here == Here(kids, trav, at)
           n == Len(small[b])
           L == Leaves(small, Root)
           M == Leaves(big, Root)
<1>1. Descends(small) /\ Descends(big)
  BY GrownDescends DEF IsTree
<1>2. Spliced(L, M, here, p)
  <2>1. Descends(kids)
    BY <1>1
  <2>2. Len(trav) \in Nat /\ Len(trav) > 0 /\ here \in Nat
    BY <2>1, StandsFacts
  <2>3. 1 \in 1 .. Len(trav) /\ trav[1].node = Root /\ at[1] = 0
    BY <2>2 DEF Stands
  <2>4. Spliced(L, M, here - at[1], p)
    BY <2>3, GrownLeaves
  <2>5. here - at[1] = here
    BY <2>2, <2>3
  <2> QED BY <2>4, <2>5
<1>3. ToSet(M) = ToSet(L) \cup {p} /\ (IsInjective(M) <=> IsInjective(L) /\ p \notin ToSet(L))
  BY <1>2, SplicedPages
<1>4. p \notin ToSet(L) /\ IsInjective(L) /\ IsInjective(M)
  BY <1>3 DEF IsTree
<1>5. b \in Branch /\ p \in Page /\ \A x \in Branch \ {b} : big[x] = small[x]
  BY DEF Grown
<1>6. /\ n \in Nat /\ DOMAIN small[b] = 1 .. n /\ DOMAIN big[b] = 1 .. n + 1
      /\ k \in 1 .. n + 1
      /\ \A j \in 1 .. n + 1 :
           \/ j < k /\ j \in 1 .. n /\ big[b][j] = small[b][j]
           \/ j = k /\ big[b][j] = p
           \/ k < j /\ j - 1 \in 1 .. n /\ big[b][j] = small[b][j - 1]
      /\ \A j \in 1 .. n :
           \/ j < k /\ big[b][j] = small[b][j]
           \/ k <= j /\ big[b][j + 1] = small[b][j]
  <2>1. Grown(small, big, b, k, p)
    OBVIOUS
  <2> HIDE DEF here, L, M
  <2>2. /\ n \in Nat /\ DOMAIN small[b] = 1 .. n /\ DOMAIN big[b] = 1 .. n + 1
        /\ k \in 1 .. n + 1
    BY <2>1, GrownFacts
  <2>3. \A j \in 1 .. n + 1 :
          \/ j < k /\ j \in 1 .. n /\ big[b][j] = small[b][j]
          \/ j = k /\ big[b][j] = p
          \/ k < j /\ j - 1 \in 1 .. n /\ big[b][j] = small[b][j - 1]
    BY <2>1, GrownFacts
  <2>4. \A j \in 1 .. n :
          \/ j < k /\ big[b][j] = small[b][j]
          \/ k <= j /\ big[b][j + 1] = small[b][j]
    BY <2>1, GrownFacts
  <2> HIDE DEF n
  <2> QED BY <2>2, <2>3, <2>4
<1>7. \A x \in Branch : /\ ToSet(small[x]) \subseteq ToSet(big[x])
                        /\ ToSet(big[x]) \subseteq ToSet(small[x]) \cup {p}
  BY GrownKids
<1>8. \A x \in Branch : \A j \in DOMAIN small[x] : j \in Nat
  <2> SUFFICES ASSUME NEW x \in Branch
               PROVE  \A j \in DOMAIN small[x] : j \in Nat
    OBVIOUS
  <2>1. DOMAIN small[x] = 1 .. Len(small[x]) /\ Len(small[x]) \in Nat
    BY <1>1, TreeFacts
  <2> QED BY <2>1
<1> HIDE DEF n, L, M, here
<1> DEFINE Up(x, j) == IF x = b /\ ~(j < k) THEN j + 1 ELSE j
<1>9. \A x \in Branch : \A j \in DOMAIN small[x] :
        Up(x, j) \in DOMAIN big[x] /\ big[x][Up(x, j)] = small[x][j] /\ (x = b => Up(x, j) # k)
  <2> SUFFICES ASSUME NEW x \in Branch, NEW j \in DOMAIN small[x]
               PROVE  /\ Up(x, j) \in DOMAIN big[x] /\ big[x][Up(x, j)] = small[x][j]
                      /\ x = b => Up(x, j) # k
    OBVIOUS
  <2>1. CASE x = b
    <3>1. j \in 1 .. n /\ k \in Nat /\ j \in Nat
      BY <1>6, <2>1
    <3>2. CASE j < k
      BY <1>6, <2>1, <3>1, <3>2
    <3>3. CASE ~(j < k)
      BY <1>6, <2>1, <3>1, <3>3
    <3> QED BY <3>2, <3>3
  <2>2. CASE x # b
    BY <1>5, <2>2
  <2> QED BY <2>1, <2>2
<1>10. \A x \in Branch : \A i, j \in DOMAIN small[x] : Up(x, i) = Up(x, j) => i = j
  BY <1>6, <1>8
<1>11. \A x \in Branch : \A j \in DOMAIN big[x] :
         \/ x = b /\ j = k
         \/ \E i \in DOMAIN small[x] : j = Up(x, i)
  <2> SUFFICES ASSUME NEW x \in Branch, NEW j \in DOMAIN big[x], ~(x = b /\ j = k)
               PROVE  \E i \in DOMAIN small[x] : j = Up(x, i)
    OBVIOUS
  <2>1. CASE x = b
    <3>1. CASE j < k
      <4>1. j \in DOMAIN small[b] /\ j = Up(b, j)
        BY <1>6, <2>1, <3>1
      <4> QED BY <2>1, <4>1
    <3>2. CASE k < j
      <4>1. j - 1 \in DOMAIN small[b] /\ j = Up(b, j - 1)
        BY <1>6, <2>1, <3>2
      <4> QED BY <2>1, <4>1
    <3>3. j < k \/ k < j
      BY <1>6, <2>1
    <3> QED BY <3>1, <3>2, <3>3
  <2>2. CASE x # b
    <3>1. j \in DOMAIN small[x] /\ j = Up(x, j)
      BY <1>5, <2>2
    <3> QED BY <3>1
  <2> QED BY <2>1, <2>2
<1>12. k \in DOMAIN big[b] /\ big[b][k] = p
  BY <1>6
<1> HIDE DEF Up
<1>13. IsTree(small) => \A x \in Branch : p \notin ToSet(small[x])
  <2> SUFFICES ASSUME IsTree(small), NEW x \in Branch, p \in ToSet(small[x])
               PROVE  FALSE
    OBVIOUS
  <2>1. ToSet(small[x]) \cap Page \subseteq ToSet(L)
    BY DEF IsTree, L
  <2> QED BY <1>4, <1>5, <2>1
<1>14. ASSUME IsTree(small)
       PROVE  IsTree(big)
  <2>1. ASSUME NEW x \in Branch, NEW y \in Branch, NEW i \in DOMAIN big[x],
               NEW j \in DOMAIN big[y], big[x][i] = big[y][j]
        PROVE  x = y /\ i = j
    <3>1. CASE big[x][i] = p
      <4>1. ASSUME NEW z \in Branch, NEW l \in DOMAIN big[z], big[z][l] = p
            PROVE  z = b /\ l = k
        <5>1. ASSUME NEW o \in DOMAIN small[z], l = Up(z, o)
              PROVE  FALSE
          <6>1. small[z][o] = p
            BY <1>9, <4>1, <5>1
          <6>2. p \in ToSet(small[z])
            BY <6>1 DEF ToSet
          <6> QED BY <1>13, <1>14, <6>2
        <5> QED BY <1>11, <5>1
      <4>2. x = b /\ i = k
        BY <3>1, <4>1
      <4>3. y = b /\ j = k
        BY <2>1, <3>1, <4>1
      <4> QED BY <4>2, <4>3
    <3>2. CASE big[x][i] # p
      <4>1. PICK g \in DOMAIN small[x] : i = Up(x, g)
        BY <1>11, <1>12, <3>2
      <4>2. PICK h \in DOMAIN small[y] : j = Up(y, h)
        BY <1>11, <1>12, <2>1, <3>2
      <4>3. small[x][g] = small[y][h]
        BY <1>9, <2>1, <4>1, <4>2
      <4>4. x = y /\ g = h
        BY <1>14, <4>3 DEF IsTree
      <4> QED BY <4>1, <4>2, <4>4
    <3> QED BY <3>1, <3>2
  <2>2. \A x \in Branch : Root \notin ToSet(big[x])
    <3>1. Root # p
      BY <1>5, NodesAssumption
    <3> QED BY <1>7, <1>14, <3>1 DEF IsTree
  <2>3. \A x \in Branch : ToSet(big[x]) \cap Page \subseteq ToSet(M)
    <3>1. \A x \in Branch : ToSet(small[x]) \cap Page \subseteq ToSet(L)
      BY <1>14 DEF IsTree, L
    <3> QED BY <1>3, <1>7, <3>1
  <2> QED BY <1>1, <1>4, <2>1, <2>2, <2>3 DEF IsTree, M
<1>15. ASSUME IsTree(big)
       PROVE  IsTree(small)
  <2>1. ASSUME NEW x \in Branch, NEW y \in Branch, NEW i \in DOMAIN small[x],
               NEW j \in DOMAIN small[y], small[x][i] = small[y][j]
        PROVE  x = y /\ i = j
    <3>1. /\ Up(x, i) \in DOMAIN big[x] /\ Up(y, j) \in DOMAIN big[y]
          /\ big[x][Up(x, i)] = big[y][Up(y, j)]
      BY <1>9, <2>1
    <3>2. x = y /\ Up(x, i) = Up(y, j)
      BY <1>15, <3>1 DEF IsTree
    <3> QED BY <1>10, <3>2
  <2>2. \A x \in Branch : Root \notin ToSet(small[x])
    BY <1>7, <1>15 DEF IsTree
  <2>3. ASSUME NEW x \in Branch, NEW q \in ToSet(small[x]) \cap Page
        PROVE  q \in ToSet(L)
    <3>1. q \in ToSet(M)
      <4>1. ToSet(big[x]) \cap Page \subseteq ToSet(M)
        BY <1>15 DEF IsTree, M
      <4> QED BY <1>7, <4>1
    <3>2. q # p
      <4>1. PICK j \in DOMAIN small[x] : q = small[x][j]
        BY DEF ToSet
      <4>2. Up(x, j) \in DOMAIN big[x] /\ big[x][Up(x, j)] = q /\ (x = b => Up(x, j) # k)
        BY <1>9, <4>1
      <4>3. big[x][Up(x, j)] = big[b][k] => x = b /\ Up(x, j) = k
        BY <1>5, <1>12, <1>15, <4>2 DEF IsTree
      <4> QED BY <1>12, <4>2, <4>3
    <3> QED BY <1>3, <3>1, <3>2
  <2> QED BY <1>1, <1>4, <2>1, <2>2, <2>3 DEF IsTree, L
<1> QED BY <1>2, <1>14, <1>15 DEF L, M, here

-----------------------------------------------------------------------------
(* The document and its caches as every operation leaves them.             *)

CountsRight(d)  == \A b \in Branch : d.count[b] = Len(Leaves(d.kids, b))
ParentsRight(d) ==
    \A b \in Branch : \A p \in ToSet(d.kids[b]) \cap Page : d.parent[p] = b

Good(d) ==
    /\ d \in DocType /\ IsTree(d.kids)
    /\ Cached(d.list, ThePages(d), {})
    /\ CountsRight(d) /\ ParentsRight(d)
    /\ InStep(d)

LEMMA GoodFacts ==
    ASSUME NEW d, Good(d)
    PROVE  /\ ThePages(d) \in Seq(Page) /\ Len(ThePages(d)) \in Nat
           /\ Len(d.list) = Len(ThePages(d)) /\ d.list \in Seq(Page \cup {None})
           /\ IsInjective(ThePages(d)) /\ d.kids \in Kids /\ Descends(d.kids)
<1>1. Descends(d.kids) /\ IsInjective(ThePages(d))
  BY DEF Good, IsTree, ThePages
<1>2. ThePages(d) \in Seq(Page)
  BY <1>1, LeavesTyped, NodesAssumption DEF ThePages, Nodes
<1>3. Len(ThePages(d)) \in Nat
  BY <1>2
<1>4. Len(d.list) = Len(ThePages(d)) /\ d.list \in Seq(Page \cup {None}) /\ d.kids \in Kids
  BY DEF Good, Cached, DocType, Kids, Nodes
<1> QED BY <1>1, <1>2, <1>3, <1>4

(* A lookup leaves it so.                                                  *)
LEMMA LookupGood ==
    ASSUME NEW d, Good(d), NEW known, Cached(d.list, ThePages(d), known),
           NEW i \in Nat, i < Len(ThePages(d))
    PROVE  LET r == Lookup(d, i)
           IN  /\ r.found = ThePages(d)[i + 1]
               /\ Good(r.doc) /\ r.doc.kids = d.kids /\ ThePages(r.doc) = ThePages(d)
               /\ Cached(r.doc.list, ThePages(d), known \cup {i + 1})
<1> DEFINE r == GetPageDictionary(d, i, {})
           L == Leaves(d.kids, Root)
<1>1. d \in DocType /\ IsTree(d.kids) /\ InStep(d) /\ CountsRight(d) /\ ParentsRight(d)
  BY DEF Good
<1>2. Cached(d.list, L, known) /\ i < Len(L) /\ L = ThePages(d)
  BY DEF ThePages
<1> DEFINE unread == {}
<1>3. /\ unread \in SUBSET Nodes /\ L[i + 1] \notin unread /\ Root \notin unread
      /\ CanRead(d.kids, unread, i)
  BY DEF CanRead
<1> HIDE DEF unread
<1>4. LET R == GetPageDictionary(d, i, unread)
      IN  /\ R.found = Leaves(d.kids, Root)[i + 1]
          /\ R.doc \in DocType /\ R.doc.kids = d.kids
          /\ R.doc.count = d.count /\ R.doc.parent = d.parent
          /\ Cached(R.doc.list, Leaves(d.kids, Root), known \cup {i + 1})
          /\ InStep(R.doc)
  BY <1>1, <1>2, <1>3, LookupRight, Zenon
<1>5. /\ r.found = L[i + 1] /\ r.doc \in DocType /\ r.doc.kids = d.kids
      /\ r.doc.count = d.count /\ r.doc.parent = d.parent
      /\ Cached(r.doc.list, L, known \cup {i + 1}) /\ InStep(r.doc)
  BY <1>4 DEF unread
<1> HIDE DEF r, L
<1>6. ThePages(r.doc) = ThePages(d)
  BY <1>5 DEF ThePages
<1>7. Cached(r.doc.list, ThePages(r.doc), {})
  BY <1>2, <1>5, <1>6 DEF Cached
<1>8. CountsRight(r.doc) /\ ParentsRight(r.doc)
  BY <1>1, <1>5 DEF CountsRight, ParentsRight
<1>9. Good(r.doc)
  BY <1>1, <1>5, <1>7, <1>8 DEF Good
<1> QED BY <1>2, <1>5, <1>6, <1>9 DEF Lookup, r

-----------------------------------------------------------------------------
(* What is done step by step.                                              *)
StepOf(kind, with, e, n) ==
    CASE kind = "search" -> SearchStep(with, e)
      [] kind = "lookup" -> Lookup(e, with[n]).doc
      [] kind = "delete" -> DeletePage(e, with[n])
      [] kind = "insert" -> InsertNewPage(e, n - 1 + with.dest, with.newPages[n])

StepsFrom(kind, with, e, after, m) ==
    after = [n \in 0 .. m |-> IF n = 0 THEN e ELSE StepOf(kind, with, after[n - 1], n)]

LEMMA StepsTaken ==
    ASSUME NEW kind, NEW with, NEW e, NEW M \in Nat
    PROVE  \E after : StepsFrom(kind, with, e, after, M)
<1> DEFINE S == {m \in 0 .. M : \E after : StepsFrom(kind, with, e, after, m)}
<1>1. 0 \in S
  <2> DEFINE h == [n \in 0 .. 0 |-> e]
  <2>1. h = [n \in 0 .. 0 |-> IF n = 0 THEN e ELSE StepOf(kind, with, h[n - 1], n)]
    OBVIOUS
  <2> HIDE DEF h
  <2> QED BY <2>1 DEF StepsFrom
<1>2. ASSUME NEW m \in 0 .. M, m \in S, m < M
      PROVE  m + 1 \in S
  <2>1. PICK after : StepsFrom(kind, with, e, after, m)
    BY <1>2
  <2> DEFINE last == StepOf(kind, with, after[m], m + 1)
             h == [n \in 0 .. (m + 1) |-> IF n = m + 1 THEN last ELSE after[n]]
  <2>2. ASSUME NEW n \in 0 .. (m + 1)
        PROVE  h[n] = IF n = 0 THEN e ELSE StepOf(kind, with, h[n - 1], n)
    <3>1. CASE n = m + 1
      <4>1. n # 0 /\ n - 1 = m /\ h[n - 1] = after[m] /\ h[n] = last
        BY <3>1
      <4> HIDE DEF h
      <4> QED BY <3>1, <4>1
    <3>2. CASE n # m + 1
      <4>1. n \in 0 .. m /\ h[n] = after[n]
        BY <3>2
      <4>2. after[n] = IF n = 0 THEN e ELSE StepOf(kind, with, after[n - 1], n)
        BY <2>1, <4>1 DEF StepsFrom
      <4>3. n # 0 => h[n - 1] = after[n - 1]
        BY <4>1
      <4> HIDE DEF h
      <4> QED BY <4>1, <4>2, <4>3
    <3> QED BY <3>1, <3>2
  <2>3. h = [n \in 0 .. (m + 1) |-> h[n]]
    OBVIOUS
  <2> HIDE DEF h
  <2>4. StepsFrom(kind, with, e, h, m + 1)
    BY <2>2, <2>3 DEF StepsFrom
  <2> QED BY <1>2, <2>4
<1>3. 0 .. M \subseteq S
  <2> HIDE DEF S
  <2> QED BY <1>1, <1>2, UpToBound
<1> QED BY <1>3

-----------------------------------------------------------------------------
(* The search for the place to edit.                                       *)
Searches == [path : Seq(Steps), togo : Nat]

Searching(d, search, i, at) ==
    LET trav == search.path
        m    == Len(trav)
    IN  /\ Stands(d.kids, trav, at)
        /\ Here(d.kids, trav, at) + search.togo = i
        /\ i < at[m] + Len(Leaves(d.kids, trav[m].node))

(* It stands before the page of index i.                                   *)
Found(kids, trav, at, i) ==
    LET top == trav[Len(trav)]
    IN  /\ Stands(kids, trav, at) /\ Here(kids, trav, at) = i
        /\ top.node \in Branch /\ top.child \in DOMAIN kids[top.node]
        /\ kids[top.node][top.child] \in Page

LEMMA SearchOn ==
    ASSUME NEW d \in DocType, IsTree(d.kids), CountsRight(d), NEW i \in Nat,
           NEW search \in Searches, NEW at, Searching(d, search, i, at),
           NEW n \in Nat, Moves(d.kids, search.path, n)
    PROVE  LET v == SearchStep(d, search)
           IN  /\ v \in Searches
               /\ \/ v = search /\ Found(d.kids, search.path, at, i)
                  \/ \E a : Searching(d, v, i, a) /\ Moves(d.kids, v.path, n + 1)
<1> DEFINE kids == d.kids
           trav == search.path
           togo == search.togo
           m == Len(trav)
           top == Last(trav)
           list == kids[top.node]
           kid == list[top.child]
           here == Here(kids, trav, at)
           size == IF kid \in Page THEN 1 ELSE d.count[kid]
           v == SearchStep(d, search)
<1> Descends(kids)
  BY DEF IsTree
<1>1. /\ Stands(kids, trav, at) /\ togo \in Nat /\ here + togo = i
      /\ i < at[m] + Len(Leaves(kids, trav[m].node))
  BY DEF Searching, Searches
<1>2. /\ m \in Nat /\ m > 0 /\ m \in 1 .. m /\ top = trav[m] /\ here \in Nat
      /\ trav \in Seq(Steps) /\ Len(at) = m
      /\ top.node \in Branch /\ top.child \in Nat \ {0} /\ at[m] \in Nat
      /\ top.child <= Len(list) + 1
      /\ here = at[m] + Len(Before(kids, top.node, top.child))
  <2>1. /\ m \in Nat /\ m > 0 /\ top = trav[m] /\ here \in Nat /\ trav \in Seq(Steps)
        /\ \A k \in 1 .. m :
             /\ trav[k].node \in Branch /\ trav[k].child \in Nat \ {0}
             /\ trav[k].child <= Len(kids[trav[k].node]) + 1
             /\ at[k] \in Nat
    BY <1>1, StandsFacts
  <2>2. m \in 1 .. m
    BY <2>1
  <2>3. Len(at) = m
    BY <1>1 DEF Stands
  <2>4. here = at[m] + Len(Before(kids, trav[m].node, trav[m].child))
    BY <2>3 DEF Here
  <2>5. /\ trav[m].node \in Branch /\ trav[m].child \in Nat \ {0} /\ at[m] \in Nat
        /\ trav[m].child <= Len(kids[trav[m].node]) + 1
    BY <2>1, <2>2
  <2> HIDE DEF top, here, m
  <2> QED BY <2>1, <2>2, <2>3, <2>4, <2>5 DEF kid, list
<1>3. Len(list) \in Nat /\ DOMAIN list = 1 .. Len(list)
  BY <1>2, TreeFacts
<1>4. top.child <= Len(list)
  <2> SUFFICES ASSUME top.child = Len(list) + 1
               PROVE  FALSE
    <3> DEFINE c == top.child
    <3>1. c \in Nat \ {0} /\ c <= Len(list) + 1
      BY <1>2
    <3> HIDE DEF c, list
    <3> QED BY <1>3, <3>1 DEF c
  <2>1. Before(kids, top.node, top.child) = Leaves(kids, top.node)
    BY <1>2, KidPlace
  <2>2. here = at[m] + Len(Leaves(kids, trav[m].node))
    BY <1>2, <2>1
  <2> DEFINE x == at[m] + Len(Leaves(kids, trav[m].node))
  <2>3. here = x /\ i < x
    BY <1>1, <2>2
  <2> HIDE DEF x, here, togo
  <2> QED BY <1>1, <1>2, <2>3
<1>5. top.child \in DOMAIN list /\ kid \in Nodes
  BY <1>1, <1>4, StandPast
<1>6. size = Len(Leaves(kids, kid)) /\ size \in Nat
  <2>1. CASE kid \in Page
    <3>1. Leaves(kids, kid) = <<kid>> /\ Len(<<kid>>) = 1
      BY <2>1, LeavesUnfold
    <3> QED BY <2>1, <3>1
  <2>2. CASE kid \in Branch
    <3>1. kid \notin Page /\ d.count[kid] = Len(Leaves(kids, kid)) /\ d.count[kid] \in Nat
      BY <2>2, NodesAssumption DEF CountsRight, DocType
    <3> QED BY <3>1
  <2> QED BY <1>5, <2>1, <2>2 DEF Nodes
<1>7. v = CASE togo >= size -> Pass(search, size)
            [] togo < size /\ kid \in Branch -> Descend(search, kid)
            [] OTHER -> search
  <2> DEFINE A == top.child <= Len(list) /\ togo >= size
             B == top.child <= Len(list) /\ togo < size /\ kid \in Branch
             C == togo >= size
             D == togo < size /\ kid \in Branch
             p == Pass(search, size)
             q == Descend(search, kid)
  <2>1. v = CASE A -> p [] B -> q [] OTHER -> search
    BY DEF SearchStep
  <2>2. (A <=> C) /\ (B <=> D)
    BY <1>4
  <2> HIDE DEF A, B, C, D, p, q, v
  <2> QED BY <2>1, <2>2 DEF C, D, p, q
<1> HIDE DEF v
<1>8. CASE togo >= size
  <2> DEFINE t == AdvanceAt(trav, m)
             left == togo - size
  <2>1. v = [search EXCEPT !.path = AdvanceAt(@, Len(@)), !.togo = @ - size]
    <3>1. v = Pass(search, size)
      <4> HIDE DEF size, togo
      <4>1. ~(togo < size)
        BY <1>1, <1>6, <1>8
      <4> QED BY <1>7, <1>8, <4>1
    <3> HIDE DEF size
    <3> QED BY <3>1 DEF Pass
  <2>2. Stands(kids, t, at) /\ Here(kids, t, at) = here + size
    <3>1. Stands(kids, t, at) /\ Here(kids, t, at) = here + Len(Leaves(kids, kid))
      BY <1>1, <1>4, StandPast
    <3> HIDE DEF size
    <3> QED BY <1>6, <3>1
  <2>3. t \in Seq(Steps) /\ Len(t) = m /\ t[m] = [node |-> top.node, child |-> top.child + 1]
    <3> HIDE DEF top
    <3> QED BY <1>2, Advanced
  <2>4. left \in Nat /\ (here + size) + left = i
    <3> HIDE DEF here, size, togo
    <3> QED BY <1>1, <1>2, <1>6, <1>8
  <2> HIDE DEF t, left, here
  <2>5. v \in Searches /\ v.path = t /\ v.togo = left
    <3> HIDE DEF size
    <3> QED BY <2>1, <2>3, <2>4 DEF Searches, t, left
  <2>6. t[m].node = trav[m].node
    BY <1>2, <2>3
  <2>7. Searching(d, v, i, at)
    BY <1>1, <2>2, <2>3, <2>4, <2>5, <2>6 DEF Searching
  <2>8. Moves(kids, t, n + 1)
    BY <1>1, <1>4, MovesPast DEF t
  <2> QED BY <2>5, <2>7, <2>8 DEF v
<1>9. CASE togo < size /\ kid \in Branch
  <2> DEFINE s == [node |-> kid, child |-> 1]
             t == Append(trav, s)
             a == Append(at, here)
  <2>1. v = [search EXCEPT !.path = Append(@, [node |-> kid, child |-> 1])]
    <3>1. ~(togo >= size)
      <4> HIDE DEF size, togo
      <4> QED BY <1>1, <1>6, <1>9
    <3> QED BY <1>7, <1>9, <3>1 DEF Descend
  <2>2. Stands(kids, t, a) /\ Here(kids, t, a) = here
    BY <1>1, <1>4, <1>9, StandInto
  <2>3. Moves(kids, t, n + 1)
    BY <1>1, <1>4, <1>9, MovesInto
  <2>4. /\ t \in Seq(Steps) /\ Len(t) = m + 1 /\ t[m + 1] = s
        /\ a[m + 1] = here
    <3>1. s \in Steps
      BY <1>9 DEF Steps
    <3>2. at \in Seq(Nat)
      BY <1>1 DEF Stands
    <3> HIDE DEF s, here, top
    <3> QED BY <1>2, <3>1, <3>2
  <2>5. v \in Searches /\ v.path = t /\ v.togo = togo
    <3> HIDE DEF kid
    <3> QED BY <2>1, <2>4 DEF Searches
  <2>6. i < here + Len(Leaves(kids, kid))
    <3> HIDE DEF here, size, togo, kid
    <3> QED BY <1>1, <1>2, <1>6, <1>9
  <2> HIDE DEF t, a, here
  <2>7. Searching(d, v, i, a)
    BY <1>1, <2>2, <2>4, <2>5, <2>6 DEF Searching, s
  <2> QED BY <2>3, <2>5, <2>7 DEF v
<1>10. CASE togo < size /\ kid \notin Branch
  <2>1. ~(togo >= size)
    <3> HIDE DEF size, togo
    <3> QED BY <1>1, <1>6, <1>10
  <2>2. v = search
    BY <1>7, <1>10, <2>1
  <2>3. kid \in Page
    BY <1>5, <1>10 DEF Nodes
  <2>4. here = i
    <3>1. size = 1
      BY <2>3
    <3> HIDE DEF here, size, togo
    <3> QED BY <1>1, <1>2, <1>10, <3>1
  <2>5. Found(kids, trav, at, i)
    <3> HIDE DEF here
    <3> QED BY <1>1, <1>2, <1>5, <2>3, <2>4 DEF Found, here
  <2> QED BY <2>2, <2>5 DEF v
<1> HIDE DEF size, togo
<1>11. togo >= size \/ togo < size
  BY <1>1, <1>6
<1> QED BY <1>8, <1>9, <1>10, <1>11

FirstSearch(i) == [path |-> <<[node |-> Root, child |-> 1]>>, togo |-> i]
SearchesOf(d, i, after) ==
    after = [n \in 0 .. MaxTurns |-> IF n = 0 THEN FirstSearch(i)
                                     ELSE SearchStep(d, after[n - 1])]

LEMMA SearchTaken ==
    ASSUME NEW d, NEW i
    PROVE  \E after : SearchesOf(d, i, after)
<1>1. MaxTurns \in Nat
  BY NodesAssumption, FS_CardinalityType DEF MaxTurns
<1>2. PICK after : StepsFrom("search", d, FirstSearch(i), after, MaxTurns)
  BY <1>1, StepsTaken
<1>3. SearchesOf(d, i, after)
  BY <1>2 DEF StepsFrom, StepOf, SearchesOf
<1> QED BY <1>3

(* The search finds the page.                                              *)
LEMMA PathRight ==
    ASSUME NEW d \in DocType, IsTree(d.kids), CountsRight(d),
           NEW i \in Nat, i < Len(ThePages(d))
    PROVE  \E at : Found(d.kids, PathTo(d, i), at, i)
<1> DEFINE after == CHOOSE g : SearchesOf(d, i, g)
           first == FirstSearch(i)
           Done(v) == \E at : Found(d.kids, v.path, at, i)
           Under(v, n) == \E at : Searching(d, v, i, at) /\ Moves(d.kids, v.path, n + 1)
           S == {n \in 0 .. MaxTurns :
                   /\ after[n] \in Searches
                   /\ \/ Done(after[n]) /\ SearchStep(d, after[n]) = after[n]
                      \/ Under(after[n], n)}
<1>1. MaxTurns \in Nat
  BY NodesAssumption, FS_CardinalityType DEF MaxTurns
<1>2. SearchesOf(d, i, after)
  BY SearchTaken
<1>3. PathTo(d, i) = after[MaxTurns].path
  BY DEF PathTo, SearchesOf, FirstSearch
<1> HIDE DEF after
<1>4. after[0] = first
  BY <1>1, <1>2 DEF SearchesOf
<1>5. \A n \in 0 .. MaxTurns : n < MaxTurns => after[n + 1] = SearchStep(d, after[n])
  <2> SUFFICES ASSUME NEW n \in 0 .. MaxTurns, n < MaxTurns
               PROVE  after[n + 1] = SearchStep(d, after[n])
    OBVIOUS
  <2>1. n + 1 \in 0 .. MaxTurns /\ n + 1 # 0 /\ (n + 1) - 1 = n
    BY <1>1
  <2> QED BY <1>2, <2>1 DEF SearchesOf
<1>6. 0 \in S
  <2> DEFINE t == <<[node |-> Root, child |-> 1]>>
             a == <<0>>
  <2>1. Descends(d.kids)
    BY DEF IsTree
  <2>2. Stands(d.kids, t, a) /\ Here(d.kids, t, a) = 0
    BY <2>1, StandStart
  <2>3. t \in Seq(Steps) /\ Len(t) = 1 /\ t[1].node = Root /\ a[1] = 0
    <3>1. [node |-> Root, child |-> 1] \in Steps
      BY NodesAssumption DEF Steps
    <3> QED BY <3>1
  <2>4. Moves(d.kids, t, 1)
    BY <2>1, <2>2, MovesStart
  <2> HIDE DEF t, a
  <2>5. first = [path |-> t, togo |-> i]
    BY DEF FirstSearch, t
  <2> HIDE DEF first
  <2>6. first \in Searches /\ first.path = t /\ first.togo = i
    BY <2>3, <2>5 DEF Searches
  <2>7. Len(Leaves(d.kids, Root)) \in Nat
    <3>1. Leaves(d.kids, Root) \in Seq(Page)
      BY <2>1, LeavesTyped, NodesAssumption DEF Nodes
    <3> QED BY <3>1
  <2>8. Searching(d, first, i, a)
    <3> DEFINE n == Len(Leaves(d.kids, Root))
               h == Here(d.kids, t, a)
    <3>1. i < n /\ h = 0
      BY <2>2 DEF ThePages
    <3> HIDE DEF n, h
    <3>2. h + i = i /\ i < 0 + n
      BY <2>7, <3>1 DEF n
    <3>3. i < a[Len(t)] + Len(Leaves(d.kids, t[Len(t)].node))
      BY <2>3, <3>2 DEF n
    <3> QED BY <2>2, <2>6, <3>2, <3>3 DEF Searching, h
  <2>9. Under(first, 0)
    BY <2>4, <2>6, <2>8
  <2> HIDE DEF Done, Under
  <2> QED BY <1>1, <1>4, <2>6, <2>9
<1>7. ASSUME NEW n \in 0 .. MaxTurns, n \in S, n < MaxTurns
      PROVE  n + 1 \in S
  <2> DEFINE u == after[n]
             v == after[n + 1]
  <2>1. v = SearchStep(d, u) /\ n + 1 \in 0 .. MaxTurns /\ n + 1 \in Nat /\ u \in Searches
    BY <1>1, <1>5, <1>7
  <2>2. CASE Done(u) /\ SearchStep(d, u) = u
    <3>1. v = u
      BY <2>1, <2>2
    <3> HIDE DEF Done, Under
    <3> QED BY <2>1, <2>2, <3>1
  <2>3. CASE Under(u, n)
    <3>1. PICK at : Searching(d, u, i, at) /\ Moves(d.kids, u.path, n + 1)
      BY <2>3
    <3> HIDE DEF u, v
    <3>2. /\ SearchStep(d, u) \in Searches
          /\ \/ SearchStep(d, u) = u /\ Found(d.kids, u.path, at, i)
             \/ \E a : Searching(d, SearchStep(d, u), i, a)
                       /\ Moves(d.kids, SearchStep(d, u).path, (n + 1) + 1)
      BY <2>1, <3>1, SearchOn
    <3>3. v \in Searches
      BY <2>1, <3>2
    <3>4. (Done(v) /\ SearchStep(d, v) = v) \/ Under(v, n + 1)
      BY <2>1, <3>2
    <3> HIDE DEF Done, Under
    <3> QED BY <2>1, <3>3, <3>4 DEF v
  <2> HIDE DEF Done, Under
  <2> QED BY <1>7, <2>2, <2>3
<1> DEFINE v == after[MaxTurns]
<1>8. MaxTurns \in S
  <2> HIDE DEF S
  <2>1. 0 .. MaxTurns \subseteq S
    BY <1>1, <1>6, <1>7, UpToBound
  <2> QED BY <1>1, <2>1
<1>9. Done(v) \/ Under(v, MaxTurns)
  BY <1>8
<1>10. ~Under(v, MaxTurns)
  <2> SUFFICES ASSUME Moves(d.kids, v.path, MaxTurns + 1)
               PROVE  FALSE
    OBVIOUS
  <2>1. MaxTurns + 1 \in Nat
    BY <1>1
  <2>2. MaxTurns + 1 <= MaxTurns
    BY <2>1, MovesBound
  <2> QED BY <1>1, <2>2
<1> QED BY <1>3, <1>9, <1>10

(* The page found is that of index i.                                      *)
LEMMA FoundPage ==
    ASSUME NEW kids, Descends(kids), NEW trav, NEW at, NEW i, Found(kids, trav, at, i)
    PROVE  LET top == trav[Len(trav)]
           IN  /\ Last(trav) = top
               /\ kids[top.node][top.child] = Leaves(kids, Root)[i + 1]
               /\ i \in 0 .. Len(Leaves(kids, Root)) - 1
<1> DEFINE m == Len(trav)
           top == trav[m]
           kid == kids[top.node][top.child]
           here == Here(kids, trav, at)
           L == Leaves(kids, Root)
<1>1. Stands(kids, trav, at) /\ here = i /\ top.child \in DOMAIN kids[top.node] /\ kid \in Page
      /\ top.node \in Branch
  BY DEF Found
<1>2. Last(trav) = top /\ here \in Nat
  BY <1>1, StandsFacts
<1>3. top.child <= Len(kids[top.node])
  <2>1. DOMAIN kids[top.node] = 1 .. Len(kids[top.node])
    BY <1>1, TreeFacts
  <2> QED BY <1>1, <2>1
<1>4. Sits(kids, kid, here)
  BY <1>1, <1>2, <1>3, StandPast
<1>5. Leaves(kids, kid) = <<kid>> /\ Len(<<kid>>) = 1 /\ (<<kid>>)[1] = kid /\ 1 \in 1 .. 1
  BY <1>1, LeavesUnfold
<1>6. here + 1 <= Len(L) /\ L[here + 1] = kid
  <2> HIDE DEF here, L, kid
  <2> QED BY <1>4, <1>5 DEF Sits, L
<1>7. Len(L) \in Nat
  <2>1. L \in Seq(Page)
    BY LeavesTyped, NodesAssumption DEF Nodes
  <2> QED BY <2>1
<1> HIDE DEF here, L, kid, top
<1>8. i \in 0 .. Len(L) - 1
  BY <1>1, <1>2, <1>6, <1>7
<1> QED BY <1>1, <1>2, <1>6, <1>8 DEF L, kid, top

-----------------------------------------------------------------------------
(* An edit and the caches.                                                 *)

LEMMA CachedSplice ==
    ASSUME NEW list \in Seq(Page \cup {None}), NEW L, NEW M, NEW j, NEW p,
           Cached(list, L, {}), Spliced(L, M, j, p)
    PROVE  /\ InsertAt(list, j + 1, p) \in Seq(Page \cup {None})
           /\ Cached(InsertAt(list, j + 1, p), M, {})
<1> DEFINE S == Page \cup {None}
           n == Len(L)
           k == j + 1
           new == InsertAt(list, k, p)
<1>1. /\ L \in Seq(Page) /\ M \in Seq(Page) /\ p \in Page
      /\ n \in Nat /\ Len(M) = n + 1 /\ j \in 0 .. n
      /\ \A x \in 1 .. j : M[x] = L[x]
      /\ M[k] = p
      /\ \A x \in k .. n : M[x + 1] = L[x]
  BY DEF Spliced
<1>2. Len(list) = n /\ \A x \in 1 .. n : list[x] \in {None, L[x]}
  BY DEF Cached
<1>3. k \in 1 .. n + 1 /\ j = k - 1
  BY <1>1
<1>4. list \in Seq(S) /\ p \in S /\ k \in 1 .. Len(list) + 1
  BY <1>1, <1>2, <1>3
<1> HIDE DEF k, S
<1>5. /\ new \in Seq(S) /\ Len(new) = n + 1
      /\ \A x \in 1 .. k - 1 : new[x] = list[x]
      /\ new[k] = p
      /\ \A x \in k .. n : new[x + 1] = list[x]
  <2>1. /\ InsertAt(list, k, p) \in Seq(S) /\ Len(InsertAt(list, k, p)) = Len(list) + 1
        /\ \A x \in 1 .. k - 1 : InsertAt(list, k, p)[x] = list[x]
        /\ InsertAt(list, k, p)[k] = p
        /\ \A x \in k .. Len(list) : InsertAt(list, k, p)[x + 1] = list[x]
    BY <1>4, SplitAt
  <2> QED BY <1>2, <2>1
<1> HIDE DEF new, n
<1>6. ASSUME NEW x \in 1 .. n + 1
      PROVE  new[x] \in {None, M[x]}
  <2>1. CASE x < k
    <3>1. x \in 1 .. n /\ x \in 1 .. k - 1 /\ x \in 1 .. j
      BY <1>1, <1>3, <2>1
    <3> QED BY <1>1, <1>2, <1>5, <3>1
  <2>2. CASE x = k
    BY <1>1, <1>5, <2>2
  <2>3. CASE k < x
    <3>1. x - 1 \in k .. n /\ x - 1 \in 1 .. n /\ (x - 1) + 1 = x
      BY <1>1, <1>3, <2>3
    <3> QED BY <1>1, <1>2, <1>5, <3>1
  <2> QED BY <1>3, <2>1, <2>2, <2>3
<1> QED BY <1>1, <1>5, <1>6 DEF Cached, new, k, S

LEMMA CachedClose ==
    ASSUME NEW list \in Seq(Page \cup {None}), NEW L, NEW M, NEW j, NEW p,
           Cached(list, M, {}), Spliced(L, M, j, p)
    PROVE  /\ RemoveAt(list, j + 1) \in Seq(Page \cup {None})
           /\ Cached(RemoveAt(list, j + 1), L, {})
<1> DEFINE S == Page \cup {None}
           n == Len(L)
           k == j + 1
           new == RemoveAt(list, k)
<1>1. /\ L \in Seq(Page) /\ M \in Seq(Page) /\ p \in Page
      /\ n \in Nat /\ Len(M) = n + 1 /\ j \in 0 .. n
      /\ \A x \in 1 .. j : M[x] = L[x]
      /\ \A x \in k .. n : M[x + 1] = L[x]
  BY DEF Spliced
<1>2. Len(list) = n + 1 /\ \A x \in 1 .. n + 1 : list[x] \in {None, M[x]}
  BY <1>1 DEF Cached
<1>3. k \in 1 .. n + 1 /\ j = k - 1
  BY <1>1
<1>4. list \in Seq(S) /\ k \in 1 .. Len(list)
  BY <1>1, <1>2, <1>3
<1> HIDE DEF k, S
<1>5. /\ new \in Seq(S) /\ Len(new) = n
      /\ \A x \in 1 .. k - 1 : list[x] = new[x]
      /\ \A x \in k .. n : list[x + 1] = new[x]
  <2>1. /\ new \in Seq(S) /\ Len(list) = Len(new) + 1
        /\ \A x \in 1 .. k - 1 : list[x] = new[x]
        /\ \A x \in k .. Len(new) : list[x + 1] = new[x]
    BY <1>4, CloseAt
  <2> HIDE DEF new
  <2>2. Len(new) \in Nat
    BY <2>1
  <2>3. Len(new) = n
    <3> DEFINE x == Len(new)
    <3>1. x \in Nat /\ n + 1 = x + 1
      BY <1>2, <2>1, <2>2
    <3> HIDE DEF x, n
    <3> QED BY <1>1, <3>1 DEF x
  <2> QED BY <2>1, <2>3
<1> HIDE DEF new, n
<1>6. ASSUME NEW x \in 1 .. n
      PROVE  new[x] \in {None, L[x]}
  <2>1. CASE x < k
    <3>1. x \in 1 .. n + 1 /\ x \in 1 .. k - 1 /\ x \in 1 .. j
      BY <1>1, <1>3, <2>1
    <3> QED BY <1>1, <1>2, <1>5, <3>1
  <2>2. CASE k <= x
    <3>1. x + 1 \in 1 .. n + 1 /\ x \in k .. n
      BY <1>1, <1>3, <2>2
    <3> QED BY <1>1, <1>2, <1>5, <3>1
  <2> QED BY <1>3, <2>1, <2>2
<1> QED BY <1>1, <1>5, <1>6 DEF Cached, new, k, S, n

(* The nodes a stack goes through.                                         *)
Trail(trav) == {trav[n].node : n \in 1 .. Len(trav)}

Edited(kids, count, parent, list) ==
    [ kids |-> kids, count |-> count, parent |-> parent, list |-> list,
      trav |-> <<>>, next |-> 0 ]

LEMMA EditedTyped ==
    ASSUME NEW kids \in Kids, NEW count \in [Branch -> Nat],
           NEW parent \in [Page -> Branch \cup {None}], NEW list \in Seq(Page \cup {None})
    PROVE  Edited(kids, count, parent, list) \in DocType
<1> DEFINE none == <<>>
<1>1. none \in Seq([node : Branch, child : Nat \ {0}])
  OBVIOUS
<1> HIDE DEF none
<1>2. [kids |-> kids, count |-> count, parent |-> parent, list |-> list,
       trav |-> none, next |-> 0] \in DocType
  BY <1>1 DEF DocType, Kids, Nodes
<1> QED BY <1>2 DEF Edited, none

(* The counts with n more for the nodes of a stack.                        *)
Counted(d, trav, n) ==
    [x \in Branch |-> d.count[x] + (IF x \in Trail(trav) THEN n ELSE 0)]

(* What is left is a document with a page more, or one page less.          *)
Inserted(d, e, i, p) == Good(e) /\ ThePages(e) = InsertAt(ThePages(d), i + 1, p)
Deleted(d, e, i)     == Good(e) /\ ThePages(e) = RemoveAt(ThePages(d), i + 1)

LEMMA GrowGood ==
    ASSUME NEW d, Good(d), NEW kids, NEW b, NEW k, NEW p, Grown(d.kids, kids, b, k, p),
           NEW trav, NEW at, Stands(d.kids, trav, at),
           trav[Len(trav)].node = b, trav[Len(trav)].child = k,
           p \notin ToSet(ThePages(d)),
           NEW count, count = Counted(d, trav, 1),
           NEW parent, parent = [d.parent EXCEPT ![p] = b],
           NEW here, here = Here(d.kids, trav, at)
    PROVE  Inserted(d, Edited(kids, count, parent, InsertAt(d.list, here + 1, p)), here, p)
<1> DEFINE place == here + 1
           list == InsertAt(d.list, place, p)
           e == Edited(kids, count, parent, list)
<1>1. /\ d \in DocType /\ IsTree(d.kids) /\ Cached(d.list, ThePages(d), {})
      /\ CountsRight(d) /\ ParentsRight(d)
  BY DEF Good
<1>2. b \in Branch /\ p \in Page /\ kids \in Kids
  BY DEF Grown
<1> DEFINE K == d.kids
           Ks == {K, kids}
<1>3. IsTree(kids) /\ Spliced(ThePages(d), Leaves(kids, Root), here, p)
  <2>1. K \in Ks /\ IsTree(K) /\ Stands(K, trav, at) /\ Grown(K, kids, b, k, p)
        /\ (K = K => p \notin ToSet(Leaves(K, Root)))
    BY <1>1 DEF ThePages
  <2>2. IsTree(kids) /\ Spliced(Leaves(K, Root), Leaves(kids, Root), Here(K, trav, at), p)
    <3> HIDE DEF K
    <3> QED BY <2>1, GrownTree DEF Ks
  <2> QED BY <2>2 DEF ThePages
<1>4. /\ \A x \in Branch : x \in Trail(trav) =>
             \E j : Spliced(Leaves(d.kids, x), Leaves(kids, x), j, p)
      /\ \A x \in Branch : x \notin Trail(trav) => Leaves(kids, x) = Leaves(d.kids, x)
  <2>1. K \in Ks /\ IsTree(K) /\ Stands(K, trav, at) /\ Grown(K, kids, b, k, p)
    BY <1>1
  <2>2. /\ \A n \in 1 .. Len(trav) :
             Spliced(Leaves(K, trav[n].node), Leaves(kids, trav[n].node),
                     Here(K, trav, at) - at[n], p)
        /\ \A x \in Branch :
             (\A n \in 1 .. Len(trav) : trav[n].node # x) => Leaves(kids, x) = Leaves(K, x)
    <3> HIDE DEF K
    <3> QED BY <2>1, GrownLeaves DEF Ks
  <2> QED BY <2>2 DEF Trail
<1> HIDE DEF Ks, K
<1>5. /\ list \in Seq(Page \cup {None}) /\ Cached(list, Leaves(kids, Root), {})
      /\ Leaves(kids, Root) = InsertAt(ThePages(d), place, p)
  <2>1. d.list \in Seq(Page \cup {None})
    BY <1>1 DEF DocType
  <2>2. Leaves(kids, Root) = InsertAt(ThePages(d), here + 1, p)
    BY <1>3, SplicedIs
  <2>3. /\ InsertAt(d.list, here + 1, p) \in Seq(Page \cup {None})
        /\ Cached(InsertAt(d.list, here + 1, p), Leaves(kids, Root), {})
    BY <1>1, <1>3, <2>1, CachedSplice
  <2> QED BY <2>2, <2>3
<1> HIDE DEF list, place
<1>6. count \in [Branch -> Nat] /\ parent \in [Page -> Branch \cup {None}]
  <2>1. d.count \in [Branch -> Nat] /\ d.parent \in [Page -> Branch \cup {None}]
    BY <1>1 DEF DocType
  <2> QED BY <1>2, <2>1 DEF Counted
<1>7. \A x \in Branch : count[x] = Len(Leaves(kids, x))
  <2> SUFFICES ASSUME NEW x \in Branch
               PROVE  count[x] = Len(Leaves(kids, x))
    OBVIOUS
  <2>1. d.count[x] = Len(Leaves(d.kids, x))
    BY <1>1 DEF CountsRight
  <2>2. d.count[x] \in Nat /\ count[x] = d.count[x] + (IF x \in Trail(trav) THEN 1 ELSE 0)
    BY <1>1 DEF DocType, Counted
  <2>3. CASE x \in Trail(trav)
    <3>1. Len(Leaves(kids, x)) = Len(Leaves(d.kids, x)) + 1
      BY <1>4, <2>3 DEF Spliced
    <3> QED BY <2>1, <2>2, <2>3, <3>1
  <2>4. CASE x \notin Trail(trav)
    <3>1. Leaves(kids, x) = Leaves(d.kids, x)
      BY <1>4, <2>4
    <3> QED BY <2>1, <2>2, <2>4, <3>1
  <2> QED BY <2>3, <2>4
<1>8. ASSUME NEW x \in Branch, NEW q \in ToSet(kids[x]) \cap Page
      PROVE  parent[q] = x
  <2>1. d.parent \in [Page -> Branch \cup {None}]
    BY <1>1 DEF DocType
  <2>2. CASE q = p
    <3>1. PICK j \in DOMAIN kids[x] : kids[x][j] = p
      BY <2>2 DEF ToSet
    <3>2. k \in DOMAIN kids[b] /\ kids[b][k] = p
      <4>1. k \in 1 .. Len(d.kids[b]) + 1 /\ DOMAIN kids[b] = 1 .. Len(d.kids[b]) + 1
        BY GrownFacts
      <4> QED BY <4>1 DEF Grown
    <3>3. x = b
      BY <1>2, <1>3, <3>1, <3>2 DEF IsTree
    <3> QED BY <1>2, <2>1, <2>2, <3>3
  <2>3. CASE q # p
    <3>1. q \in ToSet(d.kids[x])
      BY <2>3, GrownKids
    <3>2. d.parent[q] = x
      BY <1>1, <3>1 DEF ParentsRight
    <3> QED BY <2>1, <2>3, <3>2
  <2> QED BY <2>2, <2>3
<1>9. e \in DocType
  BY <1>2, <1>5, <1>6, EditedTyped
<1>10. /\ e.kids = kids /\ e.count = count /\ e.parent = parent /\ e.list = list
       /\ e.trav = <<>> /\ e.next = 0
  BY DEF Edited
<1> HIDE DEF e
<1>11. ThePages(e) = Leaves(kids, Root)
  BY <1>10 DEF ThePages
<1>12. Good(e)
  BY <1>3, <1>5, <1>7, <1>8, <1>9, <1>10, <1>11 DEF Good, CountsRight, ParentsRight, InStep
<1>13. Good(e) /\ ThePages(e) = InsertAt(ThePages(d), place, p)
  BY <1>5, <1>11, <1>12
<1> QED BY <1>13 DEF e, list, place, Inserted

LEMMA ShrinkGood ==
    ASSUME NEW d, Good(d), NEW kids, NEW b, NEW k, NEW p, Grown(kids, d.kids, b, k, p),
           NEW trav, NEW at, Stands(d.kids, trav, at),
           trav[Len(trav)].node = b, trav[Len(trav)].child = k,
           NEW count, count = Counted(d, trav, -1),
           NEW here, here = Here(d.kids, trav, at)
    PROVE  Deleted(d, Edited(kids, count, d.parent, RemoveAt(d.list, here + 1)), here)
<1> DEFINE place == here + 1
           parent == d.parent
           list == RemoveAt(d.list, place)
           e == Edited(kids, count, parent, list)
<1>1. /\ d \in DocType /\ IsTree(d.kids) /\ Cached(d.list, ThePages(d), {})
      /\ CountsRight(d) /\ ParentsRight(d)
  BY DEF Good
<1>2. b \in Branch /\ p \in Page /\ kids \in Kids
  BY DEF Grown
<1> DEFINE K == d.kids
           Ks == {kids, K}
<1>3. IsTree(kids) /\ Spliced(Leaves(kids, Root), ThePages(d), here, p)
  <2>1. K \in Ks /\ IsTree(K) /\ Stands(K, trav, at) /\ Grown(kids, K, b, k, p)
    BY <1>1
  <2>2. K = kids => p \notin ToSet(Leaves(kids, Root))
    <3>1. K # kids
      BY <2>1 DEF Grown
    <3> QED BY <3>1
  <2>3. IsTree(kids) /\ Spliced(Leaves(kids, Root), Leaves(K, Root), Here(K, trav, at), p)
    <3> HIDE DEF K
    <3> QED BY <2>1, <2>2, GrownTree DEF Ks
  <2> QED BY <2>3 DEF ThePages
<1>4. /\ \A x \in Branch : x \in Trail(trav) =>
             \E j : Spliced(Leaves(kids, x), Leaves(d.kids, x), j, p)
      /\ \A x \in Branch : x \notin Trail(trav) => Leaves(d.kids, x) = Leaves(kids, x)
  <2>1. K \in Ks /\ IsTree(K) /\ Stands(K, trav, at) /\ Grown(kids, K, b, k, p)
    BY <1>1
  <2>2. /\ \A n \in 1 .. Len(trav) :
             Spliced(Leaves(kids, trav[n].node), Leaves(K, trav[n].node),
                     Here(K, trav, at) - at[n], p)
        /\ \A x \in Branch :
             (\A n \in 1 .. Len(trav) : trav[n].node # x) => Leaves(K, x) = Leaves(kids, x)
    <3> HIDE DEF K
    <3> QED BY <2>1, GrownLeaves DEF Ks
  <2> QED BY <2>2 DEF Trail
<1> HIDE DEF Ks, K
<1>5. /\ list \in Seq(Page \cup {None}) /\ Cached(list, Leaves(kids, Root), {})
      /\ Leaves(kids, Root) = RemoveAt(ThePages(d), place)
  <2>1. d.list \in Seq(Page \cup {None})
    BY <1>1 DEF DocType
  <2>2. Leaves(kids, Root) = RemoveAt(ThePages(d), here + 1)
    BY <1>3, SplicedIs
  <2>3. /\ RemoveAt(d.list, here + 1) \in Seq(Page \cup {None})
        /\ Cached(RemoveAt(d.list, here + 1), Leaves(kids, Root), {})
    BY <1>1, <1>3, <2>1, CachedClose
  <2> QED BY <2>2, <2>3
<1> HIDE DEF list, place
<1>6. parent \in [Page -> Branch \cup {None}]
  BY <1>1 DEF DocType
<1>7. \A x \in Branch : count[x] = Len(Leaves(kids, x)) /\ count[x] \in Nat
  <2> SUFFICES ASSUME NEW x \in Branch
               PROVE  count[x] = Len(Leaves(kids, x)) /\ count[x] \in Nat
    OBVIOUS
  <2>1. d.count[x] = Len(Leaves(d.kids, x))
    BY <1>1 DEF CountsRight
  <2>2. d.count[x] \in Nat /\ count[x] = d.count[x] + (IF x \in Trail(trav) THEN -1 ELSE 0)
    BY <1>1 DEF DocType, Counted
  <2>3. CASE x \in Trail(trav)
    <3>1. Len(Leaves(d.kids, x)) = Len(Leaves(kids, x)) + 1 /\ Leaves(kids, x) \in Seq(Page)
      BY <1>4, <2>3 DEF Spliced
    <3>2. Len(Leaves(kids, x)) \in Nat
      BY <3>1
    <3>3. count[x] = d.count[x] + -1
      BY <2>2, <2>3
    <3> QED BY <2>1, <2>2, <3>1, <3>2, <3>3
  <2>4. CASE x \notin Trail(trav)
    <3>1. Leaves(kids, x) = Leaves(d.kids, x)
      BY <1>4, <2>4
    <3> QED BY <2>1, <2>2, <2>4, <3>1
  <2> QED BY <2>3, <2>4
<1>8. count \in [Branch -> Nat]
  BY <1>7 DEF Counted
<1>9. ASSUME NEW x \in Branch, NEW q \in ToSet(kids[x]) \cap Page
      PROVE  parent[q] = x
  <2>1. q \in ToSet(d.kids[x])
    BY GrownKids
  <2> QED BY <1>1, <2>1 DEF ParentsRight
<1> HIDE DEF parent
<1>10. e \in DocType
  BY <1>2, <1>5, <1>6, <1>8, EditedTyped
<1>11. /\ e.kids = kids /\ e.count = count /\ e.parent = parent /\ e.list = list
       /\ e.trav = <<>> /\ e.next = 0
  BY DEF Edited
<1> HIDE DEF e
<1>12. ThePages(e) = Leaves(kids, Root)
  BY <1>11 DEF ThePages
<1>13. Good(e)
  BY <1>3, <1>5, <1>7, <1>9, <1>10, <1>11, <1>12 DEF Good, CountsRight, ParentsRight, InStep
<1>14. Good(e) /\ ThePages(e) = RemoveAt(ThePages(d), place)
  BY <1>5, <1>12, <1>13
<1> QED BY <1>14 DEF e, list, parent, place, Deleted

(* A document with other fields.                                           *)
DocOf(kids, count, parent, list, trav, next) ==
    [kids |-> kids, count |-> count, parent |-> parent, list |-> list, trav |-> trav, next |-> next]

LEMMA CountedIn ==
    ASSUME NEW kids, NEW count, NEW parent, NEW list, NEW trav, NEW next, NEW S, NEW page
    PROVE  AddToCount(DocOf(kids, count, parent, list, trav, next), S, page)
             = DocOf(kids, [b \in Branch |-> IF b \in S THEN count[b] + (IF page = None THEN -1 ELSE 1)
                                             ELSE count[b]], parent, list, trav, next)
<1> DEFINE d == DocOf(kids, count, parent, list, trav, next)
           new == [b \in Branch |-> IF b \in S THEN count[b] + (IF page = None THEN -1 ELSE 1)
                                             ELSE count[b]]
<1>1. d.count = count
  BY DEF DocOf
<1>2. AddToCount(d, S, page) = [d EXCEPT !.count = new]
  <2> HIDE DEF d
  <2> QED BY <1>1 DEF AddToCount
<1> HIDE DEF new
<1>3. [d EXCEPT !.count = new] = DocOf(kids, new, parent, list, trav, next)
  BY DEF DocOf
<1> QED BY <1>2, <1>3 DEF new

LEMMA ResetIn ==
    ASSUME NEW kids, NEW count, NEW parent, NEW list, NEW trav, NEW next
    PROVE  ResetTraversal(DocOf(kids, count, parent, list, trav, next))
             = Edited(kids, count, parent, list)
<1> DEFINE none == <<>>
           d == DocOf(kids, count, parent, list, trav, next)
<1>1. ResetTraversal(d) = [d EXCEPT !.trav = none, !.next = 0]
  BY DEF ResetTraversal
<1>2. Edited(kids, count, parent, list) = DocOf(kids, count, parent, list, none, 0)
  BY DEF Edited, DocOf
<1> HIDE DEF none
<1>3. [d EXCEPT !.trav = none] = DocOf(kids, count, parent, list, none, next)
  BY DEF DocOf
<1>4. [DocOf(kids, count, parent, list, none, next) EXCEPT !.next = 0] = DocOf(kids, count, parent, list, none, 0)
  BY DEF DocOf
<1>5. [d EXCEPT !.trav = none, !.next = 0] = [[d EXCEPT !.trav = none] EXCEPT !.next = 0]
  OBVIOUS
<1> QED BY <1>1, <1>2, <1>3, <1>4, <1>5
LEMMA DocIs ==
    ASSUME NEW d \in DocType
    PROVE  d = DocOf(d.kids, d.count, d.parent, d.list, d.trav, d.next)
BY DEF DocType, DocOf

LEMMA KidsIn ==
    ASSUME NEW kids, NEW count, NEW parent, NEW list, NEW trav, NEW next, NEW new
    PROVE  [DocOf(kids, count, parent, list, trav, next) EXCEPT !.kids = new]
             = DocOf(new, count, parent, list, trav, next)
BY DEF DocOf

LEMMA InsertIn ==
    ASSUME NEW d \in DocType, NEW b, NEW k, NEW page
    PROVE  [d EXCEPT !.kids[b] = InsertAt(@, k, page), !.parent[page] = b]
             = DocOf([d.kids EXCEPT ![b] = InsertAt(@, k, page)], d.count,
                     [d.parent EXCEPT ![page] = b], d.list, d.trav, d.next)
<1> DEFINE x == [d.kids EXCEPT ![b] = InsertAt(@, k, page)]
           y == [d.parent EXCEPT ![page] = b]
<1>1. [d EXCEPT !.kids[b] = InsertAt(@, k, page), !.parent[page] = b]
        = [d EXCEPT !.kids = x, !.parent = y]
  OBVIOUS
<1> HIDE DEF x, y
<1>2. [d EXCEPT !.kids = x] = DocOf(x, d.count, d.parent, d.list, d.trav, d.next)
  BY DocIs, KidsIn
<1>3. [DocOf(x, d.count, d.parent, d.list, d.trav, d.next) EXCEPT !.parent = y]
        = DocOf(x, d.count, y, d.list, d.trav, d.next)
  BY DEF DocOf
<1>4. [d EXCEPT !.kids = x, !.parent = y] = [[d EXCEPT !.kids = x] EXCEPT !.parent = y]
  OBVIOUS
<1> QED BY <1>1, <1>2, <1>3, <1>4 DEF x, y

LEMMA RemoveIn ==
    ASSUME NEW d \in DocType, NEW b, NEW k
    PROVE  [d EXCEPT !.kids[b] = RemoveAt(@, k)]
             = DocOf([d.kids EXCEPT ![b] = RemoveAt(@, k)], d.count,
                     d.parent, d.list, d.trav, d.next)
<1> DEFINE x == [d.kids EXCEPT ![b] = RemoveAt(@, k)]
<1>1. [d EXCEPT !.kids[b] = RemoveAt(@, k)] = [d EXCEPT !.kids = x]
  OBVIOUS
<1> HIDE DEF x
<1>2. [d EXCEPT !.kids = x] = DocOf(x, d.count, d.parent, d.list, d.trav, d.next)
  BY DocIs, KidsIn
<1> QED BY <1>1, <1>2 DEF x

LEMMA ListedIn ==
    ASSUME NEW kids, NEW count, NEW parent, NEW list, NEW new
    PROVE  [Edited(kids, count, parent, list) EXCEPT !.list = new]
             = Edited(kids, count, parent, new)
<1> DEFINE none == <<>>
<1>1. \A l : Edited(kids, count, parent, l) = DocOf(kids, count, parent, l, none, 0)
  BY DEF Edited, DocOf
<1> HIDE DEF none
<1>2. [DocOf(kids, count, parent, list, none, 0) EXCEPT !.list = new]
        = DocOf(kids, count, parent, new, none, 0)
  BY DEF DocOf
<1> QED BY <1>1, <1>2

(* What InsertDeletePDFPage does to the document.                          *)
LEMMA EditIs ==
    ASSUME NEW d, Good(d), NEW page \in Page \cup {None},
           NEW i \in Nat, i < Len(ThePages(d)), NEW at, Found(d.kids, PathTo(d, i), at, i)
    PROVE  LET path  == PathTo(d, i)
               top   == path[Len(path)]
               count == Counted(d, path, IF page = None THEN -1 ELSE 1)
               e     == InsertDelete(d, i, page)
           IN  /\ page = None =>
                    e = Edited([d.kids EXCEPT ![top.node] = RemoveAt(@, top.child)], count,
                               d.parent, d.list)
               /\ page # None =>
                    e = Edited([d.kids EXCEPT ![top.node] = InsertAt(@, top.child, page)], count,
                               [d.parent EXCEPT ![page] = top.node], d.list)
<1> DEFINE path == PathTo(d, i)
           m == Len(path)
           top == path[m]
           b == top.node
           k == top.child
           one == IF page = None THEN -1 ELSE 1
           callers == {path[n].node : n \in 1 .. m - 1}
           count == Counted(d, path, one)
           removed == [d.kids EXCEPT ![b] = RemoveAt(@, k)]
           inserted == [d.kids EXCEPT ![b] = InsertAt(@, k, page)]
           kids == IF page = None THEN removed ELSE inserted
           parent == IF page = None THEN d.parent ELSE [d.parent EXCEPT ![page] = b]
           e == InsertDelete(d, i, page)
<1>1. d \in DocType /\ IsTree(d.kids) /\ Descends(d.kids)
  BY GoodFacts DEF Good
<1>2. /\ Stands(d.kids, path, at) /\ k \in DOMAIN d.kids[b] /\ b \in Branch /\ Last(path) = top
  BY <1>1, FoundPage DEF Found
<1>3. k <= Len(d.kids[b])
  <2>1. DOMAIN d.kids[b] = 1 .. Len(d.kids[b])
    BY <1>1, <1>2, TreeFacts
  <2> HIDE DEF k
  <2> QED BY <1>2, <2>1
<1>4. m \in Nat /\ m > 0
  BY <1>1, <1>2, StandsFacts
<1>5. \A l, n \in 1 .. m : path[l].node = path[n].node => l = n
  BY <1>1, <1>2, StackDistinct
<1>6. b \notin callers /\ Trail(path) = callers \cup {b}
  <2>1. b \notin callers
    <3> SUFFICES ASSUME NEW n \in 1 .. m - 1, path[n].node = b
                 PROVE  FALSE
      OBVIOUS
    <3>1. n \in 1 .. m /\ m \in 1 .. m
      BY <1>4
    <3>2. n = m
      BY <1>5, <3>1
    <3> HIDE DEF m
    <3> QED BY <1>4, <3>2
  <2>2. \A n \in 1 .. m : n = m \/ n \in 1 .. m - 1
    BY <1>4
  <2>3. m \in 1 .. m /\ \A n \in 1 .. m - 1 : n \in 1 .. m
    BY <1>4
  <2>4. ASSUME NEW x
        PROVE  x \in Trail(path) <=> x \in callers \cup {b}
    <3> HIDE DEF m
    <3> QED BY <2>2, <2>3 DEF Trail, m
  <2> QED BY <2>1, <2>4
<1>7. e = AddToCount(EditAt(d, top, page), callers, page)
  <2> HIDE DEF path, callers
  <2>1. top.child <= Len(d.kids[top.node])
    BY <1>3
  <2> HIDE DEF top
  <2> QED BY <1>2, <2>1 DEF InsertDelete, path, m, callers
<1> HIDE DEF path, callers, e, m
<1> DEFINE mid == [x \in Branch |-> IF x \in {b} THEN d.count[x] + one ELSE d.count[x]]
<1> HIDE DEF top
<1>8. EditAt(d, top, page) = Edited(kids, mid, parent, d.list)
  <2>1. CASE page = None
    <3>1. EditAt(d, top, page)
            = ResetTraversal(AddToCount([d EXCEPT !.kids[b] = RemoveAt(@, k)], {b}, page))
      BY <2>1 DEF EditAt
    <3>2. [d EXCEPT !.kids[b] = RemoveAt(@, k)]
            = DocOf(removed, d.count, d.parent, d.list, d.trav, d.next)
      <4> HIDE DEF b, k
      <4> QED BY <1>1, RemoveIn
    <3> HIDE DEF removed
    <3>3. AddToCount(DocOf(removed, d.count, d.parent, d.list, d.trav, d.next), {b}, page)
            = DocOf(removed, mid, d.parent, d.list, d.trav, d.next)
      BY CountedIn
    <3> HIDE DEF mid
    <3>4. EditAt(d, top, page) = Edited(removed, mid, d.parent, d.list)
      BY <3>1, <3>2, <3>3, ResetIn
    <3> QED BY <2>1, <3>4
  <2>2. CASE page # None
    <3>1. EditAt(d, top, page)
            = ResetTraversal(AddToCount([d EXCEPT !.kids[b] = InsertAt(@, k, page),
                                                  !.parent[page] = b], {b}, page))
      BY <2>2 DEF EditAt
    <3> DEFINE known == [d.parent EXCEPT ![page] = b]
    <3>2. [d EXCEPT !.kids[b] = InsertAt(@, k, page), !.parent[page] = b]
            = DocOf(inserted, d.count, known, d.list, d.trav, d.next)
      <4> HIDE DEF b, k
      <4> QED BY <1>1, InsertIn
    <3> HIDE DEF inserted, known
    <3>3. AddToCount(DocOf(inserted, d.count, known, d.list, d.trav, d.next), {b}, page)
            = DocOf(inserted, mid, known, d.list, d.trav, d.next)
      BY CountedIn
    <3> HIDE DEF mid
    <3>4. EditAt(d, top, page) = Edited(inserted, mid, known, d.list)
      BY <3>1, <3>2, <3>3, ResetIn
    <3> QED BY <2>2, <3>4 DEF known
  <2> QED BY <2>1, <2>2
<1> HIDE DEF kids, parent
<1>9. e = Edited(kids, count, parent, d.list)
  <2>1. e = Edited(kids, [x \in Branch |-> IF x \in callers THEN mid[x] + one ELSE mid[x]],
                   parent, d.list)
    <3> HIDE DEF mid
    <3> QED BY <1>7, <1>8 DEF AddToCount, Edited
  <2>2. ASSUME NEW x \in Branch
        PROVE  (IF x \in callers THEN mid[x] + one ELSE mid[x]) = count[x]
    <3>1. d.count[x] \in Int /\ one \in Int
      BY <1>1 DEF DocType
    <3> HIDE DEF one
    <3> QED BY <1>6, <3>1 DEF Counted
  <2>3. [x \in Branch |-> IF x \in callers THEN mid[x] + one ELSE mid[x]] = count
    BY <2>2 DEF Counted
  <2> QED BY <2>1, <2>3
<1> HIDE DEF count
<1> QED BY <1>9 DEF e, kids, parent, count, path, top, m

LEMMA AppendIn ==
    ASSUME NEW d \in DocType, NEW n, NEW page
    PROVE  [d EXCEPT !.kids[Root] = Append(@, page), !.count[Root] = n, !.parent[page] = Root]
             = DocOf([d.kids EXCEPT ![Root] = Append(@, page)], [d.count EXCEPT ![Root] = n],
                     [d.parent EXCEPT ![page] = Root], d.list, d.trav, d.next)
<1> DEFINE x == [d.kids EXCEPT ![Root] = Append(@, page)]
           y == [d.count EXCEPT ![Root] = n]
           z == [d.parent EXCEPT ![page] = Root]
<1>1. [d EXCEPT !.kids[Root] = Append(@, page), !.count[Root] = n, !.parent[page] = Root]
        = [d EXCEPT !.kids = x, !.count = y, !.parent = z]
  OBVIOUS
<1> HIDE DEF x, y, z
<1>2. [d EXCEPT !.kids = x] = DocOf(x, d.count, d.parent, d.list, d.trav, d.next)
  BY DocIs, KidsIn
<1>3. [DocOf(x, d.count, d.parent, d.list, d.trav, d.next) EXCEPT !.count = y]
        = DocOf(x, y, d.parent, d.list, d.trav, d.next)
  BY DEF DocOf
<1>4. [DocOf(x, y, d.parent, d.list, d.trav, d.next) EXCEPT !.parent = z]
        = DocOf(x, y, z, d.list, d.trav, d.next)
  BY DEF DocOf
<1>5. [d EXCEPT !.kids = x, !.count = y, !.parent = z]
        = [[[d EXCEPT !.kids = x] EXCEPT !.count = y] EXCEPT !.parent = z]
  OBVIOUS
<1> QED BY <1>1, <1>2, <1>3, <1>4, <1>5 DEF x, y, z

LEMMA AtTheEnd ==
    ASSUME NEW S, NEW s \in Seq(S), NEW e \in S
    PROVE  Append(s, e) = InsertAt(s, Len(s) + 1, e)
<1> DEFINE n == Len(s)
           t == Append(s, e)
           u == InsertAt(s, n + 1, e)
<1>1. n \in Nat /\ n + 1 \in 1 .. n + 1
  OBVIOUS
<1>2. /\ t \in Seq(S) /\ Len(t) = n + 1 /\ t[n + 1] = e
      /\ \A j \in 1 .. n : t[j] = s[j]
  OBVIOUS
<1>3. /\ u \in Seq(S) /\ Len(u) = n + 1
      /\ \A j \in 1 .. (n + 1) - 1 : u[j] = s[j]
      /\ u[n + 1] = e
  BY <1>1, SplitAt
<1> HIDE DEF t, u, n
<1>4. ASSUME NEW x \in 1 .. n + 1
      PROVE  t[x] = u[x]
  <2>1. CASE x = n + 1
    BY <1>2, <1>3, <2>1
  <2>2. CASE x # n + 1
    <3>1. x \in 1 .. n /\ x \in 1 .. (n + 1) - 1
      BY <1>1, <2>2
    <3> QED BY <1>2, <1>3, <3>1
  <2> QED BY <2>1, <2>2
<1>5. t = u
  BY <1>2, <1>3, <1>4, SameSeq
<1> QED BY <1>5 DEF t, u, n

(* CreateNewPage inserts a page in the tree and in its caches.             *)
LEMMA InsertGood ==
    ASSUME NEW d, Good(d), NEW i \in 0 .. Len(ThePages(d)), NEW page \in Page,
           page \notin ToSet(ThePages(d))
    PROVE  Inserted(d, InsertNewPage(d, i, page), i, page)
<1> DEFINE L == ThePages(d)
           n == Len(L)
           e == InsertNewPage(d, i, page)
           list == InsertAt(d.list, i + 1, page)
<1>1. /\ d \in DocType /\ IsTree(d.kids) /\ CountsRight(d)
      /\ Len(d.list) = n /\ n \in Nat /\ d.kids \in Kids /\ Descends(d.kids)
  BY GoodFacts DEF Good
<1>2. page # None
  BY NodesAssumption
<1>3. CASE i # n
  <2> DEFINE path == PathTo(d, i)
             top == path[Len(path)]
             kids == [d.kids EXCEPT ![top.node] = InsertAt(@, top.child, page)]
             count == Counted(d, path, 1)
             parent == [d.parent EXCEPT ![page] = top.node]
  <2>1. i \in Nat /\ i < n
    BY <1>1, <1>3
  <2>2. PICK at : Found(d.kids, path, at, i)
    BY <1>1, <2>1, PathRight
  <2>3. InsertDelete(d, i, page) = Edited(kids, count, parent, d.list)
    <3> DEFINE long == Counted(d, path, IF page = None THEN -1 ELSE 1)
    <3>1. long = count
      BY <1>2
    <3>2. InsertDelete(d, i, page) = Edited(kids, long, parent, d.list)
      <4>1. page \in Page \cup {None}
        OBVIOUS
      <4> QED BY <1>2, <2>1, <2>2, <4>1, EditIs
    <3> HIDE DEF long, count
    <3> QED BY <3>1, <3>2
  <2>4. e = Edited(kids, count, parent, list)
    <3> DEFINE tree == InsertDelete(d, i, page)
    <3>1. e = [tree EXCEPT !.list = InsertAt(@, i + 1, page)]
      BY <1>1, <1>3 DEF InsertNewPage
    <3> HIDE DEF kids, count, parent, path, top
    <3>2. tree.list = d.list
      BY <2>3 DEF Edited
    <3>3. e = [tree EXCEPT !.list = list]
      BY <3>1, <3>2
    <3> HIDE DEF e, list
    <3> QED BY <2>3, <3>3, ListedIn
  <2>5. /\ Stands(d.kids, path, at) /\ Here(d.kids, path, at) = i
        /\ top.node \in Branch /\ top.child \in DOMAIN d.kids[top.node]
    BY <2>2 DEF Found
  <2>6. Grown(d.kids, kids, top.node, top.child, page)
    <3>1. top.child \in 1 .. Len(d.kids[top.node]) + 1
      <4>1. DOMAIN d.kids[top.node] = 1 .. Len(d.kids[top.node]) /\ Len(d.kids[top.node]) \in Nat
        BY <1>1, <2>5, TreeFacts
      <4> DEFINE c == top.child
                 l == Len(d.kids[top.node])
      <4>2. l \in Nat /\ c \in 1 .. l
        BY <2>5, <4>1
      <4> HIDE DEF c, l
      <4>3. c \in 1 .. l + 1
        BY <4>2
      <4> QED BY <4>3 DEF c, l
    <3> QED BY <1>1, <2>5, <3>1, GrownInsert
  <2> HIDE DEF path
  <2> DEFINE b == top.node
             k == top.child
             here == Here(d.kids, path, at)
             g == Edited(kids, count, parent, InsertAt(d.list, here + 1, page))
  <2>7. Good(g) /\ ThePages(g) = InsertAt(ThePages(d), here + 1, page)
    <3>1. path[Len(path)].node = b /\ path[Len(path)].child = k
      OBVIOUS
    <3>2. /\ Grown(d.kids, kids, b, k, page) /\ Stands(d.kids, path, at)
          /\ page \notin ToSet(ThePages(d))
      BY <2>5, <2>6
    <3>3. count = Counted(d, path, 1) /\ parent = [d.parent EXCEPT ![page] = b]
          /\ here = Here(d.kids, path, at)
      OBVIOUS
    <3> HIDE DEF kids, b, k, top, count, parent, here
    <3>4. Inserted(d, g, here, page)
      BY <3>1, <3>2, <3>3, GrowGood, Zenon
    <3> HIDE DEF g
    <3> QED BY <3>4 DEF Inserted
  <2>8. g = e
    <3> HIDE DEF kids, count, parent, e
    <3> QED BY <2>4, <2>5
  <2> HIDE DEF g, e
  <2> QED BY <2>5, <2>7, <2>8 DEF e, Inserted
<1>4. CASE i = n
  <2> DEFINE len == Len(d.kids[Root])
             trav == <<[node |-> Root, child |-> len + 1]>>
             at == <<0>>
             kids == [d.kids EXCEPT ![Root] = InsertAt(@, len + 1, page)]
             count == Counted(d, trav, 1)
             parent == [d.parent EXCEPT ![page] = Root]
  <2>1. len \in Nat /\ Root \in Branch /\ d.kids[Root] \in Seq(Nodes)
    BY <1>1, KidsTyped, NodesAssumption
  <2>2. Len(trav) = 1 /\ trav[1] = [node |-> Root, child |-> len + 1]
    OBVIOUS
  <2>3. Stands(d.kids, trav, at) /\ Here(d.kids, trav, at) = n
    <3>1. [node |-> Root, child |-> len + 1] \in StepsOf(d.kids)
      BY <2>1 DEF StepsOf, Steps
    <3>2. /\ trav \in Seq(StepsOf(d.kids)) /\ trav # <<>> /\ trav[1].node = Root
          /\ trav[1].child = len + 1 /\ DOMAIN trav = 1 .. 1
      BY <3>1
    <3>3. at \in Seq(Nat) /\ Len(at) = 1 /\ at[1] = 0
      OBVIOUS
    <3>4. Sits(d.kids, Root, 0)
      BY <1>1, RootSits
    <3> HIDE DEF trav, at
    <3>5. Stands(d.kids, trav, at)
      BY <2>2, <3>2, <3>3, <3>4 DEF Stands
    <3>6. Before(d.kids, Root, len + 1) = L
      BY <1>1, <2>1, KidPlace DEF ThePages
    <3>7. Here(d.kids, trav, at) = 0 + n
      BY <2>2, <3>2, <3>3, <3>6 DEF Here
    <3> QED BY <1>1, <3>5, <3>7
  <2>4. Trail(trav) = {Root}
    <3> HIDE DEF trav
    <3>1. 1 .. Len(trav) = {1}
      BY <2>2
    <3> QED BY <2>2, <3>1 DEF Trail
  <2> HIDE DEF trav, at
  <2>5. e = Edited(kids, count, parent, list)
    <3> DEFINE more == [d.count EXCEPT ![Root] = Len(d.list) + 1]
               longer == [d.kids EXCEPT ![Root] = Append(@, page)]
    <3>1. e = [ResetTraversal(
                 [d EXCEPT !.kids[Root] = Append(@, page),
                           !.count[Root] = Len(d.list) + 1,
                           !.parent[page] = Root]) EXCEPT !.list = InsertAt(@, i + 1, page)]
      BY <1>1, <1>4 DEF InsertNewPage
    <3>2. [d EXCEPT !.kids[Root] = Append(@, page), !.count[Root] = Len(d.list) + 1,
                    !.parent[page] = Root]
            = DocOf(longer, more, parent, d.list, d.trav, d.next)
      BY <1>1, AppendIn
    <3>3. longer = kids
      <4> DEFINE s == d.kids[Root]
                 S == Nodes
      <4>1. s \in Seq(S) /\ page \in S
        BY <2>1 DEF Nodes
      <4> HIDE DEF s, S
      <4>2. Append(s, page) = InsertAt(s, Len(s) + 1, page)
        BY <4>1, AtTheEnd
      <4> QED BY <4>2 DEF s
    <3>4. more = count
      <4>1. d.count \in [Branch -> Nat] /\ d.count[Root] = n
        BY <1>1, <2>1 DEF DocType, CountsRight, ThePages
      <4>2. ASSUME NEW x \in Branch
            PROVE  more[x] = count[x]
        <5>1. CASE x = Root
          BY <1>1, <2>4, <4>1, <5>1 DEF Counted
        <5>2. CASE x # Root
          BY <2>4, <4>1, <5>2 DEF Counted
        <5> QED BY <5>1, <5>2
      <4>3. more = [x \in Branch |-> more[x]] /\ count = [x \in Branch |-> count[x]]
        BY <4>1 DEF Counted
      <4> HIDE DEF more, count
      <4> QED BY <4>2, <4>3
    <3> HIDE DEF longer, more, kids, count, parent
    <3> DEFINE tree == Edited(kids, count, parent, d.list)
    <3>5. e = [tree EXCEPT !.list = InsertAt(@, i + 1, page)]
      BY <3>1, <3>2, <3>3, <3>4, ResetIn
    <3>6. tree.list = d.list
      BY DEF Edited
    <3>7. e = [tree EXCEPT !.list = list]
      BY <3>5, <3>6
    <3> HIDE DEF e, list
    <3> QED BY <3>7, ListedIn
  <2>6. Grown(d.kids, kids, Root, len + 1, page)
    <3>1. len + 1 \in 1 .. Len(d.kids[Root]) + 1
      BY <2>1
    <3> QED BY <1>1, <2>1, <3>1, GrownInsert
  <2>7. trav[Len(trav)].node = Root /\ trav[Len(trav)].child = len + 1
    BY <2>2
  <2> DEFINE k == len + 1
             here == Here(d.kids, trav, at)
             g == Edited(kids, count, parent, InsertAt(d.list, here + 1, page))
  <2>8. Good(g) /\ ThePages(g) = InsertAt(ThePages(d), here + 1, page)
    <3> DEFINE b == Root
    <3>1. /\ Grown(d.kids, kids, b, k, page) /\ Stands(d.kids, trav, at)
          /\ page \notin ToSet(ThePages(d))
          /\ trav[Len(trav)].node = b /\ trav[Len(trav)].child = k
      BY <2>3, <2>6, <2>7
    <3>2. count = Counted(d, trav, 1) /\ parent = [d.parent EXCEPT ![page] = b]
          /\ here = Here(d.kids, trav, at)
      OBVIOUS
    <3> HIDE DEF kids, b, k, count, parent, here
    <3>4. Inserted(d, g, here, page)
      BY <3>1, <3>2, GrowGood, Zenon
    <3> HIDE DEF g
    <3> QED BY <3>4 DEF Inserted
  <2>9. g = e
    <3> HIDE DEF kids, count, parent, e
    <3> QED BY <1>4, <2>3, <2>5
  <2> HIDE DEF g, e
  <2> QED BY <1>4, <2>3, <2>8, <2>9 DEF e, Inserted
<1> QED BY <1>3, <1>4

(* DeletePage takes a page out of them.                                    *)
LEMMA DeleteGood ==
    ASSUME NEW d, Good(d), NEW i \in Nat, i < Len(ThePages(d))
    PROVE  Deleted(d, DeletePage(d, i), i)
<1> DEFINE u == Lookup(d, i).doc
           path == PathTo(u, i)
           top == path[Len(path)]
           b == top.node
           k == top.child
           p == u.kids[b][k]
           kids == [u.kids EXCEPT ![b] = RemoveAt(@, k)]
           count == Counted(u, path, -1)
           e == DeletePage(d, i)
           none == {}
<1>1. Good(u) /\ ThePages(u) = ThePages(d)
  <2>1. Cached(d.list, ThePages(d), none)
    BY DEF Good
  <2> HIDE DEF none
  <2>2. /\ Good(Lookup(d, i).doc) /\ ThePages(Lookup(d, i).doc) = ThePages(d)
    BY <2>1, LookupGood
  <2> QED BY <2>2
<1> HIDE DEF u
<1>2. u \in DocType /\ IsTree(u.kids) /\ CountsRight(u) /\ Descends(u.kids) /\ u.kids \in Kids
  BY <1>1, GoodFacts DEF Good
<1>3. i < Len(ThePages(u))
  BY <1>1
<1>4. PICK at : Found(u.kids, path, at, i)
  BY <1>2, <1>3, PathRight
<1> HIDE DEF path
<1>5. /\ Stands(u.kids, path, at) /\ Here(u.kids, path, at) = i
      /\ b \in Branch /\ k \in DOMAIN u.kids[b] /\ p \in Page
  BY <1>4 DEF Found
<1>6. InsertDelete(u, i, None) = Edited(kids, count, u.parent, u.list)
  <2>1. Found(u.kids, PathTo(u, i), at, i) /\ None \in Page \cup {None}
    BY <1>4 DEF path
  <2> DEFINE page == None
  <2>2. page = None /\ page \in Page \cup {None}
    BY <2>1
  <2> HIDE DEF page
  <2>3. InsertDelete(u, i, page)
          = Edited(kids, Counted(u, path, IF page = None THEN -1 ELSE 1), u.parent, u.list)
    BY <1>1, <1>3, <2>1, <2>2, EditIs DEF path
  <2>4. (IF page = None THEN -1 ELSE 1) = -1
    BY <2>2
  <2> HIDE DEF kids
  <2> QED BY <2>2, <2>3, <2>4
<1>7. e = Edited(kids, count, u.parent, RemoveAt(u.list, i + 1))
  <2> DEFINE tree == InsertDelete(u, i, None)
  <2>1. e = [tree EXCEPT !.list = RemoveAt(@, i + 1)]
    BY DEF DeletePage, u
  <2> HIDE DEF kids, count, e
  <2>2. tree.list = u.list
    BY <1>6 DEF Edited
  <2> DEFINE new == RemoveAt(u.list, i + 1)
  <2>3. e = [tree EXCEPT !.list = new]
    BY <2>1, <2>2
  <2> HIDE DEF new
  <2>4. e = Edited(kids, count, u.parent, new)
    BY <1>6, <2>3, ListedIn
  <2> QED BY <2>4 DEF new
<1>8. Grown(kids, u.kids, b, k, p)
  BY <1>2, <1>5, GrownRemove
<1>9. path[Len(path)].node = b /\ path[Len(path)].child = k
  OBVIOUS
<1> HIDE DEF kids, b, k, p, top, e
<1>10. Deleted(u, Edited(kids, count, u.parent, RemoveAt(u.list, i + 1)), i)
  BY <1>1, <1>5, <1>8, <1>9, ShrinkGood, Zenon
<1>11. Deleted(u, e, i)
  BY <1>7, <1>10
<1> QED BY <1>1, <1>11 DEF Deleted, e

-----------------------------------------------------------------------------
(* Operations one after the other.                                         *)
LEMMA StepsAt ==
    ASSUME NEW kind, NEW with, NEW e, NEW after, NEW m \in Nat,
           StepsFrom(kind, with, e, after, m)
    PROVE  /\ after[0] = e
           /\ \A n \in 0 .. m : n < m =>
                after[n + 1] = StepOf(kind, with, after[n], n + 1)
<1>1. after[0] = e
  BY DEF StepsFrom
<1>2. ASSUME NEW n \in 0 .. m, n < m
      PROVE  after[n + 1] = StepOf(kind, with, after[n], n + 1)
  <2>1. n + 1 \in 0 .. m /\ n + 1 # 0 /\ (n + 1) - 1 = n
    BY <1>2
  <2> QED BY <2>1 DEF StepsFrom
<1> QED BY <1>1, <1>2

LookupsOf(d, indices, after) ==
    after = [n \in 0 .. Len(indices) |->
               IF n = 0 THEN d ELSE Lookup(after[n - 1], indices[n]).doc]
DeletesOf(d, indices, after) ==
    after = [n \in 0 .. Len(indices) |->
               IF n = 0 THEN d ELSE DeletePage(after[n - 1], indices[n])]
InsertsOf(d, dest, newPages, after) ==
    after = [n \in 0 .. Len(newPages) |->
               IF n = 0 THEN d
               ELSE InsertNewPage(after[n - 1], n - 1 + dest, newPages[n])]

LookupsDone(d, indices, after) ==
    /\ LookedUp(d, indices) = after[Len(indices)] /\ after[0] = d
    /\ \A n \in 0 .. Len(indices) : n < Len(indices) =>
         after[n + 1] = Lookup(after[n], indices[n + 1]).doc
DeletesDone(d, indices, after) ==
    /\ DeletePages(d, indices) = after[Len(indices)] /\ after[0] = d
    /\ \A n \in 0 .. Len(indices) : n < Len(indices) =>
         after[n + 1] = DeletePage(after[n], indices[n + 1])
InsertsDone(d, dest, newPages, after) ==
    /\ InsertPages(d, dest, newPages) = after[Len(newPages)] /\ after[0] = d
    /\ \A n \in 0 .. Len(newPages) : n < Len(newPages) =>
         after[n + 1] = InsertNewPage(after[n], n + dest, newPages[n + 1])

LEMMA LookupsTaken ==
    ASSUME NEW d, NEW indices, Len(indices) \in Nat
    PROVE  \E after : LookupsDone(d, indices, after)
<1> DEFINE after == CHOOSE g : LookupsOf(d, indices, g)
           m == Len(indices)
<1>1. PICK steps : StepsFrom("lookup", indices, d, steps, m)
  BY StepsTaken
<1>2. LookupsOf(d, indices, steps)
  BY <1>1 DEF StepsFrom, StepOf, LookupsOf
<1>3. LookupsOf(d, indices, after)
  BY <1>2
<1>4. LookedUp(d, indices) = after[m]
  BY DEF LookedUp, LookupsOf
<1> HIDE DEF after
<1>5. StepsFrom("lookup", indices, d, after, m)
  BY <1>3 DEF StepsFrom, StepOf, LookupsOf
<1>6. /\ after[0] = d
      /\ \A n \in 0 .. m : n < m => after[n + 1] = StepOf("lookup", indices, after[n], n + 1)
  BY <1>5, StepsAt
<1>7. \A n \in 0 .. m : n < m => after[n + 1] = Lookup(after[n], indices[n + 1]).doc
  BY <1>6 DEF StepOf
<1> QED BY <1>4, <1>6, <1>7 DEF LookupsDone

LEMMA DeletesTaken ==
    ASSUME NEW d, NEW indices, Len(indices) \in Nat
    PROVE  \E after : DeletesDone(d, indices, after)
<1> DEFINE after == CHOOSE g : DeletesOf(d, indices, g)
           m == Len(indices)
<1>1. PICK steps : StepsFrom("delete", indices, d, steps, m)
  BY StepsTaken
<1>2. DeletesOf(d, indices, steps)
  BY <1>1 DEF StepsFrom, StepOf, DeletesOf
<1>3. DeletesOf(d, indices, after)
  BY <1>2
<1>4. DeletePages(d, indices) = after[m]
  BY DEF DeletePages, DeletesOf
<1> HIDE DEF after
<1>5. StepsFrom("delete", indices, d, after, m)
  BY <1>3 DEF StepsFrom, StepOf, DeletesOf
<1>6. /\ after[0] = d
      /\ \A n \in 0 .. m : n < m => after[n + 1] = StepOf("delete", indices, after[n], n + 1)
  BY <1>5, StepsAt
<1>7. \A n \in 0 .. m : n < m => after[n + 1] = DeletePage(after[n], indices[n + 1])
  BY <1>6 DEF StepOf
<1> QED BY <1>4, <1>6, <1>7 DEF DeletesDone

LEMMA InsertsTaken ==
    ASSUME NEW d, NEW dest \in Nat, NEW newPages, Len(newPages) \in Nat
    PROVE  \E after : InsertsDone(d, dest, newPages, after)
<1> DEFINE after == CHOOSE g : InsertsOf(d, dest, newPages, g)
           m == Len(newPages)
           with == [dest |-> dest, newPages |-> newPages]
<1>1. PICK steps : StepsFrom("insert", with, d, steps, m)
  BY StepsTaken
<1>2. InsertsOf(d, dest, newPages, steps)
  BY <1>1 DEF StepsFrom, StepOf, InsertsOf
<1>3. InsertsOf(d, dest, newPages, after)
  BY <1>2
<1>4. InsertPages(d, dest, newPages) = after[m]
  BY DEF InsertPages, InsertsOf
<1> HIDE DEF after
<1>5. StepsFrom("insert", with, d, after, m)
  BY <1>3 DEF StepsFrom, StepOf, InsertsOf
<1>6. /\ after[0] = d
      /\ \A n \in 0 .. m : n < m => after[n + 1] = StepOf("insert", with, after[n], n + 1)
  <2> HIDE DEF with
  <2> QED BY <1>5, StepsAt
<1>7. ASSUME NEW n \in 0 .. m, n < m
      PROVE  after[n + 1] = InsertNewPage(after[n], n + dest, newPages[n + 1])
  <2>1. after[n + 1] = InsertNewPage(after[n], (n + 1) - 1 + dest, newPages[n + 1])
    BY <1>6, <1>7 DEF StepOf
  <2>2. (n + 1) - 1 + dest = n + dest
    OBVIOUS
  <2> QED BY <2>1, <2>2
<1> QED BY <1>4, <1>6, <1>7 DEF InsertsDone

(* Lookups in any number leave the document good, and the places they      *)
(* looked at filled.                                                       *)
LEMMA LookedUpGood ==
    ASSUME NEW d, Good(d), NEW indices, Len(indices) \in Nat,
           \A n \in 1 .. Len(indices) : indices[n] \in Nat /\ indices[n] < Len(ThePages(d))
    PROVE  LET e == LookedUp(d, indices)
           IN  /\ Good(e) /\ e.kids = d.kids /\ ThePages(e) = ThePages(d)
               /\ Cached(e.list, ThePages(d), {indices[n] + 1 : n \in 1 .. Len(indices)})
<1> DEFINE m == Len(indices)
           known(n) == {indices[k] + 1 : k \in 1 .. n}
           Right(e, n) == /\ Good(e) /\ e.kids = d.kids /\ ThePages(e) = ThePages(d)
                          /\ Cached(e.list, ThePages(d), known(n))
<1>0. PICK after : LookupsDone(d, indices, after)
  BY LookupsTaken
<1>1. /\ LookedUp(d, indices) = after[m] /\ after[0] = d
      /\ \A n \in 0 .. m : n < m => after[n + 1] = Lookup(after[n], indices[n + 1]).doc
  BY <1>0 DEF LookupsDone
<1> DEFINE S == {n \in 0 .. m : Right(after[n], n)}
<1>2. 0 \in S
  <2>1. known(0) = {}
    OBVIOUS
  <2>2. Right(d, 0)
    BY <2>1 DEF Good
  <2> HIDE DEF Right
  <2> QED BY <1>1, <2>2
<1>3. ASSUME NEW n \in 0 .. m, n \in S, n < m
      PROVE  n + 1 \in S
  <2> DEFINE e == after[n]
             i == indices[n + 1]
             K == known(n)
             K2 == known(n + 1)
             r == Lookup(e, i)
  <2>1. n + 1 \in 1 .. m /\ n \in Nat
    BY <1>3
  <2>2. i \in Nat /\ i < Len(ThePages(d))
    BY <2>1
  <2>3. K2 = K \cup {i + 1}
    <3>1. \A k \in 1 .. n + 1 : k \in 1 .. n \/ k = n + 1
      BY <2>1
    <3>2. \A k \in 1 .. n : k \in 1 .. n + 1
      BY <2>1
    <3>3. n + 1 \in 1 .. n + 1
      BY <2>1
    <3> QED BY <3>1, <3>2, <3>3
  <2> HIDE DEF K, K2, i
  <2>4. Good(e) /\ e.kids = d.kids /\ ThePages(e) = ThePages(d) /\ Cached(e.list, ThePages(d), K)
    BY <1>3 DEF K
  <2> HIDE DEF e
  <2>5. Good(e) /\ Cached(e.list, ThePages(e), K) /\ i < Len(ThePages(e))
    BY <2>2, <2>4
  <2>6. LET R == Lookup(e, i)
        IN  /\ R.found = ThePages(e)[i + 1]
            /\ Good(R.doc) /\ R.doc.kids = e.kids /\ ThePages(R.doc) = ThePages(e)
            /\ Cached(R.doc.list, ThePages(e), K \cup {i + 1})
    BY <2>2, <2>5, LookupGood, Zenon
  <2> HIDE DEF r
  <2>7. Right(r.doc, n + 1)
    BY <2>3, <2>4, <2>6 DEF r, K2
  <2>8. after[n + 1] = r.doc
    BY <1>1, <1>3 DEF r, e, i
  <2> HIDE DEF Right
  <2> QED BY <2>1, <2>7, <2>8
<1> HIDE DEF Right
<1>4. m \in S
  <2>1. 0 .. m \subseteq S
    <3> HIDE DEF S
    <3> QED BY <1>2, <1>3, UpToBound
  <2> QED BY <2>1
<1>5. Right(LookedUp(d, indices), m)
  BY <1>1, <1>4
<1> QED BY <1>5 DEF Right

LEMMA LoadGood ==
    ASSUME NEW d, Good(d)
    PROVE  Good(LoadEveryPage(d)) /\ ThePages(LoadEveryPage(d)) = ThePages(d)
<1> DEFINE indices == [i \in DOMAIN d.list |-> i - 1]
<1>1. d.list \in Seq(Page \cup {None}) /\ Len(d.list) = Len(ThePages(d))
  BY GoodFacts
<1>2. DOMAIN d.list = 1 .. Len(d.list) /\ Len(d.list) \in Nat
  BY <1>1
<1>3. Len(indices) = Len(d.list)
  BY <1>2
<1>4. \A n \in 1 .. Len(indices) : indices[n] \in Nat /\ indices[n] < Len(ThePages(d))
  BY <1>1, <1>2, <1>3
<1> HIDE DEF indices
<1>5. Good(LookedUp(d, indices)) /\ ThePages(LookedUp(d, indices)) = ThePages(d)
  BY <1>2, <1>3, <1>4, LookedUpGood
<1> QED BY <1>5 DEF LoadEveryPage, indices

-----------------------------------------------------------------------------
(* PageSeq's operators of the library are those of this module.            *)
LEMMA SameOperators ==
    /\ \A S : Seqs!Cardinality(S) = Cardinality(S)
    /\ \A s, i, e : Seqs!InsertAt(s, i, e) = InsertAt(s, i, e)
    /\ \A s, i : Seqs!RemoveAt(s, i) = RemoveAt(s, i)
    /\ \A s : Seqs!ToSet(s) = ToSet(s)
    /\ \A s : Seqs!IsInjective(s) = IsInjective(s)
<1>1. ASSUME NEW S PROVE Seqs!Cardinality(S) = Cardinality(S)
  BY DEF Seqs!Cardinality, Cardinality
<1>2. ASSUME NEW s, NEW i, NEW e PROVE Seqs!InsertAt(s, i, e) = InsertAt(s, i, e)
  BY DEF Seqs!InsertAt, InsertAt
<1>3. ASSUME NEW s, NEW i PROVE Seqs!RemoveAt(s, i) = RemoveAt(s, i)
  BY DEF Seqs!RemoveAt, RemoveAt
<1>4. ASSUME NEW s PROVE Seqs!ToSet(s) = ToSet(s)
  BY DEF Seqs!ToSet, ToSet
<1>5. ASSUME NEW s PROVE Seqs!IsInjective(s) = IsInjective(s)
  BY DEF Seqs!IsInjective, IsInjective
<1> QED BY <1>1, <1>2, <1>3, <1>4, <1>5

(* The numbers of a finite set in order.                                   *)
Below(S, x) == Cardinality({y \in S : y < x})
Numbers(S) ==
    S \in SUBSET Nat /\ IsFiniteSet(S) /\ \E n \in Nat : \A y \in S : y < n

LEMMA BelowFacts ==
    ASSUME NEW S, Numbers(S), NEW x \in Nat
    PROVE  /\ Below(S, x) \in Nat /\ Below(S, x) <= Cardinality(S)
           /\ Below(S, 0) = 0
           /\ x \in S => Below(S, x + 1) = Below(S, x) + 1
           /\ x \notin S => Below(S, x + 1) = Below(S, x)
           /\ \A y \in Nat : x <= y => Below(S, x) <= Below(S, y)
           /\ (\A y \in S : y < x) => Below(S, x) = Cardinality(S)
<1> DEFINE B(z) == {y \in S : y < z}
<1>0. \A z \in S : z \in Nat
  BY DEF Numbers
<1>1. \A z \in Nat : IsFiniteSet(B(z)) /\ Cardinality(B(z)) \in Nat
  <2> SUFFICES ASSUME NEW z \in Nat
               PROVE  IsFiniteSet(B(z)) /\ Cardinality(B(z)) \in Nat
    OBVIOUS
  <2>1. B(z) \in SUBSET S
    OBVIOUS
  <2> HIDE DEF B
  <2> QED BY <2>1, FS_Subset, FS_CardinalityType DEF Numbers
<1>2. Cardinality(B(x)) <= Cardinality(S)
  <2>1. B(x) \in SUBSET S
    OBVIOUS
  <2> HIDE DEF B
  <2> QED BY <2>1, FS_Subset DEF Numbers
<1>3. Cardinality(B(0)) = 0
  <2>1. B(0) = {}
    BY <1>0
  <2> QED BY <2>1, FS_EmptySet
<1>4. x \in S => Cardinality(B(x + 1)) = Cardinality(B(x)) + 1
  <2> SUFFICES ASSUME x \in S
               PROVE  Cardinality(B(x + 1)) = Cardinality(B(x)) + 1
    OBVIOUS
  <2>1. \A z \in S : z < x + 1 <=> z < x \/ z = x
    BY <1>0
  <2>2. B(x + 1) = B(x) \cup {x} /\ x \notin B(x)
    <3>1. ASSUME NEW z
          PROVE  z \in B(x + 1) <=> z \in B(x) \cup {x}
      BY <2>1
    <3>2. x \notin B(x)
      BY <1>0
    <3> HIDE DEF B
    <3> QED BY <3>1, <3>2
  <2>3. IsFiniteSet(B(x))
    BY <1>1
  <2> HIDE DEF B
  <2> QED BY <2>2, <2>3, OneMore
<1>5. x \notin S => B(x + 1) = B(x)
  BY <1>0
<1>6. ASSUME NEW y \in Nat, x <= y
      PROVE  Cardinality(B(x)) <= Cardinality(B(y))
  <2>1. B(x) \in SUBSET B(y)
    BY <1>0, <1>6
  <2>2. IsFiniteSet(B(y))
    BY <1>1
  <2> HIDE DEF B
  <2> QED BY <2>1, <2>2, FS_Subset
<1>7. (\A y \in S : y < x) => B(x) = S
  OBVIOUS
<1> HIDE DEF B
<1>8. \A z \in Nat : Below(S, z) = Cardinality(B(z))
  BY DEF Below, B
<1>9. x + 1 \in Nat /\ 0 \in Nat
  OBVIOUS
<1> QED BY <1>1, <1>2, <1>3, <1>4, <1>5, <1>6, <1>7, <1>8, <1>9

LEMMA BelowGrows ==
    ASSUME NEW S, Numbers(S), NEW x \in S, NEW y \in Nat
    PROVE  /\ x \in Nat /\ Below(S, x) \in Nat /\ Below(S, y) \in Nat
           /\ x < y => Below(S, x) < Below(S, y)
           /\ Below(S, x) < Cardinality(S) /\ Cardinality(S) \in Nat
<1>1. x \in Nat /\ x + 1 \in Nat
  BY DEF Numbers
<1>2. /\ Below(S, x) \in Nat /\ Below(S, y) \in Nat
      /\ Below(S, x + 1) = Below(S, x) + 1 /\ Below(S, x + 1) <= Cardinality(S)
  BY <1>1, BelowFacts
<1>3. x < y => Below(S, x + 1) <= Below(S, y)
  BY <1>1, BelowFacts
<1>4. Cardinality(S) \in Nat
  BY FS_CardinalityType DEF Numbers
<1> QED BY <1>1, <1>2, <1>3, <1>4

(* The number with n - 1 numbers of the set below it is the nth.           *)
LEMMA NthIs ==
    ASSUME NEW S, Numbers(S), NEW x \in S, NEW n, Below(S, x) = n - 1
    PROVE  Seqs!Nth(S, n) = x
<1>1. \E z \in S : Cardinality({y \in S : y < z}) = n - 1
  BY DEF Below
<1> DEFINE P(z) == Cardinality({y \in S : y < z}) = n - 1
           u == CHOOSE z \in S : P(z)
<1>2. u = Seqs!Nth(S, n)
  <2>1. \A z : Seqs!Cardinality({y \in S : y < z}) = n - 1 <=> P(z)
    BY SameOperators
  <2> HIDE DEF P
  <2> QED BY <2>1 DEF Seqs!Nth
<1>3. u \in S /\ P(u)
  <2> HIDE DEF P
  <2> QED BY <1>1 DEF P
<1> HIDE DEF u
<1>4. u \in S /\ Below(S, u) = n - 1
  BY <1>3 DEF Below
<1>5. /\ x \in Nat /\ u \in Nat /\ Below(S, u) \in Nat
      /\ x < u => Below(S, x) < Below(S, u)
  BY <1>4, BelowGrows DEF Numbers
<1>6. u < x => Below(S, u) < Below(S, x)
  BY <1>4, <1>5, BelowGrows
<1>7. Below(S, x) = Below(S, u)
  BY <1>4
<1>8. ~(x < u) /\ ~(u < x)
  BY <1>5, <1>6, <1>7
<1> QED BY <1>2, <1>5, <1>8

LEMMA NthThere ==
    ASSUME NEW S, Numbers(S), NEW n \in 1 .. Cardinality(S)
    PROVE  Seqs!Nth(S, n) \in S /\ Below(S, Seqs!Nth(S, n)) = n - 1
<1>1. Cardinality(S) \in Nat
  BY FS_CardinalityType DEF Numbers
<1> DEFINE T == {x \in Nat : n <= Below(S, x + 1)}
<1>2. T # {}
  <2>1. PICK x \in Nat : \A y \in S : y < x
    BY DEF Numbers
  <2>2. (\A y \in S : y < x + 1) /\ x + 1 \in Nat
    BY <2>1 DEF Numbers
  <2>3. Below(S, x + 1) = Cardinality(S)
    BY <2>2, BelowFacts, Zenon
  <2>4. n <= Below(S, x + 1)
    BY <1>1, <2>3
  <2>5. x \in T
    BY <2>4
  <2> QED BY <2>5
<1>3. PICK x \in T : \A y \in T : x <= y
  <2>1. T \in SUBSET Nat
    OBVIOUS
  <2> HIDE DEF T
  <2> QED BY <1>2, <2>1, LeastElement
<1>4. x \in Nat /\ n <= Below(S, x + 1) /\ Below(S, x) \in Nat
  BY <1>3, BelowFacts
<1>5. Below(S, x) < n
  <2>1. CASE x = 0
    <3>1. Below(S, x) = 0
      BY <2>1, BelowFacts
    <3> QED BY <1>1, <3>1
  <2>2. CASE x # 0
    <3>1. x - 1 \in Nat /\ (x - 1) + 1 = x /\ ~(x <= x - 1)
      BY <1>4, <2>2
    <3>2. x - 1 \notin T
      BY <1>3, <3>1
    <3>3. ~(n <= Below(S, x))
      BY <3>1, <3>2
    <3> QED BY <1>1, <1>4, <3>3
  <2> QED BY <2>1, <2>2
<1> HIDE DEF T
<1>6. x \in S /\ Below(S, x) = n - 1
  <2>1. /\ x \in S => Below(S, x + 1) = Below(S, x) + 1
        /\ x \notin S => Below(S, x + 1) = Below(S, x)
    BY <1>4, BelowFacts
  <2> QED BY <1>1, <1>4, <1>5, <2>1
<1> QED BY <1>6, NthIs

LEMMA NthOf ==
    ASSUME NEW S, Numbers(S), NEW x \in S
    PROVE  Below(S, x) + 1 \in 1 .. Cardinality(S) /\ Seqs!Nth(S, Below(S, x) + 1) = x
<1>1. Below(S, x) \in Nat /\ Below(S, x) < Cardinality(S) /\ Cardinality(S) \in Nat
  BY BelowGrows
<1>2. Below(S, x) = (Below(S, x) + 1) - 1
  BY <1>1
<1> QED BY <1>1, <1>2, NthIs

Kept(s, T) == (0 .. Len(s) - 1) \ T

LEMMA KeptNumbers ==
    ASSUME NEW n \in Nat, NEW K \in SUBSET (0 .. n - 1)
    PROVE  Numbers(K) /\ Cardinality(K) \in Nat
<1>1. K \in SUBSET Nat /\ \A y \in K : y < n /\ y <= n
  OBVIOUS
<1>2. IsFiniteSet(K)
  BY <1>1, FS_BoundedSetOfNaturals
<1> QED BY <1>1, <1>2, FS_CardinalityType DEF Numbers

LEMMA WithoutIs ==
    ASSUME NEW S, NEW s \in Seq(S), NEW T
    PROVE  LET K == Kept(s, T)
               w == Seqs!Without(s, T)
           IN  /\ Numbers(K) /\ Cardinality(K) \in Nat
               /\ w \in Seq(S) /\ Len(w) = Cardinality(K)
               /\ \A k \in 1 .. Cardinality(K) :
                    /\ Seqs!Nth(K, k) \in K /\ Below(K, Seqs!Nth(K, k)) = k - 1
                    /\ w[k] = s[Seqs!Nth(K, k) + 1]
<1> DEFINE K == Kept(s, T)
           w == Seqs!Without(s, T)
           m == Cardinality(K)
<1>1. Numbers(K) /\ m \in Nat
  <2>1. Len(s) \in Nat /\ K \in SUBSET (0 .. Len(s) - 1)
    BY DEF Kept
  <2> HIDE DEF K
  <2> QED BY <2>1, KeptNumbers
<1>2. w = [k \in 1 .. m |-> s[Seqs!Nth(K, k) + 1]]
  BY SameOperators DEF Seqs!Without, Seqs!Index, Kept
<1>3. \A k \in K : k + 1 \in 1 .. Len(s)
  BY DEF Kept
<1> HIDE DEF K, w, m
<1>4. \A k \in 1 .. m : Seqs!Nth(K, k) \in K /\ Below(K, Seqs!Nth(K, k)) = k - 1
  BY <1>1, NthThere DEF m
<1>5. \A k \in 1 .. m : s[Seqs!Nth(K, k) + 1] \in S
  BY <1>3, <1>4
<1>6. w \in Seq(S) /\ Len(w) = m
  BY <1>1, <1>2, <1>5
<1> QED BY <1>1, <1>2, <1>4, <1>6 DEF K, w, m

LEMMA WithoutNone ==
    ASSUME NEW S, NEW s \in Seq(S)
    PROVE  Seqs!Without(s, {}) = s
<1> DEFINE none == {}
           K == Kept(s, none)
           w == Seqs!Without(s, none)
<1>1. K = 0 .. Len(s) - 1 /\ Len(s) \in Nat
  BY DEF Kept
<1>2. Cardinality(K) = Len(s)
  <2>1. /\ Cardinality(0 .. Len(s) - 1)
             = IF 0 > Len(s) - 1 THEN 0 ELSE (Len(s) - 1) - 0 + 1
    BY <1>1, FS_Interval
  <2> QED BY <1>1, <2>1
<1> HIDE DEF none
<1>3. /\ Numbers(K) /\ w \in Seq(S) /\ Len(w) = Cardinality(K)
      /\ \A k \in 1 .. Cardinality(K) : w[k] = s[Seqs!Nth(K, k) + 1]
  BY WithoutIs
<1> HIDE DEF K, w
<1>4. ASSUME NEW k \in 1 .. Len(s)
      PROVE  w[k] = s[k]
  <2>1. k - 1 \in K /\ k - 1 \in Nat
    BY <1>1
  <2>2. {y \in K : y < k - 1} = 0 .. (k - 1) - 1
    <3>1. ASSUME NEW y
          PROVE  (y \in K /\ y < k - 1) <=> y \in 0 .. (k - 1) - 1
      BY <1>1
    <3> QED BY <3>1
  <2>3. Below(K, k - 1) = k - 1
    <3>1. Cardinality(0 .. (k - 1) - 1)
            = IF 0 > (k - 1) - 1 THEN 0 ELSE ((k - 1) - 1) - 0 + 1
      BY FS_Interval
    <3>2. Cardinality(0 .. (k - 1) - 1) = k - 1
      BY <3>1
    <3> QED BY <2>2, <3>2 DEF Below
  <2>4. Seqs!Nth(K, k) = k - 1
    BY <1>3, <2>1, <2>3, NthIs
  <2>5. w[k] = s[(k - 1) + 1]
    BY <1>2, <1>3, <2>4
  <2> QED BY <2>5
<1>5. w = s
  BY <1>2, <1>3, <1>4, SameSeq
<1> QED BY <1>5 DEF w, none

(* Taking out one more place, in front of those already out.               *)
LEMMA WithoutOne ==
    ASSUME NEW S, NEW s \in Seq(S), NEW T, NEW x \in 0 .. Len(s) - 1,
           T \subseteq 0 .. Len(s) - 1, \A y \in T : x < y
    PROVE  /\ Seqs!Without(s, T \cup {x}) = RemoveAt(Seqs!Without(s, T), x + 1)
           /\ x < Len(Seqs!Without(s, T))
<1> DEFINE T2 == T \cup {x}
           K == Kept(s, T)
           K2 == Kept(s, T2)
           w == Seqs!Without(s, T)
           w2 == Seqs!Without(s, T2)
           m == Cardinality(K)
           m2 == Cardinality(K2)
<1>1. /\ Numbers(K) /\ m \in Nat /\ w \in Seq(S) /\ Len(w) = m
      /\ \A k \in 1 .. m : w[k] = s[Seqs!Nth(K, k) + 1]
  BY WithoutIs
<1>2. /\ Numbers(K2) /\ m2 \in Nat /\ w2 \in Seq(S) /\ Len(w2) = m2
      /\ \A k \in 1 .. m2 : /\ Seqs!Nth(K2, k) \in K2 /\ Below(K2, Seqs!Nth(K2, k)) = k - 1
                            /\ w2[k] = s[Seqs!Nth(K2, k) + 1]
  <2> HIDE DEF T2
  <2> QED BY WithoutIs
<1>3. x \in K /\ K2 = K \ {x} /\ x \in Nat /\ x \notin T
  BY DEF Kept
<1>4. \A y \in Nat : y < x => y \in K
  BY DEF Kept
<1> HIDE DEF K, K2, w, w2
<1>5. m2 = m - 1
  <2>1. IsFiniteSet(K)
    BY <1>1 DEF Numbers
  <2> QED BY <1>3, <2>1, FS_RemoveElement
<1>6. \A y \in K : y \in Nat
  BY <1>1 DEF Numbers
<1>7. Below(K, x) = x
  <2>1. {y \in K : y < x} = 0 .. x - 1
    <3>1. ASSUME NEW y
          PROVE  (y \in K /\ y < x) <=> y \in 0 .. x - 1
      <4>1. x \in Nat
        BY <1>3
      <4>2. y \in 0 .. x - 1 <=> y \in Nat /\ y < x
        BY <4>1
      <4> QED BY <1>4, <1>6, <4>2
    <3> QED BY <3>1
  <2>2. Cardinality(0 .. x - 1) = IF 0 > x - 1 THEN 0 ELSE (x - 1) - 0 + 1
    BY FS_Interval
  <2>3. Cardinality(0 .. x - 1) = x
    BY <1>3, <2>2
  <2> QED BY <2>1, <2>3 DEF Below
<1>8. x < m
  BY <1>1, <1>3, <1>7, BelowGrows
<1>9. ASSUME NEW u \in Nat, u <= x
      PROVE  Below(K2, u) = Below(K, u)
  <2>1. {y \in K2 : y < u} = {y \in K : y < u}
    <3>1. ASSUME NEW y
          PROVE  (y \in K2 /\ y < u) <=> (y \in K /\ y < u)
      BY <1>3, <1>9
    <3> QED BY <3>1
  <2> QED BY <2>1 DEF Below
<1>10. ASSUME NEW u \in Nat, x < u
       PROVE  Below(K2, u) = Below(K, u) - 1
  <2> DEFINE B == {y \in K : y < u}
  <2>1. {y \in K2 : y < u} = B \ {x} /\ x \in B
    <3>1. ASSUME NEW y
          PROVE  (y \in K2 /\ y < u) <=> y \in B \ {x}
      BY <1>3
    <3>2. x \in B
      BY <1>3, <1>10
    <3> HIDE DEF B
    <3> QED BY <3>1, <3>2
  <2>2. IsFiniteSet(B)
    <3>1. B \in SUBSET K /\ IsFiniteSet(K)
      BY <1>1 DEF Numbers
    <3> HIDE DEF B
    <3> QED BY <3>1, FS_Subset
  <2>3. Below(K2, u) = Cardinality(B \ {x})
    BY <2>1 DEF Below
  <2>4. Below(K, u) = Cardinality(B)
    BY DEF Below
  <2> HIDE DEF B
  <2> QED BY <2>1, <2>2, <2>3, <2>4, FS_RemoveElement
<1> HIDE DEF m, m2
<1> DEFINE r == RemoveAt(w, x + 1)
<1>11. /\ r \in Seq(S) /\ Len(w) = Len(r) + 1
       /\ \A j \in 1 .. x : w[j] = r[j]
       /\ \A j \in x + 1 .. Len(r) : w[j + 1] = r[j]
  <2>1. x + 1 \in 1 .. Len(w) /\ (x + 1) - 1 = x
    BY <1>1, <1>3, <1>8
  <2>2. /\ r \in Seq(S) /\ Len(w) = Len(r) + 1
        /\ \A j \in 1 .. (x + 1) - 1 : w[j] = r[j]
        /\ \A j \in x + 1 .. Len(r) : w[j + 1] = r[j]
    BY <1>1, <2>1, CloseAt
  <2> HIDE DEF r
  <2> QED BY <2>1, <2>2
<1> HIDE DEF r
<1>12. Len(r) = m2 /\ Len(r) \in Nat
  BY <1>1, <1>2, <1>5, <1>11
<1>13. ASSUME NEW k \in 1 .. m2
       PROVE  w2[k] = r[k]
  <2> DEFINE u == Seqs!Nth(K2, k)
  <2>1. u \in K2 /\ Below(K2, u) = k - 1 /\ w2[k] = s[u + 1]
    BY <1>2
  <2> HIDE DEF u
  <2>2. u \in K /\ u # x /\ u \in Nat
    BY <1>3, <1>6, <2>1
  <2>3. CASE u < x
    <3>1. Below(K, u) = k - 1
      BY <1>9, <2>1, <2>2, <2>3, <1>3
    <3>2. Seqs!Nth(K, k) = u
      BY <1>1, <2>2, <3>1, NthIs
    <3>3. Below(K, u) < Below(K, x)
      BY <1>1, <1>3, <2>2, <2>3, BelowGrows
    <3>4. k \in 1 .. x /\ k \in 1 .. m
      BY <1>3, <1>1, <1>2, <1>5, <1>7, <3>1, <3>3
    <3> QED BY <1>1, <1>11, <2>1, <3>2, <3>4
  <2>4. CASE x < u
    <3>1. Below(K2, u) = Below(K, u) - 1
      BY <1>10, <2>2, <2>4
    <3>2. Below(K, x) < Below(K, u) /\ Below(K, u) \in Nat
      BY <1>1, <1>3, <2>2, <2>4, BelowGrows
    <3>3. Below(K, u) = k /\ k = (k + 1) - 1
      BY <2>1, <3>1, <3>2
    <3>4. Seqs!Nth(K, k + 1) = u
      BY <1>1, <2>2, <3>3, NthIs
    <3>5. k \in x + 1 .. Len(r) /\ k + 1 \in 1 .. m
      BY <1>1, <1>2, <1>3, <1>5, <1>7, <1>12, <3>2, <3>3
    <3> QED BY <1>1, <1>11, <2>1, <3>4, <3>5
  <2> QED BY <1>3, <2>2, <2>3, <2>4
<1>14. w2 = r
  BY <1>2, <1>11, <1>12, <1>13, SameSeq
<1> QED BY <1>1, <1>8, <1>14 DEF w, w2, r

-----------------------------------------------------------------------------
(* The pages to move are deleted from the last to the first, each once.    *)
LEMMA OrderIs ==
    ASSUME NEW N \in Nat, NEW indices \in Seq(0 .. N - 1), IsInjective(indices)
    PROVE  LET S     == ToSet(indices)
               order == DeletionOrder(indices)
               m     == Len(indices)
           IN  /\ m \in Nat /\ Len(order) = m /\ Cardinality(S) = m
               /\ S \subseteq 0 .. N - 1
               /\ \A n \in 1 .. m : order[n] \in S
               /\ \A j, n \in 1 .. m : j < n => order[n] < order[j]
               /\ \A x \in S : \E n \in 1 .. m : order[n] = x
<1> DEFINE S == ToSet(indices)
           order == DeletionOrder(indices)
           m == Len(indices)
<1>1. m \in Nat /\ DOMAIN indices = 1 .. m /\ S \in SUBSET (0 .. N - 1)
  BY DEF ToSet
<1>2. Numbers(S)
  <2> HIDE DEF S
  <2> QED BY <1>1, KeptNumbers
<1>3. Cardinality(S) = m
  <2>1. indices \in [1 .. m -> S]
    BY <1>1 DEF ToSet
  <2>2. indices \in Injection(1 .. m, S)
    BY <1>1, <2>1 DEF Injection, IsInjective
  <2>3. indices \in Surjection(1 .. m, S)
    BY <1>1, <2>1 DEF Surjection, ToSet
  <2>4. ExistsBijection(1 .. m, S)
    BY <2>2, <2>3 DEF ExistsBijection, Bijection
  <2> HIDE DEF S, m
  <2> QED BY <1>1, <2>4, FS_CountingElements
<1>4. order = [n \in 1 .. m |-> Seqs!Nth(S, m - n + 1)]
  BY <1>1 DEF DeletionOrder
<1> HIDE DEF S, order, m
<1>5. Len(order) = m
  BY <1>1, <1>4
<1>6. \A n \in 1 .. m : /\ order[n] = Seqs!Nth(S, m - n + 1)
                        /\ m - n + 1 \in 1 .. m
                        /\ order[n] \in S /\ Below(S, order[n]) = (m - n + 1) - 1
  <2> SUFFICES ASSUME NEW n \in 1 .. m
               PROVE  /\ order[n] = Seqs!Nth(S, m - n + 1)
                      /\ m - n + 1 \in 1 .. m
                      /\ order[n] \in S /\ Below(S, order[n]) = (m - n + 1) - 1
    OBVIOUS
  <2> DEFINE k == m - n + 1
  <2>1. order[n] = Seqs!Nth(S, k)
    BY <1>4
  <2>2. k \in 1 .. m
    BY <1>1
  <2> HIDE DEF k
  <2>3. order[n] \in S /\ Below(S, order[n]) = k - 1
    BY <1>2, <1>3, <2>1, <2>2, NthThere
  <2> QED BY <2>1, <2>2, <2>3 DEF k
<1>7. ASSUME NEW j \in 1 .. m, NEW n \in 1 .. m, j < n
      PROVE  order[n] < order[j]
  <2>1. /\ order[n] \in S /\ order[n] \in Nat /\ order[j] \in S /\ order[j] \in Nat
    BY <1>6, <1>2 DEF Numbers
  <2>2. order[j] < order[n] => Below(S, order[j]) < Below(S, order[n])
    BY <1>2, <2>1, BelowGrows
  <2>3. Below(S, order[n]) = m - n /\ Below(S, order[j]) = m - j
    BY <1>1, <1>6
  <2>4. ~(order[j] < order[n]) /\ order[j] # order[n]
    BY <1>1, <1>7, <2>2, <2>3
  <2> QED BY <2>1, <2>4
<1>8. ASSUME NEW x \in S
      PROVE  \E n \in 1 .. m : order[n] = x
  <2> DEFINE k == Below(S, x) + 1
  <2>1. k \in 1 .. m /\ Seqs!Nth(S, k) = x
    BY <1>2, <1>3, NthOf
  <2> HIDE DEF k
  <2>2. m - k + 1 \in 1 .. m /\ m - (m - k + 1) + 1 = k
    BY <1>1, <2>1
  <2>3. order[m - k + 1] = x
    BY <1>4, <2>1, <2>2
  <2> QED BY <2>2, <2>3
<1> QED BY <1>1, <1>3, <1>5, <1>6, <1>7, <1>8 DEF S, order, m

LEMMA DeletesGood ==
    ASSUME NEW d, Good(d), NEW indices \in Seq(0 .. Len(ThePages(d)) - 1),
           IsInjective(indices)
    PROVE  LET e == DeletePages(d, DeletionOrder(indices))
           IN  Good(e) /\ ThePages(e) = Seqs!Without(ThePages(d), ToSet(indices))
<1> DEFINE L == ThePages(d)
           N == Len(L)
           I == ToSet(indices)
           order == DeletionOrder(indices)
           m == Len(order)
           gone(n) == {order[j] : j \in 1 .. n}
           Right(e, n) == Good(e) /\ ThePages(e) = Seqs!Without(L, gone(n))
<1>1. L \in Seq(Page) /\ N \in Nat
  BY GoodFacts
<1>2. /\ Len(indices) \in Nat /\ Len(order) = Len(indices) /\ I \subseteq 0 .. N - 1
      /\ \A n \in 1 .. Len(indices) : order[n] \in I
      /\ \A j, n \in 1 .. Len(indices) : j < n => order[n] < order[j]
      /\ \A x \in I : \E n \in 1 .. Len(indices) : order[n] = x
  <2> HIDE DEF L
  <2>1. indices \in Seq(0 .. N - 1)
    BY DEF L
  <2> HIDE DEF N, order, I
  <2> QED BY <1>1, <2>1, OrderIs DEF order, I
<1> HIDE DEF order
<1>3. /\ m \in Nat /\ m = Len(indices)
      /\ \A n \in 1 .. m : order[n] \in I
      /\ \A j, n \in 1 .. m : j < n => order[n] < order[j]
      /\ \A x \in I : \E n \in 1 .. m : order[n] = x
  BY <1>2
<1>4. PICK after : DeletesDone(d, order, after)
  BY <1>3, DeletesTaken
<1>5. /\ DeletePages(d, order) = after[m] /\ after[0] = d
      /\ \A n \in 0 .. m : n < m => after[n + 1] = DeletePage(after[n], order[n + 1])
  BY <1>4 DEF DeletesDone
<1> HIDE DEF L, N, I, m
<1> DEFINE S == {n \in 0 .. m : Right(after[n], n)}
<1>6. 0 \in S
  <2>1. gone(0) = {}
    OBVIOUS
  <2>2. Seqs!Without(L, {}) = L
    BY <1>1, WithoutNone
  <2>3. Right(d, 0)
    BY <2>1, <2>2 DEF L
  <2> HIDE DEF Right
  <2> QED BY <1>3, <1>5, <2>3
<1>7. ASSUME NEW n \in 0 .. m, n \in S, n < m
      PROVE  n + 1 \in S
  <2> DEFINE e == after[n]
             x == order[n + 1]
             T == gone(n)
             T2 == gone(n + 1)
             f == DeletePage(e, x)
  <2>1. n + 1 \in 1 .. m /\ n \in Nat
    BY <1>3, <1>7
  <2>2. x \in 0 .. N - 1
    BY <1>2, <1>3, <2>1
  <2>3. T2 = T \cup {x}
    <3>1. \A k \in 1 .. n + 1 : k \in 1 .. n \/ k = n + 1
      BY <2>1
    <3>2. \A k \in 1 .. n : k \in 1 .. n + 1
      BY <2>1
    <3>3. n + 1 \in 1 .. n + 1
      BY <2>1
    <3> QED BY <3>1, <3>2, <3>3
  <2>4. T \subseteq 0 .. N - 1 /\ \A y \in T : x < y
    <3> SUFFICES ASSUME NEW j \in 1 .. n
                 PROVE  order[j] \in 0 .. N - 1 /\ x < order[j]
      OBVIOUS
    <3>1. j \in 1 .. m /\ j < n + 1
      BY <1>3, <2>1
    <3> QED BY <1>2, <1>3, <2>1, <3>1
  <2>5. Good(e) /\ ThePages(e) = Seqs!Without(L, T)
    BY <1>7
  <2> HIDE DEF e, x, T, T2
  <2>6. /\ Seqs!Without(L, T \cup {x}) = RemoveAt(Seqs!Without(L, T), x + 1)
        /\ x < Len(Seqs!Without(L, T))
    BY <1>1, <2>2, <2>4, WithoutOne DEF N
  <2>7. Deleted(e, f, x)
    BY <2>2, <2>5, <2>6, DeleteGood
  <2>8. Right(f, n + 1)
    BY <2>3, <2>5, <2>6, <2>7 DEF Deleted, T2
  <2>9. after[n + 1] = f
    BY <1>5, <1>7 DEF e, x
  <2> HIDE DEF Right
  <2> QED BY <2>1, <2>8, <2>9
<1> HIDE DEF Right
<1>8. m \in S
  <2>1. 0 .. m \subseteq S
    <3> HIDE DEF S
    <3> QED BY <1>3, <1>6, <1>7, UpToBound
  <2> QED BY <1>3, <2>1
<1>9. gone(m) = I
  BY <1>3
<1>10. Right(DeletePages(d, order), m)
  BY <1>5, <1>8
<1>11. Good(DeletePages(d, order)) /\ ThePages(DeletePages(d, order)) = Seqs!Without(L, I)
  BY <1>9, <1>10 DEF Right
<1> QED BY <1>11 DEF L, I, order

-----------------------------------------------------------------------------
(* The first n of the pages b, put back into a behind its first at pages.  *)
Mixed(a, at, b, n) == SubSeq(a, 1, at) \o SubSeq(b, 1, n) \o SubSeq(a, at + 1, Len(a))

IsMixed(S, a, at, b, n, c) ==
    /\ c \in Seq(S) /\ Len(c) = Len(a) + n
    /\ \A x \in 1 .. at : c[x] = a[x]
    /\ \A x \in 1 .. n : c[at + x] = b[x]
    /\ \A x \in at + 1 .. Len(a) : c[x + n] = a[x]

IsJoined(S, s, t, c) ==
    /\ c \in Seq(S) /\ Len(c) = Len(s) + Len(t)
    /\ \A x \in 1 .. Len(s) : c[x] = s[x]
    /\ \A x \in 1 .. Len(t) : c[Len(s) + x] = t[x]
LEMMA JoinIs ==
    ASSUME NEW S, NEW s \in Seq(S), NEW t \in Seq(S)
    PROVE  IsJoined(S, s, t, s \o t)
BY DEF IsJoined

LEMMA MixedIs ==
    ASSUME NEW S, NEW a \in Seq(S), NEW b \in Seq(S), NEW at \in 0 .. Len(a),
           NEW n \in 0 .. Len(b)
    PROVE  IsMixed(S, a, at, b, n, Mixed(a, at, b, n))
<1> DEFINE left == SubSeq(a, 1, at)
           mid == SubSeq(b, 1, n)
           right == SubSeq(a, at + 1, Len(a))
           c == left \o mid \o right
           size == Len(a)
<1>1. size \in Nat /\ at \in Nat /\ at <= size /\ n \in Nat /\ Len(b) \in Nat
  OBVIOUS
<1>2. /\ left \in Seq(S) /\ Len(left) = at
      /\ \A x \in 1 .. at : left[x] = a[x]
  OBVIOUS
<1>3. /\ mid \in Seq(S) /\ Len(mid) = n
      /\ \A x \in 1 .. n : mid[x] = b[x]
  OBVIOUS
<1>4. /\ right \in Seq(S) /\ Len(right) = size - at
      /\ \A x \in 1 .. size - at : right[x] = a[at + x]
  OBVIOUS
<1> HIDE DEF left, mid, right, size
<1> DEFINE two == left \o mid
<1>5. /\ two \in Seq(S) /\ Len(two) = at + n
      /\ \A x \in 1 .. at : two[x] = left[x]
      /\ \A x \in 1 .. n : two[at + x] = mid[x]
  <2>1. IsJoined(S, left, mid, two)
    BY <1>2, <1>3, JoinIs
  <2> HIDE DEF two
  <2> QED BY <1>2, <1>3, <2>1 DEF IsJoined
<1> HIDE DEF two
<1>6. /\ c \in Seq(S) /\ Len(c) = size + n
      /\ \A x \in 1 .. at + n : c[x] = two[x]
      /\ \A x \in 1 .. size - at : c[at + n + x] = right[x]
  <2>1. c = two \o right
    BY DEF two
  <2> HIDE DEF c
  <2>2. IsJoined(S, two, right, c)
    BY <1>4, <1>5, <2>1, JoinIs
  <2>3. Len(two) + Len(right) = size + n
    BY <1>1, <1>4, <1>5
  <2> QED BY <1>4, <1>5, <2>2, <2>3 DEF IsJoined
<1> HIDE DEF c
<1>7. \A x \in 1 .. at : c[x] = a[x]
  BY <1>1, <1>2, <1>5, <1>6
<1>8. \A x \in 1 .. n : c[at + x] = b[x]
  BY <1>1, <1>3, <1>5, <1>6
<1>9. ASSUME NEW x \in at + 1 .. size
      PROVE  c[x + n] = a[x]
  <2>1. x - at \in 1 .. size - at /\ at + n + (x - at) = x + n /\ at + (x - at) = x
    BY <1>1
  <2> QED BY <1>4, <1>6, <2>1
<1> QED BY <1>6, <1>7, <1>8, <1>9 DEF IsMixed, c, Mixed, left, mid, right, size

IsSplit(S, s, k, e, t) ==
    /\ t \in Seq(S) /\ Len(t) = Len(s) + 1
    /\ \A j \in 1 .. k - 1 : t[j] = s[j]
    /\ t[k] = e
    /\ \A j \in k .. Len(s) : t[j + 1] = s[j]
LEMMA SplitIs ==
    ASSUME NEW S, NEW s \in Seq(S), NEW k \in 1 .. Len(s) + 1, NEW e \in S
    PROVE  IsSplit(S, s, k, e, InsertAt(s, k, e))
BY SplitAt DEF IsSplit

LEMMA MixedNone ==
    ASSUME NEW S, NEW a \in Seq(S), NEW b \in Seq(S), NEW at \in 0 .. Len(a)
    PROVE  Mixed(a, at, b, 0) = a
<1> DEFINE c == Mixed(a, at, b, 0)
<1>1. Len(b) \in Nat /\ 0 \in 0 .. Len(b)
  OBVIOUS
<1>2. IsMixed(S, a, at, b, 0, c)
  BY <1>1, MixedIs
<1> HIDE DEF c
<1>3. c \in Seq(S) /\ Len(c) = Len(a)
  BY <1>2 DEF IsMixed
<1>4. ASSUME NEW x \in 1 .. Len(c)
      PROVE  c[x] = a[x]
  <2>1. x \in 1 .. at \/ x \in at + 1 .. Len(a)
    BY <1>3
  <2>2. x + 0 = x
    OBVIOUS
  <2> QED BY <1>2, <2>1, <2>2 DEF IsMixed
<1>5. c = a
  BY <1>3, <1>4, SameSeq
<1> QED BY <1>5 DEF c

LEMMA MixedNext ==
    ASSUME NEW S, NEW a \in Seq(S), NEW b \in Seq(S), NEW at \in 0 .. Len(a),
           NEW n \in 0 .. Len(b), n < Len(b)
    PROVE  /\ n + at \in 0 .. Len(Mixed(a, at, b, n))
           /\ Mixed(a, at, b, n + 1) = InsertAt(Mixed(a, at, b, n), (n + at) + 1, b[n + 1])
<1> DEFINE c == Mixed(a, at, b, n)
           d == Mixed(a, at, b, n + 1)
           k == (n + at) + 1
           e == b[n + 1]
           t == InsertAt(c, k, e)
           size == Len(a)
<1>1. /\ n \in Nat /\ at \in Nat /\ size \in Nat /\ at <= size
      /\ n + 1 \in 1 .. Len(b) /\ n + 1 \in 0 .. Len(b) /\ e \in S
  OBVIOUS
<1>2. /\ c \in Seq(S) /\ Len(c) = size + n
      /\ \A x \in 1 .. at : c[x] = a[x]
      /\ \A x \in 1 .. n : c[at + x] = b[x]
      /\ \A x \in at + 1 .. size : c[x + n] = a[x]
  BY MixedIs DEF IsMixed
<1>3. /\ d \in Seq(S) /\ Len(d) = size + (n + 1)
      /\ \A x \in 1 .. at : d[x] = a[x]
      /\ \A x \in 1 .. n + 1 : d[at + x] = b[x]
      /\ \A x \in at + 1 .. size : d[x + (n + 1)] = a[x]
  <2> DEFINE m == n + 1
  <2>1. m \in 0 .. Len(b)
    BY <1>1
  <2> HIDE DEF m
  <2>2. IsMixed(S, a, at, b, m, Mixed(a, at, b, m))
    BY <2>1, MixedIs
  <2>3. IsMixed(S, a, at, b, n + 1, d)
    BY <2>2 DEF m
  <2> HIDE DEF d
  <2> QED BY <2>3 DEF IsMixed
<1> HIDE DEF c, d, size, e
<1>4. k \in 1 .. Len(c) + 1 /\ n + at \in 0 .. Len(c)
  BY <1>1, <1>2
<1>5. /\ t \in Seq(S) /\ Len(t) = Len(c) + 1
      /\ \A j \in 1 .. k - 1 : t[j] = c[j]
      /\ t[k] = e
      /\ \A j \in k .. Len(c) : t[j + 1] = c[j]
  <2> HIDE DEF k
  <2>1. IsSplit(S, c, k, e, t)
    BY <1>1, <1>2, <1>4, SplitIs
  <2> HIDE DEF t
  <2> QED BY <2>1 DEF IsSplit
<1> HIDE DEF t
<1>6. Len(d) = Len(t)
  BY <1>1, <1>2, <1>3, <1>5
<1>7. ASSUME NEW x \in 1 .. Len(d)
      PROVE  d[x] = t[x]
  <2>1. x \in Nat /\ x > 0 /\ x <= size + n + 1
    BY <1>1, <1>3
  <2>2. CASE x <= at
    <3>1. x \in 1 .. at /\ x \in 1 .. k - 1
      BY <1>1, <2>1, <2>2
    <3> QED BY <1>2, <1>3, <1>5, <3>1
  <2>3. CASE at < x /\ x < k
    <3> DEFINE y == x - at
    <3>1. y \in 1 .. n /\ y \in 1 .. n + 1 /\ at + y = x /\ x \in 1 .. k - 1
      BY <1>1, <2>1, <2>3
    <3> HIDE DEF y, k
    <3>2. d[at + y] = b[y] /\ c[at + y] = b[y] /\ t[x] = c[x]
      BY <1>2, <1>3, <1>5, <3>1
    <3> QED BY <3>1, <3>2
  <2>4. CASE x = k
    <3>1. n + 1 \in 1 .. n + 1 /\ at + (n + 1) = x
      BY <1>1, <2>4
    <3> QED BY <1>3, <1>5, <2>4, <3>1 DEF e
  <2>5. CASE k < x
    <3> DEFINE y == x - (n + 1)
    <3>1. /\ y \in at + 1 .. size /\ y + (n + 1) = x /\ y + n = x - 1
          /\ x - 1 \in k .. Len(c) /\ (x - 1) + 1 = x
      BY <1>1, <1>2, <2>1, <2>5
    <3> HIDE DEF y, k
    <3>2. d[y + (n + 1)] = a[y]
      BY <1>3, <3>1
    <3>3. c[y + n] = a[y]
      BY <1>2, <3>1
    <3>4. t[(x - 1) + 1] = c[x - 1]
      BY <1>5, <3>1
    <3> QED BY <3>1, <3>2, <3>3, <3>4
  <2> QED BY <1>1, <2>1, <2>2, <2>3, <2>4, <2>5
<1>8. d = t
  BY <1>3, <1>5, <1>6, <1>7, SameSeq
<1> QED BY <1>4, <1>8 DEF c, d, t, e

LEMMA MixedNew ==
    ASSUME NEW S, NEW a \in Seq(S), NEW b \in Seq(S), NEW at \in 0 .. Len(a),
           NEW n \in 0 .. Len(b), n < Len(b),
           IsInjective(b), ToSet(b) \cap ToSet(a) = {}
    PROVE  b[n + 1] \notin ToSet(Mixed(a, at, b, n)) /\ b[n + 1] \in S
<1> DEFINE c == Mixed(a, at, b, n)
           size == Len(a)
<1>1. /\ c \in Seq(S) /\ Len(c) = size + n
      /\ \A x \in 1 .. at : c[x] = a[x]
      /\ \A x \in 1 .. n : c[at + x] = b[x]
      /\ \A x \in at + 1 .. size : c[x + n] = a[x]
  BY MixedIs DEF IsMixed
<1>2. /\ n \in Nat /\ at \in Nat /\ size \in Nat /\ at <= size
      /\ n + 1 \in 1 .. Len(b)
  OBVIOUS
<1>3. b[n + 1] \in ToSet(b) /\ b[n + 1] \in S
  BY <1>2 DEF ToSet
<1>4. ASSUME NEW x \in 1 .. Len(c)
      PROVE  c[x] # b[n + 1]
  <2> HIDE DEF c, size
  <2>1. CASE x <= at
    <3>1. x \in 1 .. at /\ x \in 1 .. Len(a)
      BY <1>1, <1>2, <2>1 DEF size
    <3>2. c[x] \in ToSet(a)
      BY <1>1, <3>1 DEF ToSet
    <3> QED BY <1>3, <3>2
  <2>2. CASE at < x /\ x <= at + n
    <3>1. x - at \in 1 .. n /\ x - at \in 1 .. Len(b) /\ at + (x - at) = x /\ x - at # n + 1
      BY <1>2, <2>2
    <3>2. c[x] = b[x - at]
      BY <1>1, <3>1
    <3>3. DOMAIN b = 1 .. Len(b)
      OBVIOUS
    <3> DEFINE y == x - at
    <3>4. y \in DOMAIN b /\ n + 1 \in DOMAIN b /\ y # n + 1
      BY <1>2, <3>1, <3>3
    <3> HIDE DEF y
    <3>5. b[y] # b[n + 1]
      BY <3>4 DEF IsInjective
    <3> QED BY <3>2, <3>5 DEF y
  <2>3. CASE at + n < x
    <3>1. x - n \in at + 1 .. size /\ (x - n) + n = x /\ x - n \in 1 .. Len(a)
      BY <1>1, <1>2, <2>3 DEF size
    <3>2. c[x] = a[x - n]
      BY <1>1, <3>1
    <3>3. c[x] \in ToSet(a)
      BY <3>1, <3>2 DEF ToSet
    <3> QED BY <1>3, <3>3
  <2> QED BY <1>2, <2>1, <2>2, <2>3
<1>5. b[n + 1] \notin ToSet(c)
  <2> HIDE DEF c
  <2> QED BY <1>1, <1>4 DEF ToSet
<1> QED BY <1>3, <1>5

(* The moved pages go in one after the other.                              *)
LEMMA InsertsGood ==
    ASSUME NEW d, Good(d), NEW dest \in 0 .. Len(ThePages(d)), NEW new \in Seq(Page),
           IsInjective(new), ToSet(new) \cap ToSet(ThePages(d)) = {}
    PROVE  LET e == InsertPages(d, dest, new)
           IN  Good(e) /\ ThePages(e) = Mixed(ThePages(d), dest, new, Len(new))
<1> DEFINE L == ThePages(d)
           m == Len(new)
           Right(e, n) == Good(e) /\ ThePages(e) = Mixed(L, dest, new, n)
<1>1. L \in Seq(Page) /\ m \in Nat /\ dest \in Nat /\ dest \in 0 .. Len(L)
  BY GoodFacts
<1>2. PICK after : InsertsDone(d, dest, new, after)
  BY <1>1, InsertsTaken
<1>3. /\ InsertPages(d, dest, new) = after[m] /\ after[0] = d
      /\ \A n \in 0 .. m : n < m =>
           after[n + 1] = InsertNewPage(after[n], n + dest, new[n + 1])
  BY <1>2 DEF InsertsDone
<1>4. ToSet(new) \cap ToSet(L) = {}
  OBVIOUS
<1> HIDE DEF L
<1> DEFINE S == {n \in 0 .. m : Right(after[n], n)}
<1>5. 0 \in S
  <2>1. Right(d, 0)
    BY <1>1, MixedNone DEF L
  <2> HIDE DEF Right
  <2> QED BY <1>1, <1>3, <2>1
<1>6. ASSUME NEW n \in 0 .. m, n \in S, n < m
      PROVE  n + 1 \in S
  <2> DEFINE e == after[n]
             page == new[n + 1]
             i == n + dest
             f == InsertNewPage(e, i, page)
             c == Mixed(L, dest, new, n)
  <2>1. Good(e) /\ ThePages(e) = c
    BY <1>6
  <2>2. page \in Page /\ page \notin ToSet(c)
    BY <1>1, <1>4, <1>6, MixedNew
  <2>3. i \in 0 .. Len(c) /\ Mixed(L, dest, new, n + 1) = InsertAt(c, i + 1, page)
    BY <1>1, <1>6, MixedNext
  <2> HIDE DEF e, page, i, c
  <2>4. Inserted(e, f, i, page)
    BY <2>1, <2>2, <2>3, InsertGood
  <2>5. Right(f, n + 1)
    BY <2>1, <2>3, <2>4 DEF Inserted
  <2>6. after[n + 1] = f
    BY <1>3, <1>6 DEF e, i, page
  <2>7. n + 1 \in 0 .. m
    BY <1>1, <1>6
  <2> HIDE DEF Right
  <2> QED BY <2>5, <2>6, <2>7
<1> HIDE DEF Right
<1>7. m \in S
  <2>1. 0 .. m \subseteq S
    <3> HIDE DEF S
    <3> QED BY <1>1, <1>5, <1>6, UpToBound
  <2> QED BY <1>1, <2>1
<1>8. Right(InsertPages(d, dest, new), m)
  BY <1>3, <1>7
<1> QED BY <1>8 DEF Right, L

-----------------------------------------------------------------------------
(* Moving pages.                                                           *)
LEMMA MovedIs ==
    ASSUME NEW L \in Seq(Page), IsInjective(L),
           NEW indices \in Seq(0 .. Len(L) - 1), IsInjective(indices),
           NEW dest \in 0 .. Len(L) - Len(indices),
           NEW moved, moved = [k \in DOMAIN indices |-> L[indices[k] + 1]],
           NEW rest, rest = Seqs!Without(L, ToSet(indices))
    PROVE  /\ rest \in Seq(Page) /\ dest \in 0 .. Len(rest)
           /\ moved \in Seq(Page) /\ IsInjective(moved)
           /\ ToSet(moved) \cap ToSet(rest) = {}
           /\ Mixed(rest, dest, moved, Len(moved)) = Seqs!Moved(L, indices, dest)
<1> DEFINE N == Len(L)
           m == Len(indices)
           I == ToSet(indices)
           K == Kept(L, I)
<1>1. N \in Nat /\ m \in Nat /\ DOMAIN indices = 1 .. m
  OBVIOUS
<1>2. /\ \A k \in 1 .. m : indices[k] \in I
      /\ \A x \in I : \E k \in 1 .. m : indices[k] = x
      /\ \A k \in 1 .. m : indices[k] \in 0 .. N - 1 /\ indices[k] \in Int
  <2>1. \A k \in 1 .. m : indices[k] \in 0 .. N - 1
    OBVIOUS
  <2>2. I = {indices[k] : k \in 1 .. m}
    BY <1>1 DEF ToSet
  <2>3. \A k \in 1 .. m : indices[k] \in Int
    BY <1>1, <2>1
  <2> HIDE DEF I, m, N, K
  <2>4. /\ \A k \in 1 .. m : indices[k] \in I
        /\ \A x \in I : \E k \in 1 .. m : indices[k] = x
    BY <2>2
  <2> QED BY <2>1, <2>3, <2>4
<1>3. /\ rest \in Seq(Page) /\ Len(rest) = Cardinality(K)
      /\ \A k \in 1 .. Cardinality(K) : \E u \in K : rest[k] = L[u + 1]
  <2> HIDE DEF I
  <2>1. /\ Len(Seqs!Without(L, I)) = Cardinality(K) /\ Seqs!Without(L, I) \in Seq(Page)
        /\ \A k \in 1 .. Cardinality(K) :
             /\ Seqs!Nth(K, k) \in K
             /\ Seqs!Without(L, I)[k] = L[Seqs!Nth(K, k) + 1]
    BY WithoutIs
  <2>2. rest = Seqs!Without(L, I)
    BY DEF I
  <2> QED BY <2>1, <2>2
<1>4. Cardinality(K) = N - m
  <2> DEFINE all == 0 .. N - 1
  <2>1. IsFiniteSet(all) /\ Cardinality(all) = N
    <3> HIDE DEF N
    <3>1. 0 \in Int /\ N - 1 \in Int
      BY <1>1
    <3>2. /\ IsFiniteSet(0 .. N - 1)
          /\ Cardinality(0 .. N - 1) = IF 0 > N - 1 THEN 0 ELSE (N - 1) - 0 + 1
      BY <3>1, FS_Interval, Zenon
    <3> QED BY <1>1, <3>2
  <2>2. I \subseteq all
    BY <1>2
  <2>3. Cardinality(I) = m
    <3> HIDE DEF N, m, I
    <3> QED BY <1>1, OrderIs DEF N, m, I
  <2>4. K = all \ I
    BY DEF Kept
  <2> HIDE DEF all, K, I, m
  <2>5. all \cap I = I /\ Cardinality(all \ I) = Cardinality(all) - Cardinality(all \cap I)
    BY <2>1, <2>2, FS_Difference
  <2> QED BY <2>1, <2>3, <2>4, <2>5
<1>5. /\ moved \in Seq(Page) /\ Len(moved) = m
      /\ \A k \in 1 .. m : moved[k] = L[indices[k] + 1] /\ indices[k] + 1 \in 1 .. N
  BY <1>1, <1>2
<1>6. \A x, y \in 1 .. N : L[x] = L[y] => x = y
  BY DEF IsInjective
<1>7. IsInjective(moved)
  <2>1. \A j, k \in 1 .. m : indices[j] = indices[k] => j = k
    BY <1>1 DEF IsInjective
  <2>2. ASSUME NEW j \in 1 .. m, NEW k \in 1 .. m, moved[j] = moved[k]
        PROVE  j = k
    <3>1. indices[j] + 1 = indices[k] + 1
      BY <1>5, <1>6, <2>2
    <3> DEFINE x == indices[j]
               y == indices[k]
    <3>2. x \in Int /\ y \in Int /\ x + 1 = y + 1
      BY <1>2, <3>1
    <3> HIDE DEF x, y
    <3>3. x = y
      BY <3>2
    <3>4. indices[j] = indices[k]
      BY <3>3 DEF x, y
    <3> QED BY <2>1, <3>4
  <2>3. DOMAIN moved = 1 .. m
    BY <1>5
  <2> QED BY <2>2, <2>3 DEF IsInjective
<1>8. ToSet(moved) \cap ToSet(rest) = {}
  <2> SUFFICES ASSUME NEW j \in 1 .. m, NEW k \in 1 .. Cardinality(K), moved[j] = rest[k]
               PROVE  FALSE
    <3>1. DOMAIN moved = 1 .. m /\ DOMAIN rest = 1 .. Cardinality(K)
      BY <1>3, <1>5
    <3>2. ASSUME NEW p \in ToSet(moved), p \in ToSet(rest)
          PROVE  FALSE
      <4>1. (\E j \in 1 .. m : p = moved[j]) /\ \E k \in 1 .. Cardinality(K) : p = rest[k]
        BY <3>1, <3>2 DEF ToSet
      <4> QED BY <4>1
    <3> QED BY <3>2
  <2>1. PICK u \in K : rest[k] = L[u + 1]
    BY <1>3
  <2>2. u \in 0 .. N - 1 /\ u \notin I /\ u + 1 \in 1 .. N
    BY <1>1, <2>1 DEF Kept
  <2>3. indices[j] + 1 = u + 1
    BY <1>5, <1>6, <2>1, <2>2
  <2> DEFINE x == indices[j]
  <2>4. x \in Int /\ x \in I
    BY <1>2
  <2> HIDE DEF x
  <2>5. x = u
    BY <2>2, <2>3, <2>4 DEF x
  <2> QED BY <2>2, <2>4, <2>5
<1>9. Mixed(rest, dest, moved, Len(moved)) = Seqs!Moved(L, indices, dest)
  <2>1. SubSeq(moved, 1, Len(moved)) = moved
    BY <1>5
  <2>2. Seqs!Moved(L, indices, dest)
          = SubSeq(rest, 1, dest) \o moved \o SubSeq(rest, dest + 1, Len(rest))
    BY SameOperators DEF Seqs!Moved
  <2> QED BY <2>1, <2>2 DEF Mixed
<1>10. dest \in 0 .. Len(rest)
  BY <1>1, <1>3, <1>4
<1> QED BY <1>3, <1>5, <1>7, <1>8, <1>9, <1>10

LEMMA MoveGood ==
    ASSUME NEW d, Good(d), NEW indices \in Seq(0 .. Len(ThePages(d)) - 1),
           IsInjective(indices), NEW dest \in 0 .. Len(ThePages(d)) - Len(indices)
    PROVE  LET e == MovePages(d, indices, dest)
           IN  Good(e) /\ ThePages(e) = Seqs!Moved(ThePages(d), indices, dest)
<1> DEFINE L == ThePages(d)
           looked == LookedUp(d, indices)
           order == DeletionOrder(indices)
           moved == [k \in DOMAIN indices |-> looked.list[indices[k] + 1]]
           deleted == DeletePages(looked, order)
           rest == Seqs!Without(L, ToSet(indices))
           e == InsertPages(deleted, dest, moved)
<1>1. L \in Seq(Page) /\ Len(L) \in Nat /\ IsInjective(L)
  BY GoodFacts
<1>2. /\ Len(indices) \in Nat /\ DOMAIN indices = 1 .. Len(indices)
      /\ \A n \in 1 .. Len(indices) : indices[n] \in Nat /\ indices[n] < Len(L)
  BY <1>1
<1>3. /\ Good(looked) /\ ThePages(looked) = L
      /\ Cached(looked.list, L, {indices[n] + 1 : n \in 1 .. Len(indices)})
  <2> HIDE DEF looked
  <2>1. LET E == LookedUp(d, indices)
        IN  /\ Good(E) /\ E.kids = d.kids /\ ThePages(E) = ThePages(d)
            /\ Cached(E.list, ThePages(d), {indices[n] + 1 : n \in 1 .. Len(indices)})
    BY <1>2, LookedUpGood, Zenon
  <2> QED BY <2>1 DEF looked
<1>4. moved = [k \in DOMAIN indices |-> L[indices[k] + 1]]
  <2> SUFFICES ASSUME NEW k \in 1 .. Len(indices)
               PROVE  looked.list[indices[k] + 1] = L[indices[k] + 1]
    BY <1>2
  <2> DEFINE x == indices[k] + 1
             known == {indices[n] + 1 : n \in 1 .. Len(indices)}
  <2>1. x \in known /\ x \in 1 .. Len(L)
    BY <1>1, <1>2
  <2> HIDE DEF x, known, looked
  <2> QED BY <1>3, <2>1 DEF Cached, x, known
<1> HIDE DEF looked, moved
<1>5. Good(deleted) /\ ThePages(deleted) = rest
  BY <1>3, DeletesGood
<1> HIDE DEF rest
<1>6. /\ rest \in Seq(Page) /\ dest \in 0 .. Len(rest)
      /\ moved \in Seq(Page) /\ IsInjective(moved)
      /\ ToSet(moved) \cap ToSet(rest) = {}
      /\ Mixed(rest, dest, moved, Len(moved)) = Seqs!Moved(L, indices, dest)
  <2>1. rest = Seqs!Without(L, ToSet(indices))
    BY DEF rest
  <2> HIDE DEF L
  <2>2. indices \in Seq(0 .. Len(L) - 1) /\ dest \in 0 .. Len(L) - Len(indices)
    BY DEF L
  <2> QED BY <1>1, <1>4, <2>1, <2>2, MovedIs
<1> HIDE DEF deleted, e
<1>7. Good(e) /\ ThePages(e) = Mixed(rest, dest, moved, Len(moved))
  <2>1. dest \in 0 .. Len(ThePages(deleted)) /\ ToSet(moved) \cap ToSet(ThePages(deleted)) = {}
    BY <1>5, <1>6
  <2> QED BY <1>5, <1>6, <2>1, InsertsGood DEF e
<1>8. MovePages(d, indices, dest) = e
  BY DEF MovePages, e, deleted, moved, looked
<1> QED BY <1>6, <1>7, <1>8

-----------------------------------------------------------------------------
(* Every page hangs from a node.                                           *)
LEMMA FlatFrom ==
    ASSUME NEW G, NEW n \in Nat, NEW S, \A k \in 1 .. n : G[k] \in Seq(S)
    PROVE  \A x \in 1 .. Len(Flat(G, n)) :
             \E k \in 1 .. n : Flat(G, n)[x] \in ToSet(G[k])
<1> DEFINE From(m) == \A x \in 1 .. Len(Flat(G, m)) :
                        \E k \in 1 .. m : Flat(G, m)[x] \in ToSet(G[k])
           T == {m \in 0 .. n : From(m)}
<1>1. 0 \in T
  <2>1. Flat(G, 0) = <<>>
    BY FlatNone
  <2>2. Len(Flat(G, 0)) = 0
    BY <2>1
  <2>3. From(0)
    BY <2>2
  <2> HIDE DEF From
  <2> QED BY <2>3
<1>2. ASSUME NEW m \in 0 .. n, m \in T, m < n
      PROVE  m + 1 \in T
  <2> DEFINE a == Flat(G, m)
             b == G[m + 1]
             c == Flat(G, m + 1)
  <2>1. m \in Nat /\ m + 1 \in 1 .. n /\ m + 1 \in 0 .. n
    BY <1>2
  <2>2. a \in Seq(S)
    BY <2>1, FlatTyped
  <2>3. b \in Seq(S)
    BY <2>1
  <2>4. c = a \o b
    <3>1. \A k \in 1 .. (m + 1) : G[k] \in Seq(S)
      BY <2>1
    <3> QED BY <2>1, <3>1, FlatNext
  <2>5. From(m)
    BY <1>2
  <2>6. \A x \in 1 .. Len(a) : \E k \in 1 .. m : a[x] \in ToSet(G[k])
    BY <2>5
  <2> HIDE DEF a, b, c
  <2>7. IsJoined(S, a, b, c)
    BY <2>2, <2>3, <2>4, JoinIs
  <2>8. ASSUME NEW x \in 1 .. Len(c)
        PROVE  \E k \in 1 .. m + 1 : c[x] \in ToSet(G[k])
    <3>1. Len(c) = Len(a) + Len(b) /\ Len(a) \in Nat /\ Len(b) \in Nat
      BY <2>2, <2>3, <2>7 DEF IsJoined
    <3>2. CASE x <= Len(a)
      <4>1. x \in 1 .. Len(a) /\ c[x] = a[x]
        BY <2>7, <3>1, <3>2 DEF IsJoined
      <4>2. PICK k \in 1 .. m : a[x] \in ToSet(G[k])
        BY <2>6, <4>1
      <4>3. k \in 1 .. m + 1
        BY <2>1
      <4> QED BY <4>1, <4>2, <4>3
    <3>3. CASE Len(a) < x
      <4> DEFINE y == x - Len(a)
      <4>1. y \in 1 .. Len(b) /\ Len(a) + y = x
        BY <3>1, <3>3
      <4> HIDE DEF y
      <4>2. c[x] = b[y]
        BY <2>7, <4>1 DEF IsJoined
      <4>3. c[x] \in ToSet(b)
        BY <2>3, <4>1, <4>2 DEF ToSet
      <4>4. m + 1 \in 1 .. m + 1
        BY <2>1
      <4> QED BY <4>3, <4>4 DEF b
    <3> QED BY <3>1, <3>2, <3>3
  <2>9. From(m + 1)
    BY <2>8 DEF c
  <2> HIDE DEF From
  <2> QED BY <2>1, <2>9
<1>3. From(n)
  <2> HIDE DEF From
  <2>1. 0 .. n \subseteq T
    <3> HIDE DEF T
    <3> QED BY <1>1, <1>2, UpToBound
  <2> QED BY <2>1
<1> QED BY <1>3

LEMMA LeafHangs ==
    ASSUME NEW kids, Descends(kids)
    PROVE  \A p \in ToSet(Leaves(kids, Root)) : \E b \in Branch : p \in ToSet(kids[b])
<1> DEFINE T == {b \in Branch : \A p \in ToSet(Leaves(kids, b)) :
                                  \E c \in Branch : p \in ToSet(kids[c])}
<1>1. kids \in Kids
  BY TreeFacts
<1>2. PICK height : Sinks(kids, height)
  BY TreeFacts
<1>3. ASSUME NEW b \in Branch, \A kid \in ToSet(kids[b]) \cap Branch : kid \in T
      PROVE  b \in T
  <2> DEFINE G == KidLeaves(kids, b)
             n == Len(kids[b])
             L == Leaves(kids, b)
  <2>1. n \in Nat /\ DOMAIN kids[b] = 1 .. n /\ \A k \in 1 .. n : kids[b][k] \in Nodes
    BY TreeFacts
  <2>2. \A k \in 1 .. n : G[k] = Leaves(kids, kids[b][k]) /\ G[k] \in Seq(Page)
    BY <2>1, LeavesTyped DEF KidLeaves
  <2>3. L = Flat(G, n)
    BY LeavesUnfold
  <2> HIDE DEF G, n, L
  <2>4. \A x \in 1 .. Len(L) : \E k \in 1 .. n : L[x] \in ToSet(G[k])
    BY <2>1, <2>2, <2>3, FlatFrom
  <2>5. L \in Seq(Page)
    BY LeavesTyped DEF L, Nodes
  <2>6. ASSUME NEW p \in ToSet(L)
        PROVE  \E c \in Branch : p \in ToSet(kids[c])
    <3>1. PICK x \in 1 .. Len(L) : p = L[x]
      BY <2>5 DEF ToSet
    <3>2. PICK k \in 1 .. n : p \in ToSet(G[k])
      BY <2>4, <3>1
    <3> DEFINE kid == kids[b][k]
    <3>3. kid \in Nodes /\ kid \in ToSet(kids[b]) /\ p \in ToSet(Leaves(kids, kid))
      BY <2>1, <2>2, <3>2 DEF ToSet
    <3>4. CASE kid \in Branch
      BY <1>3, <3>3, <3>4
    <3>5. CASE kid \in Page
      <4>1. Leaves(kids, kid) = <<kid>>
        BY <3>5, LeavesUnfold
      <4> HIDE DEF kid
      <4>2. p = kid
        BY <3>3, <4>1 DEF ToSet
      <4> QED BY <3>3, <4>2
    <3> QED BY <3>3, <3>4, <3>5 DEF Nodes
  <2> QED BY <2>6 DEF L
<1>4. Branch \subseteq T
  <2> HIDE DEF T
  <2> QED BY <1>1, <1>2, <1>3, TreeInduction
<1> QED BY <1>4, NodesAssumption

-----------------------------------------------------------------------------
(* The document as it is loaded.                                           *)
LEMMA LoadedGood ==
    ASSUME NEW kids \in Files, NEW first \in Nat
    PROVE  Good(LoadPages(kids, first)) /\ ThePages(LoadPages(kids, first)) = Leaves(kids, Root)
<1> DEFINE L == Leaves(kids, Root)
           n == Len(L)
           count == [b \in Branch |-> Len(Leaves(kids, b))]
           parent == [p \in Page |-> ParentOf(kids, p)]
           list == [i \in 1 .. n |-> IF i = first THEN L[i] ELSE None]
           none == <<>>
           d == LoadPages(kids, first)
<1>1. IsTree(kids) /\ Descends(kids) /\ kids \in Kids
  BY PageTreeAssumption, TreeFacts DEF IsTree
<1>2. d = [kids |-> kids, count |-> count, parent |-> parent, list |-> list,
           trav |-> none, next |-> 0]
  BY DEF LoadPages
<1>3. L \in Seq(Page) /\ n \in Nat
  <2>1. L \in Seq(Page)
    BY <1>1, LeavesTyped, NodesAssumption DEF Nodes
  <2> HIDE DEF L
  <2> QED BY <2>1
<1>4. count \in [Branch -> Nat]
  <2> SUFFICES ASSUME NEW b \in Branch
               PROVE  Len(Leaves(kids, b)) \in Nat
    OBVIOUS
  <2>1. Leaves(kids, b) \in Seq(Page)
    BY <1>1, LeavesTyped DEF Nodes
  <2> QED BY <2>1
<1>5. parent \in [Page -> Branch \cup {None}]
  BY DEF ParentOf
<1>6. list \in Seq(Page \cup {None}) /\ Len(list) = n /\ Cached(list, L, {})
  <2> HIDE DEF L
  <2>1. \A i \in 1 .. n : list[i] \in Page \cup {None} /\ list[i] \in {None, L[i]}
    BY <1>3
  <2>2. list \in Seq(Page \cup {None}) /\ Len(list) = n
    BY <1>3, <2>1
  <2> HIDE DEF list
  <2> QED BY <2>1, <2>2 DEF Cached
<1>7. ASSUME NEW b \in Branch, NEW p \in ToSet(kids[b]) \cap Page
      PROVE  parent[p] = b
  <2>1. \A c \in Branch : p \in ToSet(kids[c]) => c = b
    <3> SUFFICES ASSUME NEW c \in Branch, p \in ToSet(kids[c])
                 PROVE  c = b
      OBVIOUS
    <3>1. (\E j \in DOMAIN kids[b] : kids[b][j] = p) /\ \E k \in DOMAIN kids[c] : kids[c][k] = p
      BY DEF ToSet
    <3> QED BY <1>1, <3>1 DEF IsTree
  <2>2. ParentOf(kids, p) = b
    BY <2>1 DEF ParentOf
  <2> QED BY <2>2
<1> HIDE DEF count, parent, list
<1>8. none \in Seq(Steps)
  OBVIOUS
<1>9. d \in DocType
  <2> HIDE DEF none
  <2> QED BY <1>1, <1>2, <1>4, <1>5, <1>6, <1>8 DEF DocType, Kids, Nodes, Steps
<1>10. /\ d.kids = kids /\ d.count = count /\ d.parent = parent /\ d.list = list
       /\ d.trav = <<>> /\ d.next = 0
  BY <1>2
<1> HIDE DEF d
<1>11. ThePages(d) = L
  BY <1>10 DEF ThePages
<1>12. CountsRight(d) /\ ParentsRight(d) /\ InStep(d)
  BY <1>7, <1>10 DEF CountsRight, ParentsRight, InStep, count
<1>13. Good(d)
  BY <1>1, <1>6, <1>9, <1>10, <1>11, <1>12 DEF Good
<1> QED BY <1>11, <1>13 DEF d, L

LEMMA PrefixIs ==
    ASSUME NEW S, NEW s \in Seq(S), NEW n \in 0 .. Len(s)
    PROVE  /\ SubSeq(s, 1, n) \in Seq(S) /\ Len(SubSeq(s, 1, n)) = n
           /\ \A x \in 1 .. n : SubSeq(s, 1, n)[x] = s[x] /\ s[x] \in S
OBVIOUS

(* A refused move has looked up the pages before the one given twice.      *)
LEMMA RefusedGood ==
    ASSUME NEW d, Good(d), NEW indices \in Seq(0 .. Len(ThePages(d)) - 1),
           ~IsInjective(indices), NEW first,
           first = CHOOSE n \in DOMAIN indices :
                     /\ \E m \in 1 .. n - 1 : indices[m] = indices[n]
                     /\ IsInjective(SubSeq(indices, 1, n - 1))
    PROVE  LET e == LookedUp(d, SubSeq(indices, 1, first - 1))
           IN  Good(e) /\ ThePages(e) = ThePages(d)
<1> DEFINE m == Len(indices)
           N == Len(ThePages(d))
           D == {n \in 1 .. m : \E j \in 1 .. n - 1 : indices[j] = indices[n]}
           some == SubSeq(indices, 1, first - 1)
<1>1. m \in Nat /\ DOMAIN indices = 1 .. m /\ N \in Nat
  BY GoodFacts
<1>2. D # {}
  <2>1. PICK a \in 1 .. m, b \in 1 .. m : indices[a] = indices[b] /\ a # b
    BY <1>1 DEF IsInjective
  <2>2. (a < b => a \in 1 .. b - 1) /\ (b < a => b \in 1 .. a - 1) /\ (a < b \/ b < a)
    BY <2>1
  <2>3. a < b => b \in D
    BY <2>1, <2>2
  <2>4. b < a => a \in D
    BY <2>1, <2>2
  <2> QED BY <2>2, <2>3, <2>4
<1>3. PICK n \in D : \A y \in D : n <= y
  <2>1. D \in SUBSET Nat
    OBVIOUS
  <2> HIDE DEF D
  <2> QED BY <1>2, <2>1, LeastElement
<1>4. IsInjective(SubSeq(indices, 1, n - 1))
  <2> DEFINE s == SubSeq(indices, 1, n - 1)
  <2>1. DOMAIN s = 1 .. n - 1 /\ \A x \in 1 .. n - 1 : s[x] = indices[x]
    BY <1>1
  <2> HIDE DEF s
  <2>2. ASSUME NEW a \in 1 .. n - 1, NEW b \in 1 .. n - 1, indices[a] = indices[b], a < b
        PROVE  FALSE
    <3>1. b \in 1 .. m /\ a \in 1 .. b - 1 /\ ~(n <= b)
      BY <1>1, <1>3, <2>2
    <3>2. b \in D
      BY <2>2, <3>1
    <3> QED BY <1>3, <3>1, <3>2
  <2>3. ASSUME NEW a \in 1 .. n - 1, NEW b \in 1 .. n - 1, indices[a] = indices[b], a # b
        PROVE  FALSE
    <3>1. a < b \/ b < a
      BY <2>3
    <3> QED BY <2>2, <2>3, <3>1
  <2> QED BY <2>1, <2>3 DEF IsInjective, s
<1>5. n \in DOMAIN indices /\ \E j \in 1 .. n - 1 : indices[j] = indices[n]
  BY <1>1, <1>3
<1> DEFINE P(x) == /\ \E j \in 1 .. x - 1 : indices[j] = indices[x]
                   /\ IsInjective(SubSeq(indices, 1, x - 1))
<1>6. first \in 1 .. m
  <2>1. P(n)
    BY <1>4, <1>5
  <2>2. first = CHOOSE x \in DOMAIN indices : P(x)
    OBVIOUS
  <2> HIDE DEF P
  <2> QED BY <1>1, <1>5, <2>1, <2>2
<1>7. /\ Len(some) \in Nat
      /\ \A x \in 1 .. Len(some) : some[x] \in Nat /\ some[x] < N
  <2> DEFINE k == first - 1
             I == 0 .. N - 1
  <2>1. k \in 0 .. Len(indices)
    BY <1>1, <1>6
  <2>2. \A y \in I : y \in Nat /\ y < N
    BY <1>1
  <2>3. indices \in Seq(I)
    OBVIOUS
  <2> HIDE DEF k, I
  <2>4. Len(some) = k /\ \A x \in 1 .. k : some[x] \in I
    <3>1. /\ SubSeq(indices, 1, k) \in Seq(I) /\ Len(SubSeq(indices, 1, k)) = k
          /\ \A x \in 1 .. k : SubSeq(indices, 1, k)[x] = indices[x] /\ indices[x] \in I
      BY <2>1, <2>3, PrefixIs, Zenon
    <3>2. some = SubSeq(indices, 1, k)
      BY DEF k
    <3> HIDE DEF some
    <3> QED BY <3>1, <3>2
  <2> HIDE DEF some, N
  <2> QED BY <2>1, <2>2, <2>4
<1> HIDE DEF some
<1> QED BY <1>7, LookedUpGood DEF some

-----------------------------------------------------------------------------
(* What lies to the left of the stack is the pages before it.              *)
LEMMA BeforeIs ==
    ASSUME NEW kids, Descends(kids), NEW b \in Branch, NEW k \in 1 .. Len(kids[b]) + 1
    PROVE  /\ Before(kids, b, k) = FlattenSeq([j \in 1 .. k - 1 |-> Leaves(kids, kids[b][j])])
           /\ Before(kids, b, k) \in Seq(Page)
           /\ Len(Before(kids, b, k)) <= Len(Leaves(kids, b))
           /\ \A x \in 1 .. Len(Before(kids, b, k)) : Before(kids, b, k)[x] = Leaves(kids, b)[x]
<1> DEFINE G == KidLeaves(kids, b)
           n == Len(kids[b])
<1>1. n \in Nat /\ DOMAIN kids[b] = 1 .. n /\ \A j \in 1 .. n : kids[b][j] \in Nodes
  BY TreeFacts
<1>2. \A j \in 1 .. n : G[j] = Leaves(kids, kids[b][j]) /\ G[j] \in Seq(Page)
  BY <1>1, LeavesTyped DEF KidLeaves
<1>3. Leaves(kids, b) = Flat(G, n) /\ Before(kids, b, k) = Flat(G, k - 1)
  BY LeavesUnfold DEF Before
<1> HIDE DEF G, n
<1>4. k - 1 \in 0 .. n /\ \A j \in 1 .. k - 1 : j \in 1 .. n
  BY <1>1 DEF n
<1>5. Flat(G, k - 1) = FlattenSeq([j \in 1 .. k - 1 |-> Leaves(kids, kids[b][j])])
  <2>1. [j \in 1 .. k - 1 |-> G[j]] = [j \in 1 .. k - 1 |-> Leaves(kids, kids[b][j])]
    BY <1>2, <1>4
  <2> QED BY <2>1 DEF Flat
<1>6. Flat(G, k - 1) \in Seq(Page)
  BY <1>1, <1>2, <1>4, FlatTyped
<1>7. /\ Len(Flat(G, k - 1)) <= Len(Flat(G, n))
      /\ \A x \in 1 .. Len(Flat(G, k - 1)) : Flat(G, k - 1)[x] = Flat(G, n)[x]
  <2>1. CASE k - 1 = 0
    <3>1. Flat(G, k - 1) = <<>>
      BY <2>1, FlatNone
    <3>2. Len(Flat(G, k - 1)) = 0
      BY <3>1
    <3>3. Flat(G, n) \in Seq(Page)
      <4>1. n \in 0 .. n /\ \A j \in 1 .. n : G[j] \in Seq(Page)
        BY <1>1, <1>2
      <4> QED BY <1>1, <4>1, FlatTyped
    <3>4. Len(Flat(G, n)) \in Nat
      BY <3>3
    <3> QED BY <3>2, <3>4
  <2>2. CASE k - 1 # 0
    <3> DEFINE j == k - 1
    <3>1. j \in 1 .. n
      BY <1>4, <2>2
    <3> HIDE DEF j
    <3>2. /\ Len(Flat(G, j)) <= Len(Flat(G, n))
          /\ \A x \in 1 .. Len(Flat(G, j)) : Flat(G, n)[x] = Flat(G, j)[x]
      <4>1. \A i \in 1 .. n : G[i] \in Seq(Page)
        BY <1>2
      <4>2. \A i \in 1 .. n :
              /\ Len(Flat(G, i)) = Len(Flat(G, i - 1)) + Len(G[i])
              /\ Len(Flat(G, i)) <= Len(Flat(G, n))
              /\ \A x \in 1 .. Len(Flat(G, i)) : Flat(G, n)[x] = Flat(G, i)[x]
              /\ \A x \in 1 .. Len(G[i]) : Flat(G, n)[Len(Flat(G, i - 1)) + x] = G[i][x]
        BY <1>1, <4>1, FlatAt
      <4> QED BY <3>1, <4>2
    <3> QED BY <3>2 DEF j
  <2> QED BY <2>1, <2>2
<1> QED BY <1>3, <1>5, <1>6, <1>7

Passed(kids, trav) ==
    FlattenSeq([n \in DOMAIN trav |->
      LET a == trav[n] IN FlattenSeq([k \in 1 .. a.child - 1 |->
        Leaves(kids, kids[a.node][k])])])

LEMMA PassedIs ==
    ASSUME NEW kids, Descends(kids), NEW trav, NEW at, Stands(kids, trav, at)
    PROVE  Passed(kids, trav) = SubSeq(Leaves(kids, Root), 1, Here(kids, trav, at))
<1> DEFINE m == Len(trav)
           L == Leaves(kids, Root)
           G == [n \in 1 .. m |-> Before(kids, trav[n].node, trav[n].child)]
           H(n) == IF n = 0 THEN 0 ELSE at[n] + Len(G[n])
           Right(n) == /\ H(n) \in 0 .. Len(L) /\ Len(Flat(G, n)) = H(n)
                       /\ \A x \in 1 .. H(n) : Flat(G, n)[x] = L[x]
           T == {n \in 0 .. m : Right(n)}
<1>1. /\ m \in Nat /\ m > 0 /\ DOMAIN trav = 1 .. m
      /\ \A n \in 1 .. m :
           /\ trav[n].node \in Branch /\ trav[n].child \in Nat \ {0}
           /\ trav[n].child <= Len(kids[trav[n].node]) + 1
           /\ at[n] \in Nat
      /\ Here(kids, trav, at) \in Nat /\ Here(kids, trav, at) <= Len(L)
  BY StandsFacts
<1>2. \A n \in 1 .. m : trav[n].child \in 1 .. Len(kids[trav[n].node]) + 1
  <2> SUFFICES ASSUME NEW n \in 1 .. m
               PROVE  trav[n].child \in 1 .. Len(kids[trav[n].node]) + 1
    OBVIOUS
  <2> DEFINE c == trav[n].child
             l == Len(kids[trav[n].node])
  <2>1. c \in Nat \ {0} /\ c <= l + 1 /\ l \in Nat
    BY <1>1, TreeFacts
  <2> HIDE DEF c, l
  <2> QED BY <2>1 DEF c, l
<1>3. L \in Seq(Page) /\ Len(L) \in Nat
  <2>1. L \in Seq(Page)
    BY LeavesTyped, NodesAssumption DEF Nodes
  <2> HIDE DEF L
  <2> QED BY <2>1
<1>4. \A n \in 1 .. m :
        /\ G[n] = FlattenSeq([k \in 1 .. trav[n].child - 1 |->
                                Leaves(kids, kids[trav[n].node][k])])
        /\ G[n] \in Seq(Page) /\ Len(G[n]) \in Nat
        /\ Len(G[n]) <= Len(Leaves(kids, trav[n].node))
        /\ \A x \in 1 .. Len(G[n]) : G[n][x] = Leaves(kids, trav[n].node)[x]
  <2> SUFFICES ASSUME NEW n \in 1 .. m
               PROVE  /\ G[n] = FlattenSeq([k \in 1 .. trav[n].child - 1 |->
                                              Leaves(kids, kids[trav[n].node][k])])
                      /\ G[n] \in Seq(Page) /\ Len(G[n]) \in Nat
                      /\ Len(G[n]) <= Len(Leaves(kids, trav[n].node))
                      /\ \A x \in 1 .. Len(G[n]) : G[n][x] = Leaves(kids, trav[n].node)[x]
    OBVIOUS
  <2> DEFINE b == trav[n].node
             c == trav[n].child
             B == Before(kids, b, c)
  <2>1. b \in Branch /\ c \in 1 .. Len(kids[b]) + 1 /\ G[n] = B
    BY <1>1, <1>2
  <2> HIDE DEF b, c, G
  <2>2. /\ B = FlattenSeq([j \in 1 .. c - 1 |-> Leaves(kids, kids[b][j])])
        /\ B \in Seq(Page)
        /\ Len(B) <= Len(Leaves(kids, b))
        /\ \A x \in 1 .. Len(B) : B[x] = Leaves(kids, b)[x]
    BY <2>1, BeforeIs
  <2> HIDE DEF B
  <2>3. Len(B) \in Nat
    BY <2>2
  <2> QED BY <2>1, <2>2, <2>3 DEF b, c
<1>5. /\ at[1] = 0 /\ \A n \in 1 .. m : Sits(kids, trav[n].node, at[n])
      /\ \A n \in 1 .. m - 1 : at[n + 1] = at[n] + Len(G[n])
  <2>1. \A n \in 1 .. m - 1 : n \in 1 .. m
    BY <1>1
  <2> QED BY <1>1, <2>1 DEF Stands
<1>6. Here(kids, trav, at) = H(m)
  <2>1. Len(at) = m /\ m \in 1 .. m
    BY <1>1 DEF Stands
  <2> QED BY <1>1, <2>1 DEF Here
<1>7. Passed(kids, trav) = Flat(G, m)
  <2>1. [n \in DOMAIN trav |-> LET a == trav[n] IN FlattenSeq([k \in 1 .. a.child - 1 |->
                                 Leaves(kids, kids[a.node][k])])]
          = [n \in 1 .. m |-> G[n]]
    <3> HIDE DEF G
    <3> QED BY <1>1, <1>4
  <2> HIDE DEF G
  <2> QED BY <2>1 DEF Passed, Flat
<1> HIDE DEF m, L, G
<1>8. 0 \in T
  <2>1. Flat(G, 0) = <<>>
    BY FlatNone
  <2>2. Len(Flat(G, 0)) = 0
    BY <2>1
  <2> QED BY <1>1, <1>3, <2>2
<1>9. ASSUME NEW n \in 0 .. m, n \in T, n < m
      PROVE  n + 1 \in T
  <2> DEFINE a == Flat(G, n)
             b == G[n + 1]
             c == Flat(G, n + 1)
             h == H(n)
             B == Leaves(kids, trav[n + 1].node)
  <2>1. n \in Nat /\ n + 1 \in 1 .. m /\ n + 1 \in 0 .. m /\ n + 1 # 0
    BY <1>1, <1>9
  <2>2. Right(n)
    BY <1>9
  <2>3. h \in 0 .. Len(L) /\ Len(a) = h /\ \A x \in 1 .. h : a[x] = L[x]
    BY <2>2
  <2>4. at[n + 1] = h
    <3>1. CASE n = 0
      BY <1>5, <3>1
    <3>2. CASE n # 0
      <4>1. n \in 1 .. m - 1
        BY <1>1, <1>9, <3>2
      <4> QED BY <1>5, <3>2, <4>1
    <3> QED BY <3>1, <3>2
  <2>5. H(n + 1) = h + Len(b)
    BY <2>1, <2>4
  <2>6. a \in Seq(Page) /\ b \in Seq(Page) /\ Len(b) \in Nat /\ Len(b) <= Len(B)
        /\ \A x \in 1 .. Len(b) : b[x] = B[x]
    BY <1>1, <1>4, <2>1, FlatTyped
  <2>7. c = a \o b
    <3>1. \A k \in 1 .. (n + 1) : G[k] \in Seq(Page)
      <4> SUFFICES ASSUME NEW k \in 1 .. (n + 1)
                   PROVE  G[k] \in Seq(Page)
        OBVIOUS
      <4>1. k \in 1 .. m
        BY <1>1, <2>1
      <4> QED BY <1>4, <4>1
    <3> QED BY <2>1, <3>1, FlatNext
  <2>8. h + Len(B) <= Len(L) /\ \A x \in 1 .. Len(B) : L[h + x] = B[x]
    BY <1>5, <2>1, <2>4 DEF Sits, L
  <2>9. Len(B) \in Nat
    <3>1. trav[n + 1].node \in Branch
      BY <1>1, <2>1
    <3>2. B \in Seq(Page)
      BY <3>1, LeavesTyped DEF Nodes
    <3> HIDE DEF B
    <3> QED BY <3>2
  <2> HIDE DEF a, b, c, h, B
  <2>10. IsJoined(Page, a, b, c)
    BY <2>6, <2>7, JoinIs
  <2>11. Len(c) = h + Len(b) /\ h + Len(b) \in 0 .. Len(L)
    BY <1>3, <2>3, <2>6, <2>8, <2>9, <2>10 DEF IsJoined
  <2>12. ASSUME NEW x \in 1 .. h + Len(b)
         PROVE  c[x] = L[x]
    <3>1. CASE x <= h
      <4>1. x \in 1 .. h /\ x \in 1 .. Len(a)
        BY <2>3, <3>1
      <4> QED BY <2>3, <2>10, <4>1 DEF IsJoined
    <3>2. CASE h < x
      <4> DEFINE y == x - h
      <4>1. y \in 1 .. Len(b) /\ y \in 1 .. Len(B) /\ h + y = x
        BY <2>3, <2>6, <2>9, <3>2
      <4> HIDE DEF y
      <4>2. c[Len(a) + y] = b[y]
        BY <2>10, <4>1 DEF IsJoined
      <4> QED BY <2>3, <2>6, <2>8, <4>1, <4>2
    <3> QED BY <2>3, <2>6, <3>1, <3>2
  <2>13. Right(n + 1)
    <3> HIDE DEF H
    <3> QED BY <2>5, <2>11, <2>12 DEF c
  <2> HIDE DEF Right
  <2> QED BY <2>1, <2>13
<1> HIDE DEF H
<1>10. Right(m)
  <2> HIDE DEF Right
  <2>1. 0 .. m \subseteq T
    <3> HIDE DEF T
    <3> QED BY <1>1, <1>8, <1>9, UpToBound
  <2> QED BY <1>1, <2>1
<1> DEFINE here == Here(kids, trav, at)
           s == SubSeq(L, 1, here)
           f == Flat(G, m)
<1>11. f \in Seq(Page) /\ Len(f) = here /\ here \in 0 .. Len(L) /\ \A x \in 1 .. here : f[x] = L[x]
  <2>1. f \in Seq(Page)
    <3>1. m \in 0 .. m
      BY <1>1
    <3>2. \A k \in 1 .. m : G[k] \in Seq(Page)
      BY <1>4
    <3> QED BY <1>1, <3>1, <3>2, FlatTyped DEF f
  <2> QED BY <1>6, <1>10, <2>1
<1> HIDE DEF here, f
<1>12. s \in Seq(Page) /\ Len(s) = here /\ \A x \in 1 .. here : s[x] = L[x]
  BY <1>3, <1>11, PrefixIs
<1> HIDE DEF s
<1>13. f = s
  BY <1>11, <1>12, SameSeq
<1> QED BY <1>7, <1>13 DEF f, s, here, L

-----------------------------------------------------------------------------
(* What is inserted, removed or moved is what the document has afterwards. *)
LEMMA PagesInserted ==
    ASSUME NEW S, NEW s \in Seq(S), NEW k \in 1 .. Len(s) + 1, NEW e \in S
    PROVE  ToSet(InsertAt(s, k, e)) \subseteq ToSet(s) \cup {e}
<1> DEFINE t == InsertAt(s, k, e)
<1>1. IsSplit(S, s, k, e, t)
  BY SplitIs
<1> HIDE DEF t
<1>2. ASSUME NEW x \in 1 .. Len(t)
      PROVE  t[x] \in ToSet(s) \cup {e}
  <2>1. Len(t) = Len(s) + 1 /\ Len(s) \in Nat
    BY <1>1 DEF IsSplit
  <2>2. CASE x < k
    <3>1. x \in 1 .. k - 1 /\ x \in 1 .. Len(s)
      BY <2>1, <2>2
    <3> QED BY <1>1, <3>1 DEF IsSplit, ToSet
  <2>3. CASE x = k
    BY <1>1, <2>3 DEF IsSplit
  <2>4. CASE k < x
    <3> DEFINE y == x - 1
    <3>1. y \in k .. Len(s) /\ y \in 1 .. Len(s) /\ y + 1 = x
      BY <2>1, <2>4
    <3> HIDE DEF y
    <3>2. t[x] = s[y]
      BY <1>1, <3>1 DEF IsSplit
    <3> QED BY <3>1, <3>2 DEF ToSet
  <2> QED BY <2>2, <2>3, <2>4
<1>3. t \in Seq(S)
  BY <1>1 DEF IsSplit
<1>4. \A y \in ToSet(t) : \E x \in 1 .. Len(t) : y = t[x]
  BY <1>3 DEF ToSet
<1> QED BY <1>2, <1>4 DEF t

LEMMA PagesRemoved ==
    ASSUME NEW S, NEW s \in Seq(S), NEW k \in 1 .. Len(s)
    PROVE  ToSet(RemoveAt(s, k)) \subseteq ToSet(s)
<1> DEFINE t == RemoveAt(s, k)
<1>1. /\ t \in Seq(S) /\ Len(s) = Len(t) + 1 /\ k \in 1 .. Len(t) + 1
      /\ \A j \in 1 .. k - 1 : s[j] = t[j]
      /\ \A j \in k .. Len(t) : s[j + 1] = t[j]
  BY CloseAt
<1> HIDE DEF t
<1>2. ASSUME NEW x \in 1 .. Len(t)
      PROVE  t[x] \in ToSet(s)
  <2>1. CASE x < k
    <3>1. x \in 1 .. k - 1 /\ x \in 1 .. Len(s)
      BY <1>1, <2>1
    <3> QED BY <1>1, <3>1 DEF ToSet
  <2>2. CASE k <= x
    <3>1. x \in k .. Len(t) /\ x + 1 \in 1 .. Len(s)
      BY <1>1, <2>2
    <3> QED BY <1>1, <3>1 DEF ToSet
  <2> QED BY <1>1, <2>1, <2>2
<1>3. \A y \in ToSet(t) : \E x \in 1 .. Len(t) : y = t[x]
  BY <1>1 DEF ToSet
<1> QED BY <1>2, <1>3 DEF t

LEMMA PagesMoved ==
    ASSUME NEW L \in Seq(Page), IsInjective(L),
           NEW indices \in Seq(0 .. Len(L) - 1), IsInjective(indices),
           NEW dest \in 0 .. Len(L) - Len(indices)
    PROVE  ToSet(Seqs!Moved(L, indices, dest)) \subseteq ToSet(L)
<1> DEFINE moved == [k \in DOMAIN indices |-> L[indices[k] + 1]]
           I == ToSet(indices)
           K == Kept(L, I)
           rest == Seqs!Without(L, I)
           c == Mixed(rest, dest, moved, Len(moved))
<1>1. /\ rest \in Seq(Page) /\ dest \in 0 .. Len(rest)
      /\ moved \in Seq(Page) /\ IsInjective(moved)
      /\ ToSet(moved) \cap ToSet(rest) = {}
      /\ c = Seqs!Moved(L, indices, dest)
  <2>1. moved = [k \in DOMAIN indices |-> L[indices[k] + 1]] /\ rest = Seqs!Without(L, ToSet(indices))
    OBVIOUS
  <2> HIDE DEF moved, rest
  <2> QED BY <2>1, MovedIs
<1>2. \A k \in 1 .. Len(indices) : moved[k] \in ToSet(L)
  <2> SUFFICES ASSUME NEW k \in 1 .. Len(indices)
               PROVE  L[indices[k] + 1] \in ToSet(L)
    OBVIOUS
  <2>1. indices[k] \in 0 .. Len(L) - 1 /\ Len(L) \in Nat
    OBVIOUS
  <2>2. indices[k] + 1 \in 1 .. Len(L)
    BY <2>1
  <2> QED BY <2>2 DEF ToSet
<1>3. Len(moved) = Len(indices) /\ Len(moved) \in Nat
  OBVIOUS
<1> HIDE DEF I, moved
<1>4. \A k \in 1 .. Len(rest) : rest[k] \in ToSet(L)
  <2>1. /\ Len(rest) = Cardinality(K)
        /\ \A k \in 1 .. Cardinality(K) :
             Seqs!Nth(K, k) \in K /\ rest[k] = L[Seqs!Nth(K, k) + 1]
    BY WithoutIs
  <2>2. ASSUME NEW u \in K
        PROVE  L[u + 1] \in ToSet(L)
    <3>1. u + 1 \in 1 .. Len(L)
      BY DEF Kept
    <3> QED BY <3>1 DEF ToSet
  <2> HIDE DEF rest, K
  <2> QED BY <2>1, <2>2
<1> HIDE DEF rest
<1>5. IsMixed(Page, rest, dest, moved, Len(moved), c)
  <2>1. Len(moved) \in 0 .. Len(moved)
    BY <1>3
  <2> QED BY <1>1, <2>1, MixedIs
<1> HIDE DEF c
<1>6. ASSUME NEW x \in 1 .. Len(c)
      PROVE  c[x] \in ToSet(L)
  <2> DEFINE n == Len(moved)
             size == Len(rest)
  <2>1. Len(c) = size + n /\ size \in Nat /\ n \in Nat /\ dest \in Nat /\ dest <= size
    BY <1>1, <1>3, <1>5 DEF IsMixed
  <2>2. CASE x <= dest
    <3>1. x \in 1 .. dest /\ x \in 1 .. Len(rest)
      BY <2>1, <2>2
    <3> QED BY <1>4, <1>5, <3>1 DEF IsMixed
  <2>3. CASE dest < x /\ x <= dest + n
    <3> DEFINE y == x - dest
    <3>1. y \in 1 .. n /\ dest + y = x
      BY <2>1, <2>3
    <3> HIDE DEF y
    <3>2. c[x] = moved[y] /\ y \in 1 .. Len(indices)
      BY <1>3, <1>5, <3>1 DEF IsMixed
    <3> QED BY <1>2, <3>2
  <2>4. CASE dest + n < x
    <3> DEFINE y == x - n
    <3>1. y \in dest + 1 .. size /\ y \in 1 .. Len(rest) /\ y + n = x
      BY <2>1, <2>4
    <3> HIDE DEF y
    <3>2. c[x] = rest[y]
      BY <1>5, <3>1 DEF IsMixed
    <3> QED BY <1>4, <3>1, <3>2
  <2> QED BY <2>1, <2>2, <2>3, <2>4
<1>7. \A y \in ToSet(c) : \E x \in 1 .. Len(c) : y = c[x]
  <2>1. c \in Seq(Page)
    BY <1>5 DEF IsMixed
  <2> QED BY <2>1 DEF ToSet
<1> QED BY <1>1, <1>6, <1>7

-----------------------------------------------------------------------------
(* The invariant: the document is as every operation leaves it, and the    *)
(* pages not created yet are in no place of it.                            *)
IInv ==
    /\ Good(doc) /\ pages = ThePages(doc)
    /\ free \subseteq Page /\ free \cap ToSet(pages) = {}
    /\ edits \in 0 .. MaxEdits

LEMMA InvFacts ==
    ASSUME IInv
    PROVE  /\ pages \in Seq(Page) /\ Len(pages) \in Nat /\ IsInjective(pages)
           /\ Len(doc.list) = Len(pages) /\ pages = ThePages(doc) /\ Good(doc)
           /\ Seqs!Index(pages) = 0 .. Len(pages) - 1
           /\ Seqs!Index(doc.list) = 0 .. Len(pages) - 1
BY GoodFacts DEF IInv, Seqs!Index

LEMMA InitInv == Init => IInv /\ Seqs!Init
<1> SUFFICES ASSUME Init
             PROVE  IInv /\ Seqs!Init
  OBVIOUS
<1>1. PICK kids \in Files, first \in 0 .. MaxPages :
        /\ doc = LoadPages(kids, first) /\ pages = Leaves(kids, Root)
        /\ free = Page \ ToSet(pages)
  BY DEF Init
<1>2. Good(doc) /\ ThePages(doc) = pages
  BY <1>1, LoadedGood
<1>3. edits \in 0 .. MaxEdits
  BY PageTreeAssumption DEF Init
<1>4. IInv
  BY <1>1, <1>2, <1>3 DEF IInv
<1>5. Seqs!Init
  BY <1>4, InvFacts, SameOperators DEF Init, Seqs!Init, Seqs!Done
<1> QED BY <1>4, <1>5

LEMMA EditBound ==
    ASSUME edits \in 0 .. MaxEdits, Edit
    PROVE  edits' \in 0 .. MaxEdits
BY PageTreeAssumption DEF Edit

LEMMA CreateRight ==
    ASSUME IInv, NEW i, NEW page, CreateNewPage(i, page), pages' = ThePages(doc')
    PROVE  IInv' /\ Seqs!Next
<1>1. /\ page \in free /\ i \in 0 .. Len(pages) /\ doc' = InsertNewPage(doc, i, page)
      /\ free' = free \ {page} /\ answer' = Seqs!PageIs(page) /\ Edit
  BY InvFacts DEF CreateNewPage
<1>2. page \in Page /\ page \notin ToSet(pages)
  BY <1>1 DEF IInv
<1>3. Inserted(doc, InsertNewPage(doc, i, page), i, page)
  BY <1>1, <1>2, InvFacts, InsertGood
<1>4. Good(doc') /\ pages' = InsertAt(pages, i + 1, page)
  BY <1>1, <1>3, InvFacts DEF Inserted
<1>5. ToSet(pages') \subseteq ToSet(pages) \cup {page}
  <2>1. i + 1 \in 1 .. Len(pages) + 1
    BY <1>1, InvFacts
  <2> QED BY <1>2, <1>4, <2>1, InvFacts, PagesInserted
<1>6. edits' \in 0 .. MaxEdits
  BY <1>1, EditBound DEF IInv
<1>7. IInv'
  BY <1>1, <1>4, <1>5, <1>6 DEF IInv
<1>8. Seqs!Insert(i, page)
  BY <1>1, <1>2, <1>4, SameOperators DEF Seqs!Insert
<1>9. Seqs!Next
  BY <1>1, <1>2, <1>8 DEF Seqs!Next
<1> QED BY <1>7, <1>9

LEMMA DeleteRight ==
    ASSUME IInv, NEW i, FPDFPage_Delete(i), pages' = ThePages(doc')
    PROVE  IInv' /\ Seqs!Next
<1> DEFINE e == DeletePage(doc, i)
<1>1. /\ i \in 0 .. Len(pages) - 1 /\ doc' = LoadEveryPage(e)
      /\ free' = free /\ answer' = Seqs!Done(TRUE) /\ Edit
  BY InvFacts DEF FPDFPage_Delete
<1> HIDE DEF e
<1>2. i \in Nat /\ i < Len(pages) /\ i + 1 \in 1 .. Len(pages)
  BY <1>1, InvFacts
<1>3. Deleted(doc, e, i)
  BY <1>2, InvFacts, DeleteGood DEF e
<1>4. Good(doc') /\ pages' = RemoveAt(pages, i + 1)
  BY <1>1, <1>3, InvFacts, LoadGood DEF Deleted
<1>5. ToSet(pages') \subseteq ToSet(pages)
  BY <1>2, <1>4, InvFacts, PagesRemoved
<1>6. edits' \in 0 .. MaxEdits
  BY <1>1, EditBound DEF IInv
<1>7. IInv'
  BY <1>1, <1>4, <1>5, <1>6 DEF IInv
<1>8. Seqs!Delete(i) /\ i \in Seqs!Index(pages)
  BY <1>1, <1>4, SameOperators, InvFacts DEF Seqs!Delete
<1>9. Seqs!Next
  BY <1>8 DEF Seqs!Next
<1> QED BY <1>7, <1>9

LEMMA LookUpRight ==
    ASSUME IInv, NEW i, LookUpPage(i), pages' = ThePages(doc')
    PROVE  IInv' /\ Seqs!Next
<1>1. /\ i \in 0 .. Len(pages) - 1 /\ doc' = Lookup(doc, i).doc
      /\ answer' = Seqs!PageIs(Lookup(doc, i).found)
      /\ free' = free /\ edits' = edits
  BY InvFacts DEF LookUpPage
<1>2. i \in Nat /\ i < Len(pages)
  BY <1>1, InvFacts
<1>3. LET r == Lookup(doc, i)
      IN  /\ r.found = ThePages(doc)[i + 1]
          /\ Good(r.doc) /\ r.doc.kids = doc.kids /\ ThePages(r.doc) = ThePages(doc)
          /\ Cached(r.doc.list, ThePages(doc), {} \cup {i + 1})
  <2>1. Good(doc) /\ Cached(doc.list, ThePages(doc), {}) /\ i < Len(ThePages(doc))
    BY <1>2, InvFacts DEF Good
  <2> QED BY <1>2, <2>1, LookupGood, Zenon
<1>4. Good(doc') /\ pages' = pages /\ answer' = Seqs!PageIs(pages[i + 1])
  BY <1>1, <1>3, InvFacts
<1>5. IInv'
  BY <1>1, <1>4 DEF IInv
<1>6. Seqs!PageAt(i) /\ i \in Seqs!Index(pages)
  BY <1>1, <1>4, InvFacts DEF Seqs!PageAt
<1>7. Seqs!Next
  BY <1>6 DEF Seqs!Next
<1> QED BY <1>5, <1>7

LEMMA MoveRight ==
    ASSUME IInv, NEW k \in 1 .. MoveMax, NEW dest,
           NEW indices \in [1 .. k -> Seqs!Index(doc.list)],
           FPDF_MovePages(indices, dest), pages' = ThePages(doc')
    PROVE  IInv' /\ Seqs!Next
<1> DEFINE N == Len(pages)
<1>1. /\ Edit /\ free' = free /\ indices # <<>> /\ Len(indices) <= N
      /\ dest \in 0 .. N - Len(indices)
  BY InvFacts DEF FPDF_MovePages
<1>2. edits' \in 0 .. MaxEdits
  BY <1>1, EditBound DEF IInv
<1>3. N \in Nat /\ k \in Nat /\ indices \in [1 .. k -> 0 .. N - 1]
  BY InvFacts, PageTreeAssumption
<1> HIDE DEF N
<1>4. /\ indices \in Seq(0 .. N - 1) /\ Len(indices) = k
      /\ ToSet(indices) \subseteq 0 .. N - 1
  BY <1>3 DEF ToSet
<1>5. dest \in 0 .. N /\ dest \in 0 .. N - k
  BY <1>1, <1>3, <1>4
<1>6. Seqs!CanMove(pages, indices, dest) <=> IsInjective(indices)
  BY <1>1, <1>4, InvFacts, SameOperators DEF Seqs!CanMove, N
<1>7. CASE IsInjective(indices)
  <2>1. doc' = MovePages(doc, indices, dest) /\ answer' = Seqs!Done(TRUE)
    BY <1>7 DEF FPDF_MovePages
  <2>2. /\ indices \in Seq(0 .. Len(ThePages(doc)) - 1)
        /\ dest \in 0 .. Len(ThePages(doc)) - Len(indices)
    BY <1>1, <1>4, InvFacts DEF N
  <2>3. Good(doc') /\ pages' = Seqs!Moved(pages, indices, dest)
    BY <1>7, <2>1, <2>2, InvFacts, MoveGood
  <2>4. ToSet(pages') \subseteq ToSet(pages)
    BY <1>7, <2>2, <2>3, InvFacts, PagesMoved
  <2>5. IInv'
    BY <1>1, <1>2, <2>3, <2>4 DEF IInv
  <2>6. Seqs!Move(indices, dest)
    BY <1>6, <1>7, <2>1, <2>3 DEF Seqs!Move
  <2> QED BY <1>3, <1>5, <2>5, <2>6, InvFacts DEF Seqs!Next, N
<1>8. CASE ~IsInjective(indices)
  <2> DEFINE first == CHOOSE n \in DOMAIN indices :
                        /\ \E m \in 1 .. n - 1 : indices[m] = indices[n]
                        /\ IsInjective(SubSeq(indices, 1, n - 1))
  <2>1. doc' = LookedUp(doc, SubSeq(indices, 1, first - 1)) /\ answer' = Seqs!Done(FALSE)
    BY <1>8 DEF FPDF_MovePages
  <2>2. indices \in Seq(0 .. Len(ThePages(doc)) - 1)
    BY <1>4, InvFacts DEF N
  <2>3. first = CHOOSE n \in DOMAIN indices :
                  /\ \E m \in 1 .. n - 1 : indices[m] = indices[n]
                  /\ IsInjective(SubSeq(indices, 1, n - 1))
    OBVIOUS
  <2> HIDE DEF first
  <2>4. Good(doc') /\ pages' = pages
    BY <1>8, <2>1, <2>2, <2>3, InvFacts, RefusedGood
  <2>5. IInv'
    BY <1>1, <1>2, <2>4 DEF IInv
  <2>6. Seqs!Move(indices, dest)
    <3>1. Seqs!CanMove(pages, indices, dest) = FALSE
      BY <1>6, <1>8 DEF Seqs!CanMove
    <3> QED BY <2>1, <2>4, <3>1 DEF Seqs!Move
  <2> QED BY <1>3, <1>5, <2>5, <2>6, InvFacts DEF Seqs!Next, N
<1> QED BY <1>7, <1>8

LEMMA StepRight == IInv /\ [Next]_vars => IInv' /\ [Seqs!Next]_(Seqs!vars)
<1> SUFFICES ASSUME IInv, [Next]_vars
             PROVE  IInv' /\ [Seqs!Next]_(Seqs!vars)
  OBVIOUS
<1>1. CASE UNCHANGED vars
  BY <1>1 DEF vars, IInv, Seqs!vars
<1>2. CASE Next
  <2>1. pages' = ThePages(doc') /\ Operation
    BY <1>2 DEF Next
  <2>2. ASSUME NEW i, NEW page, CreateNewPage(i, page)
        PROVE  IInv' /\ Seqs!Next
    BY <2>1, <2>2, CreateRight
  <2>3. ASSUME NEW i, FPDFPage_Delete(i)
        PROVE  IInv' /\ Seqs!Next
    BY <2>1, <2>3, DeleteRight
  <2>4. ASSUME NEW i, LookUpPage(i)
        PROVE  IInv' /\ Seqs!Next
    BY <2>1, <2>4, LookUpRight
  <2>5. ASSUME NEW k \in 1 .. MoveMax, NEW dest,
               NEW indices \in [1 .. k -> Seqs!Index(doc.list)], FPDF_MovePages(indices, dest)
        PROVE  IInv' /\ Seqs!Next
    BY <2>1, <2>5, MoveRight
  <2> QED BY <2>1, <2>2, <2>3, <2>4, <2>5 DEF Operation
<1> QED BY <1>1, <1>2

(* What the invariant says of the document is what the properties say.     *)
LEMMA InvTypeOK == IInv => TypeOK
BY DEF IInv, TypeOK, Good

LEMMA InvCache == IInv => CacheMatchesTree
<1> SUFFICES ASSUME IInv
             PROVE  CacheMatchesTree
  OBVIOUS
<1>1. Cached(doc.list, pages, {}) /\ doc.list \in Seq(Page \cup {None})
  BY InvFacts, GoodFacts DEF Good
<1>2. DOMAIN doc.list = 1 .. Len(pages)
  BY <1>1, InvFacts
<1> QED BY <1>1, <1>2 DEF CacheMatchesTree, Cached

LEMMA InvCounts == IInv => CountsAreRight
BY DEF IInv, Good, CountsRight, CountsAreRight

LEMMA InvParents == IInv => ParentsAreRight
<1> SUFFICES ASSUME IInv, NEW p \in ToSet(pages)
             PROVE  doc.parent[p] \in Branch /\ p \in ToSet(doc.kids[doc.parent[p]])
  BY DEF ParentsAreRight
<1>1. Descends(doc.kids) /\ p \in ToSet(Leaves(doc.kids, Root)) /\ ParentsRight(doc)
  BY InvFacts DEF Good, IsTree, ThePages
<1>2. PICK b \in Branch : p \in ToSet(doc.kids[b])
  BY <1>1, LeafHangs
<1>3. p \in Page
  BY InvFacts DEF ToSet
<1>4. doc.parent[p] = b
  BY <1>1, <1>2, <1>3 DEF ParentsRight
<1> QED BY <1>2, <1>4

LEMMA InvTraversal == IInv => TraversalIsInStep
<1> SUFFICES ASSUME IInv, doc.trav # <<>>
             PROVE  /\ Passed(doc.kids, doc.trav) = SubSeq(pages, 1, doc.next)
                    /\ Passed(doc.kids, doc.trav) = SubSeq(doc.list, 1, doc.next)
  BY DEF TraversalIsInStep, Passed
<1>1. Descends(doc.kids) /\ InStep(doc) /\ pages = Leaves(doc.kids, Root)
  BY InvFacts DEF Good, IsTree, ThePages
<1>2. PICK at : /\ Stands(doc.kids, doc.trav, at) /\ Here(doc.kids, doc.trav, at) = doc.next
                /\ \A x \in 1 .. doc.next : doc.list[x] = pages[x]
  BY <1>1 DEF InStep
<1>3. Passed(doc.kids, doc.trav) = SubSeq(pages, 1, doc.next)
  BY <1>1, <1>2, PassedIs
<1>4. doc.next \in 0 .. Len(pages)
  BY <1>1, <1>2, StandsFacts, InvFacts
<1>5. SubSeq(pages, 1, doc.next) = SubSeq(doc.list, 1, doc.next)
  <2> DEFINE s == SubSeq(pages, 1, doc.next)
             t == SubSeq(doc.list, 1, doc.next)
             S == Page \cup {None}
             n == doc.next
  <2>1. pages \in Seq(S) /\ doc.list \in Seq(S) /\ n \in 0 .. Len(pages) /\ n \in 0 .. Len(doc.list)
    BY <1>4, InvFacts, GoodFacts
  <2> HIDE DEF S, n
  <2>2. /\ SubSeq(pages, 1, n) \in Seq(S) /\ Len(SubSeq(pages, 1, n)) = n
        /\ \A x \in 1 .. n : SubSeq(pages, 1, n)[x] = pages[x] /\ pages[x] \in S
    BY <2>1, PrefixIs, Zenon
  <2>3. /\ SubSeq(doc.list, 1, n) \in Seq(S) /\ Len(SubSeq(doc.list, 1, n)) = n
        /\ \A x \in 1 .. n : SubSeq(doc.list, 1, n)[x] = doc.list[x] /\ doc.list[x] \in S
    BY <2>1, PrefixIs, Zenon
  <2>4. /\ s \in Seq(S) /\ Len(s) = n /\ \A x \in 1 .. n : s[x] = pages[x]
        /\ t \in Seq(S) /\ Len(t) = n /\ \A x \in 1 .. n : t[x] = doc.list[x]
    BY <2>2, <2>3 DEF n
  <2> HIDE DEF s, t
  <2>5. \A x \in 1 .. n : s[x] = t[x]
    BY <1>2, <2>4 DEF n
  <2>6. s = t
    BY <2>4, <2>5, SameSeq
  <2> QED BY <2>6 DEF s, t
<1> QED BY <1>3, <1>5

-----------------------------------------------------------------------------
(* The invariant holds in every state.                                    *)
THEOREM AlwaysIInv == Spec => []IInv
<1>1. Init => IInv
  BY InitInv
<1>2. IInv /\ [Next]_vars => IInv'
  BY StepRight
<1> QED BY <1>1, <1>2, PTL DEF Spec

(* The document keeps its shape, whatever is inserted, deleted, moved or   *)
(* looked up.                                                              *)
THEOREM TypeCorrect == Spec => []TypeOK
BY AlwaysIInv, InvTypeOK, PTL

(* Whatever the tree and the order of the operations, page_list_ never     *)
(* names another page than the one at its place.                           *)
THEOREM CacheAlwaysMatchesTree == Spec => []CacheMatchesTree
BY AlwaysIInv, InvCache, PTL

(* InsertDeletePDFPage and InsertNewPage leave every node's /Count the     *)
(* number of pages below it.                                               *)
THEOREM CountsAlwaysRight == Spec => []CountsAreRight
BY AlwaysIInv, InvCounts, PTL

(* A page always names the node it hangs from as its /Parent.              *)
THEOREM ParentsAlwaysRight == Spec => []ParentsAreRight
BY AlwaysIInv, InvParents, PTL

(* tree_traversal_ and next_page_to_traverse_ are always in step with each *)
(* other, with the tree and with page_list_.                               *)
THEOREM TraversalAlwaysInStep == Spec => []TraversalIsInStep
BY AlwaysIInv, InvTraversal, PTL

(* The tree with its caches implements the sequence of pages: insertions,  *)
(* deletions, moves and lookups have the effect and the answer that PageSeq *)
(* gives them.                                                             *)
THEOREM RefinesPageSeq == Spec => ImplementsPageSeq
<1>1. Init => Seqs!Init
  BY InitInv
<1>2. IInv /\ [Next]_vars => [Seqs!Next]_(Seqs!vars)
  BY StepRight
<1> QED BY <1>1, <1>2, AlwaysIInv, PTL DEF Spec, ImplementsPageSeq, Seqs!Spec
=============================================================================
