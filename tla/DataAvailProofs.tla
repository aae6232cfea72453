--------------------------- MODULE DataAvailProofs ---------------------------
(***************************************************************************)
(* Opening a document while it is downloaded, whatever its page tree, its  *)
(* pieces and the order of the calls: the types of what the calls leave    *)
(* behind, that a document said to be available can be opened, and, when   *)
(* each page is asked for until it is there, that page_list_ is right,     *)
(* that a page said to be available can be loaded, and that none is called *)
(* an error because data is missing.                                       *)
(***************************************************************************)
EXTENDS DataAvail, PageTraversalProofs

-----------------------------------------------------------------------------
(* The walk of CheckPageNode, which comes to a node before its kids.       *)
WalkIn(kids, f) ==
    [n \in Nodes |->
       <<n>> \o (IF n \in Page THEN <<>>
                 ELSE FlattenSeq([k \in DOMAIN kids[n] |-> f[kids[n][k]]]))]

LEMMA WalkThere ==
    ASSUME NEW kids, Descends(kids)
    PROVE  \E f : f = WalkIn(kids, f)
<1>1. PICK height : Sinks(kids, height)
  BY TreeFacts
<1> DEFINE N == Cardinality(Branch) + 1
           Settled(f, m) ==
             \A n \in Nodes : n \in Page \/ height[n] < m => f[n] = WalkIn(kids, f)[n]
           S == {m \in 0 .. N : \E f : Settled(f, m)}
<1>2. N \in Nat /\ \A b \in Branch : height[b] \in Nat /\ height[b] < N
  <2>1. Cardinality(Branch) \in Nat
    BY NodesAssumption, FS_CardinalityType
  <2>2. \A b \in Branch : height[b] \in 0 .. Cardinality(Branch)
    BY <1>1 DEF Sinks
  <2> QED BY <2>1, <2>2
<1> HIDE DEF N
<1>3. 0 \in S
  <2> DEFINE f == [n \in Nodes |-> <<n>> \o <<>>]
  <2>1. \A n \in Nodes : n \in Page => f[n] = WalkIn(kids, f)[n]
    BY DEF WalkIn
  <2>2. \A n \in Nodes : n \in Page \/ ~(height[n] < 0)
    BY <1>2 DEF Nodes
  <2> HIDE DEF f
  <2>3. Settled(f, 0)
    BY <2>1, <2>2
  <2> QED BY <1>2, <2>3
<1>4. ASSUME NEW m \in 0 .. N, m \in S, m < N
      PROVE  m + 1 \in S
  <2>1. PICK f : Settled(f, m)
    BY <1>4
  <2> DEFINE g == WalkIn(kids, f)
  <2>2. ASSUME NEW n \in Nodes, n \in Page \/ height[n] < m + 1
        PROVE  g[n] = WalkIn(kids, g)[n]
    <3>1. CASE n \in Page
      BY <3>1 DEF WalkIn
    <3>2. CASE n \notin Page
      <4>1. n \in Branch /\ height[n] <= m
        BY <1>2, <2>2, <3>2 DEF Nodes
      <4>2. ASSUME NEW k \in DOMAIN kids[n]
            PROVE  f[kids[n][k]] = g[kids[n][k]]
        <5> DEFINE kid == kids[n][k]
        <5>1. kid \in Nodes
          BY <4>1, TreeFacts
        <5>2. kid \in Branch => height[kid] < height[n]
          BY <1>1, <4>1 DEF Sinks, ToSet
        <5>3. kid \in Branch => height[kid] < m
          BY <1>2, <4>1, <5>2
        <5> HIDE DEF kid
        <5> QED BY <2>1, <5>1, <5>3 DEF Nodes, kid
      <4>3. [k \in DOMAIN kids[n] |-> f[kids[n][k]]] = [k \in DOMAIN kids[n] |-> g[kids[n][k]]]
        BY <4>2
      <4> HIDE DEF g
      <4>4. WalkIn(kids, f)[n] = WalkIn(kids, g)[n]
        BY <3>2, <4>3 DEF WalkIn
      <4> QED BY <4>4 DEF g
    <3> QED BY <3>1, <3>2
  <2> HIDE DEF g
  <2>3. Settled(g, m + 1)
    BY <2>2
  <2>4. m + 1 \in 0 .. N
    BY <1>2, <1>4
  <2> HIDE DEF Settled
  <2> QED BY <2>3, <2>4
<1>5. 0 .. N \subseteq S
  <2> HIDE DEF S
  <2> QED BY <1>2, <1>3, <1>4, UpToBound
<1>6. N \in S
  BY <1>2, <1>5
<1>7. PICK f : Settled(f, N)
  BY <1>6
<1> DEFINE g == WalkIn(kids, f)
<1>8. \A n \in Nodes : f[n] = g[n]
  BY <1>2, <1>7 DEF Nodes
<1>9. g = WalkIn(kids, g)
  <2>1. ASSUME NEW n \in Nodes
        PROVE  WalkIn(kids, f)[n] = WalkIn(kids, g)[n]
    <3>1. CASE n \in Page
      BY <3>1 DEF WalkIn
    <3>2. CASE n \notin Page
      <4>1. n \in Branch
        BY <3>2 DEF Nodes
      <4>2. \A k \in DOMAIN kids[n] : kids[n][k] \in Nodes
        BY <4>1, TreeFacts
      <4> HIDE DEF g
      <4>3. [k \in DOMAIN kids[n] |-> f[kids[n][k]]] = [k \in DOMAIN kids[n] |-> g[kids[n][k]]]
        BY <1>8, <4>2
      <4> QED BY <3>2, <4>3 DEF WalkIn
    <3> QED BY <3>1, <3>2
  <2>2. WalkIn(kids, g) = [n \in Nodes |-> WalkIn(kids, g)[n]]
    BY DEF WalkIn
  <2>3. g = [n \in Nodes |-> WalkIn(kids, f)[n]]
    BY DEF WalkIn
  <2> HIDE DEF g
  <2> QED BY <2>1, <2>2, <2>3
<1> QED BY <1>9

KidWalks(kids, b) == [k \in DOMAIN kids[b] |-> PreOrder(kids, kids[b][k])]

LEMMA WalkUnfold ==
    ASSUME NEW kids, Descends(kids)
    PROVE  /\ \A p \in Page : PreOrder(kids, p) = <<p>>
           /\ \A b \in Branch :
                PreOrder(kids, b) = <<b>> \o Flat(KidWalks(kids, b), Len(kids[b]))
<1> DEFINE f == CHOOSE g : g = WalkIn(kids, g)
<1>1. f = WalkIn(kids, f)
  BY WalkThere
<1>2. \A n : PreOrder(kids, n) = f[n]
  BY DEF PreOrder, WalkIn, Nodes
<1> HIDE DEF f
<1>3. ASSUME NEW p \in Page
      PROVE  f[p] = <<p>>
  <2>1. f[p] = <<p>> \o <<>>
    BY <1>1 DEF WalkIn, Nodes
  <2>2. <<p>> \in Seq(Page)
    OBVIOUS
  <2> QED BY <2>1, <2>2
<1>4. ASSUME NEW b \in Branch
      PROVE  PreOrder(kids, b) = <<b>> \o Flat(KidWalks(kids, b), Len(kids[b]))
  <2>1. b \in Nodes /\ b \notin Page
    BY NodesAssumption DEF Nodes
  <2>2. f[b] = <<b>> \o FlattenSeq([k \in DOMAIN kids[b] |-> f[kids[b][k]]])
    BY <1>1, <2>1 DEF WalkIn
  <2>3. DOMAIN kids[b] = 1 .. Len(kids[b])
    BY TreeFacts
  <2>4. [k \in DOMAIN kids[b] |-> f[kids[b][k]]] =
          [k \in 1 .. Len(kids[b]) |-> KidWalks(kids, b)[k]]
    BY <1>2, <2>3 DEF KidWalks
  <2> QED BY <1>2, <2>2, <2>4 DEF Flat
<1> QED BY <1>2, <1>3, <1>4

-----------------------------------------------------------------------------
(* Counting the pages of a walk.                                           *)
Counted(s, i) == Cardinality(PagesAmong(s, 1 .. i))

LEMMA CountFacts ==
    ASSUME NEW s, NEW i \in Nat
    PROVE  /\ Counted(s, i) \in Nat /\ Counted(s, 0) = 0
           /\ s[i + 1] \in Page => Counted(s, i + 1) = Counted(s, i) + 1
           /\ s[i + 1] \notin Page => Counted(s, i + 1) = Counted(s, i)
           /\ \A j \in 0 .. i : Counted(s, j) \in Nat /\ Counted(s, j) <= Counted(s, i)
<1>1. \A j \in Nat : IsFiniteSet(PagesAmong(s, 1 .. j)) /\ Counted(s, j) \in Nat
  <2> SUFFICES ASSUME NEW j \in Nat
               PROVE  IsFiniteSet(PagesAmong(s, 1 .. j)) /\ Counted(s, j) \in Nat
    OBVIOUS
  <2>1. IsFiniteSet(1 .. j)
    BY FS_Interval
  <2>2. PagesAmong(s, 1 .. j) \subseteq 1 .. j
    BY DEF PagesAmong
  <2> QED BY <2>1, <2>2, FS_Subset, FS_CardinalityType DEF Counted
<1>2. Counted(s, 0) = 0
  <2>1. PagesAmong(s, 1 .. 0) = {}
    BY DEF PagesAmong
  <2> QED BY <2>1, FS_EmptySet DEF Counted
<1>3. 1 .. (i + 1) = 1 .. i \cup {i + 1} /\ i + 1 \notin 1 .. i
  OBVIOUS
<1>5. ASSUME s[i + 1] \in Page
      PROVE  Counted(s, i + 1) = Counted(s, i) + 1
  <2>1. /\ PagesAmong(s, 1 .. (i + 1)) = PagesAmong(s, 1 .. i) \cup {i + 1}
        /\ i + 1 \notin PagesAmong(s, 1 .. i)
    BY <1>3, <1>5 DEF PagesAmong
  <2> QED BY <1>1, <2>1, FS_AddElement DEF Counted
<1>6. ASSUME s[i + 1] \notin Page
      PROVE  Counted(s, i + 1) = Counted(s, i)
  <2>1. PagesAmong(s, 1 .. (i + 1)) = PagesAmong(s, 1 .. i)
    BY <1>3, <1>6 DEF PagesAmong
  <2> QED BY <2>1 DEF Counted
<1>7. ASSUME NEW j \in 0 .. i
      PROVE  Counted(s, j) \in Nat /\ Counted(s, j) <= Counted(s, i)
  <2>1. PagesAmong(s, 1 .. j) \subseteq PagesAmong(s, 1 .. i)
    BY DEF PagesAmong
  <2> QED BY <1>1, <2>1, FS_Subset DEF Counted
<1> QED BY <1>1, <1>2, <1>5, <1>6, <1>7

(* In a stretch of a walk that is another walk as many are counted.        *)
Repeats(s, from, t, n) == \A x \in 1 .. n : s[from + x] = t[x]

LEMMA CountStretch ==
    ASSUME NEW s, NEW t, NEW from \in Nat, NEW n \in Nat, Repeats(s, from, t, n)
    PROVE  \A x \in 0 .. n : Counted(s, from + x) = Counted(s, from) + Counted(t, x)
<1> DEFINE S == {x \in 0 .. n : Counted(s, from + x) = Counted(s, from) + Counted(t, x)}
<1>1. 0 \in S
  <2>1. Counted(t, 0) = 0 /\ Counted(s, from) \in Nat /\ from + 0 = from
    BY CountFacts
  <2> QED BY <2>1
<1>2. ASSUME NEW x \in 0 .. n, x \in S, x < n
      PROVE  x + 1 \in S
  <2> DEFINE y == from + x
  <2>1. y \in Nat /\ x \in Nat /\ from + (x + 1) = y + 1 /\ x + 1 \in 1 .. n
    BY <1>2
  <2>2. s[y + 1] = t[x + 1]
    BY <2>1 DEF Repeats
  <2>3. Counted(s, y) = Counted(s, from) + Counted(t, x)
    BY <1>2
  <2> HIDE DEF y
  <2>4. /\ Counted(s, from) \in Nat /\ Counted(t, x) \in Nat
        /\ s[y + 1] \in Page => /\ Counted(s, y + 1) = Counted(s, y) + 1
                                /\ Counted(t, x + 1) = Counted(t, x) + 1
        /\ s[y + 1] \notin Page => /\ Counted(s, y + 1) = Counted(s, y)
                                   /\ Counted(t, x + 1) = Counted(t, x)
    BY <2>1, <2>2, CountFacts
  <2>5. Counted(s, y + 1) = Counted(s, from) + Counted(t, x + 1)
    BY <2>3, <2>4
  <2> QED BY <2>1, <2>5
<1>3. 0 .. n \subseteq S
  <2> HIDE DEF S
  <2> QED BY <1>1, <1>2, UpToBound
<1> QED BY <1>3

(* A walk that passes these pages, in this order, and no others.           *)
Passes(s, t) ==
    /\ s \in Seq(Nodes) /\ t \in Seq(Page)
    /\ Counted(s, Len(s)) = Len(t)
    /\ \A x \in 1 .. Len(s) : s[x] \in Page => s[x] = t[Counted(s, x)]

LEMMA PassesBoth ==
    ASSUME NEW s, NEW t, Passes(s, t), NEW u, NEW v, Passes(u, v)
    PROVE  /\ Passes(s \o u, t \o v)
           /\ \A x \in 0 .. Len(u) : Counted(s \o u, Len(s) + x) = Len(t) + Counted(u, x)
<1> DEFINE m == Len(s)
           n == Len(u)
           c == Len(t)
           w == s \o u
           z == t \o v
<1>1. /\ m \in Nat /\ n \in Nat /\ c \in Nat /\ Len(v) \in Nat
      /\ w \in Seq(Nodes) /\ z \in Seq(Page) /\ Len(w) = m + n /\ Len(z) = c + Len(v)
      /\ \A x \in 1 .. m : w[x] = s[x]
      /\ \A x \in 1 .. n : w[m + x] = u[x]
      /\ \A x \in 1 .. c : z[x] = t[x]
      /\ \A x \in 1 .. Len(v) : z[c + x] = v[x]
  BY DEF Passes
<1>2. Counted(s, m) = c /\ Counted(u, n) = Len(v)
  BY DEF Passes
<1>3. /\ \A x \in 1 .. m : s[x] \in Page => s[x] = t[Counted(s, x)]
      /\ \A x \in 1 .. n : u[x] \in Page => u[x] = v[Counted(u, x)]
  BY DEF Passes
<1> HIDE DEF m, n, c, w, z
<1>4. \A x \in 0 .. m : Counted(w, x) = Counted(s, x)
  <2>1. Repeats(w, 0, s, m)
    BY <1>1 DEF Repeats
  <2>2. \A x \in 0 .. m : Counted(w, 0 + x) = Counted(w, 0) + Counted(s, x)
    BY <1>1, <2>1, CountStretch
  <2>3. Counted(w, 0) = 0
    BY CountFacts
  <2>4. \A x \in 0 .. m : Counted(s, x) \in Nat /\ 0 + x = x
    BY <1>1, CountFacts
  <2> QED BY <2>2, <2>3, <2>4
<1>5. \A x \in 0 .. n : Counted(w, m + x) = c + Counted(u, x)
  <2>3. Repeats(w, m, u, n)
    BY <1>1 DEF Repeats
  <2>1. \A x \in 0 .. n : Counted(w, m + x) = Counted(w, m) + Counted(u, x)
    BY <1>1, <2>3, CountStretch
  <2>2. Counted(w, m) = c
    BY <1>1, <1>2, <1>4
  <2> QED BY <2>1, <2>2
<1>6. Counted(w, m + n) = c + Len(v)
  <2>1. n \in 0 .. n
    BY <1>1
  <2>2. Counted(w, m + n) = c + Counted(u, n)
    BY <1>5, <2>1
  <2> QED BY <1>2, <2>2
<1>7. ASSUME NEW x \in 1 .. m + n, w[x] \in Page
      PROVE  w[x] = z[Counted(w, x)]
  <2>1. CASE x <= m
    <3>1. x \in 1 .. m /\ x \in 0 .. m /\ x - 1 \in Nat /\ (x - 1) + 1 = x
      BY <1>1, <2>1
    <3>2. w[x] = s[x] /\ s[x] = t[Counted(s, x)] /\ Counted(w, x) = Counted(s, x)
      BY <1>1, <1>3, <1>4, <1>7, <3>1
    <3>3. Counted(s, x) \in Nat /\ Counted(s, x) <= c
      BY <1>1, <1>2, <3>1, CountFacts
    <3>4. Counted(s, x) = Counted(s, x - 1) + 1 /\ Counted(s, x - 1) \in Nat
      BY <1>7, <3>1, <3>2, CountFacts
    <3>5. Counted(s, x) \in 1 .. c
      BY <1>1, <3>3, <3>4
    <3> QED BY <1>1, <3>2, <3>5
  <2>2. CASE ~(x <= m)
    <3> DEFINE y == x - m
    <3>1. y \in 1 .. n /\ y \in 0 .. n /\ y - 1 \in Nat /\ (y - 1) + 1 = y /\ m + y = x
      BY <1>1, <2>2
    <3> HIDE DEF y
    <3>2. w[x] = u[y] /\ u[y] = v[Counted(u, y)] /\ Counted(w, x) = c + Counted(u, y)
      BY <1>1, <1>3, <1>5, <1>7, <3>1
    <3>3. Counted(u, y) \in Nat /\ Counted(u, y) <= Len(v)
      BY <1>1, <1>2, <3>1, CountFacts
    <3>4. Counted(u, y) = Counted(u, y - 1) + 1 /\ Counted(u, y - 1) \in Nat
      BY <1>7, <3>1, <3>2, CountFacts
    <3>5. Counted(u, y) \in 1 .. Len(v)
      BY <1>1, <3>3, <3>4
    <3> QED BY <1>1, <3>2, <3>5
  <2> QED BY <2>1, <2>2
<1>8. Passes(w, z)
  BY <1>1, <1>6, <1>7 DEF Passes
<1> QED BY <1>5, <1>8 DEF m, n, c, w, z

LEMMA PassesCounts ==
    ASSUME NEW s, NEW t, Passes(s, t), NEW u, NEW v, Passes(u, v)
    PROVE  \A x \in 0 .. Len(u) : Counted(s \o u, Len(s) + x) = Len(t) + Counted(u, x)
BY PassesBoth

LEMMA PassesOne ==
    /\ \A p \in Page : Passes(<<p>>, <<p>>)
    /\ \A b \in Branch : Passes(<<b>>, <<>>)
    /\ Passes(<<>>, <<>>)
<1>1. ASSUME NEW p \in Page
      PROVE  Passes(<<p>>, <<p>>)
  <2> DEFINE s == <<p>>
  <2>1. s \in Seq(Nodes) /\ s \in Seq(Page) /\ Len(s) = 1 /\ s[1] = p
    BY DEF Nodes
  <2> HIDE DEF s
  <2>2. Counted(s, 1) = 1
    <3>1. Counted(s, 0) = 0 /\ Counted(s, 0 + 1) = Counted(s, 0) + 1
      <4>1. s[0 + 1] \in Page
        BY <2>1
      <4> QED BY <4>1, CountFacts
    <3> QED BY <3>1
  <2>3. \A x \in 1 .. 1 : s[x] \in Page => s[x] = s[Counted(s, x)]
    BY <2>2
  <2>4. Passes(s, s)
    BY <2>1, <2>2, <2>3 DEF Passes
  <2> QED BY <2>4 DEF s
<1>2. ASSUME NEW b \in Branch
      PROVE  Passes(<<b>>, <<>>)
  <2> DEFINE s == <<b>>
  <2>1. s \in Seq(Nodes) /\ <<>> \in Seq(Page) /\ Len(s) = 1 /\ s[1] = b /\ b \notin Page
    BY NodesAssumption DEF Nodes
  <2> HIDE DEF s
  <2>2. Counted(s, 1) = 0
    <3>1. Counted(s, 0) = 0 /\ Counted(s, 0 + 1) = Counted(s, 0)
      <4>1. s[0 + 1] \notin Page
        BY <2>1
      <4> QED BY <4>1, CountFacts
    <3> QED BY <3>1
  <2>3. \A x \in 1 .. 1 : s[x] \notin Page
    BY <2>1
  <2>4. Passes(s, <<>>)
    BY <2>1, <2>2, <2>3 DEF Passes
  <2> QED BY <2>4 DEF s
<1>3. Passes(<<>>, <<>>)
  <2>1. Counted(<<>>, 0) = 0
    BY CountFacts
  <2> QED BY <2>1 DEF Passes
<1> QED BY <1>1, <1>2, <1>3

LEMMA BranchCounts ==
    ASSUME NEW b \in Branch, NEW u, NEW v, Passes(u, v)
    PROVE  \A x \in 0 .. Len(u) : Counted(<<b>> \o u, Len(<<b>>) + x) = Len(<<>>) + Counted(u, x)
<1>1. PICK one, no : one = <<b>> /\ no = <<>> /\ Passes(one, no)
  BY PassesOne
<1>2. Passes(one, no)
  BY <1>1
<1>3. \A x \in 0 .. Len(u) : Counted(one \o u, Len(one) + x) = Len(no) + Counted(u, x)
  BY <1>2, PassesCounts
<1> QED BY <1>1, <1>3

LEMMA PassesAll ==
    ASSUME NEW G, NEW H, NEW n \in Nat, \A k \in 1 .. n : Passes(G[k], H[k])
    PROVE  \A k \in 0 .. n : Passes(Flat(G, k), Flat(H, k))
<1> DEFINE S == {k \in 0 .. n : Passes(Flat(G, k), Flat(H, k))}
<1>1. 0 \in S
  BY FlatNone, PassesOne
<1>2. ASSUME NEW k \in 0 .. n, k \in S, k < n
      PROVE  k + 1 \in S
  <2>1. k \in Nat /\ k + 1 \in 0 .. n /\ k + 1 \in 1 .. n
    BY <1>2
  <2>2. \A j \in 1 .. (k + 1) : j \in 1 .. n
    BY <1>2
  <2>3. \A j \in 1 .. (k + 1) : G[j] \in Seq(Nodes) /\ H[j] \in Seq(Page)
    BY <2>2 DEF Passes
  <2>4. Flat(G, k + 1) = Flat(G, k) \o G[k + 1] /\ Flat(H, k + 1) = Flat(H, k) \o H[k + 1]
    BY <2>1, <2>3, FlatNext
  <2>5. Passes(Flat(G, k), Flat(H, k)) /\ Passes(G[k + 1], H[k + 1])
    BY <1>2, <2>1
  <2>6. Passes(Flat(G, k) \o G[k + 1], Flat(H, k) \o H[k + 1])
    BY <2>5, PassesBoth
  <2>7. Passes(Flat(G, k + 1), Flat(H, k + 1))
    BY <2>4, <2>6
  <2> QED BY <2>1, <2>7
<1>3. 0 .. n \subseteq S
  <2> HIDE DEF S
  <2> QED BY <1>1, <1>2, UpToBound
<1> QED BY <1>3

(* The walk below a node passes the leaves of the node.                    *)
LEMMA WalkPasses ==
    ASSUME NEW kids, Descends(kids)
    PROVE  \A n \in Nodes : Passes(PreOrder(kids, n), Leaves(kids, n))
<1>1. PICK height : Sinks(kids, height)
  BY TreeFacts
<1> DEFINE T == {b \in Branch : Passes(PreOrder(kids, b), Leaves(kids, b))}
<1>2. \A p \in Page : Passes(PreOrder(kids, p), Leaves(kids, p))
  <2> SUFFICES ASSUME NEW p \in Page
               PROVE  Passes(PreOrder(kids, p), Leaves(kids, p))
    OBVIOUS
  <2>1. PreOrder(kids, p) = <<p>> /\ Leaves(kids, p) = <<p>>
    BY WalkUnfold, LeavesUnfold
  <2> QED BY <2>1, PassesOne
<1>3. ASSUME NEW b \in Branch, \A kid \in ToSet(kids[b]) \cap Branch : kid \in T
      PROVE  b \in T
  <2> DEFINE n == Len(kids[b])
             G == KidWalks(kids, b)
             H == KidLeaves(kids, b)
  <2>1. n \in Nat /\ DOMAIN kids[b] = 1 .. n /\ \A k \in DOMAIN kids[b] : kids[b][k] \in Nodes
    BY TreeFacts
  <2>2. \A k \in 1 .. n : Passes(G[k], H[k])
    <3> SUFFICES ASSUME NEW k \in 1 .. n
                 PROVE  Passes(PreOrder(kids, kids[b][k]), Leaves(kids, kids[b][k]))
      BY <2>1 DEF KidLeaves, KidWalks
    <3>1. CASE kids[b][k] \in Page
      BY <1>2, <3>1
    <3>2. CASE kids[b][k] \in Branch
      BY <1>3, <2>1, <3>2 DEF ToSet
    <3> QED BY <2>1, <3>1, <3>2 DEF Nodes
  <2> HIDE DEF n, G, H
  <2>3. n \in 0 .. n /\ \A k \in 0 .. n : Passes(Flat(G, k), Flat(H, k))
    BY <2>1, <2>2, PassesAll
  <2>4. Passes(<<b>> \o Flat(G, n), <<>> \o Flat(H, n))
    BY <2>3, PassesBoth, PassesOne
  <2>5. PreOrder(kids, b) = <<b>> \o Flat(G, n) /\ Leaves(kids, b) = Flat(H, n)
    BY WalkUnfold, LeavesUnfold DEF n, G, H
  <2>6. <<>> \o Flat(H, n) = Flat(H, n)
    <3>1. Flat(H, n) \in Seq(Page)
      BY <2>3 DEF Passes
    <3> QED BY <3>1
  <2>7. Passes(PreOrder(kids, b), Leaves(kids, b))
    BY <2>4, <2>5, <2>6
  <2> QED BY <2>7
<1>4. Branch \subseteq T
  <2>1. kids \in Kids
    BY TreeFacts
  <2> HIDE DEF T
  <2> QED BY <1>1, <1>3, <2>1, TreeInduction
<1> QED BY <1>2, <1>4 DEF Nodes

(* Where the walk below a kid is in the one below its node.                *)
LEMMA KidInWalk ==
    ASSUME NEW kids, Descends(kids), NEW b \in Branch, NEW k \in DOMAIN kids[b]
    PROVE  LET walk  == PreOrder(kids, b)
               below == PreOrder(kids, kids[b][k])
           IN  \E off \in Nat :
                 /\ off + Len(below) <= Len(walk)
                 /\ \A x \in 1 .. Len(below) : walk[off + x] = below[x]
                 /\ Counted(walk, off) = Len(Before(kids, b, k))
<1> DEFINE n == Len(kids[b])
           G == KidWalks(kids, b)
           H == KidLeaves(kids, b)
           all == Flat(G, n)
           left == Flat(G, k - 1)
           walk == PreOrder(kids, b)
           below == PreOrder(kids, kids[b][k])
           off == 1 + Len(left)
<1>1. n \in Nat /\ k \in 1 .. n /\ \A j \in 1 .. n : j \in DOMAIN kids[b] /\ kids[b][j] \in Nodes
  BY TreeFacts
<1>2. \A j \in 1 .. n : Passes(G[j], H[j])
  BY <1>1, WalkPasses DEF KidLeaves, KidWalks
<1>3. G[k] = below
  BY DEF KidWalks
<1>4. walk = <<b>> \o all
  BY WalkUnfold
<1>5. Before(kids, b, k) = Flat(H, k - 1)
  BY DEF Before
<1> HIDE DEF n, G, H, walk, below, left, all
<1>6. k - 1 \in 0 .. n /\ n \in 0 .. n
  BY <1>1
<1>7. Passes(left, Flat(H, k - 1)) /\ Passes(all, Flat(H, n))
  BY <1>1, <1>2, <1>6, PassesAll DEF left, all
<1>8. \A j \in 1 .. n : G[j] \in Seq(Nodes)
  BY <1>2 DEF Passes
<1>9. /\ left \in Seq(Nodes) /\ all \in Seq(Nodes) /\ below \in Seq(Nodes)
      /\ Len(left) \in Nat /\ Len(all) \in Nat /\ Len(below) \in Nat
  BY <1>1, <1>3, <1>7, <1>8 DEF Passes
<1>10. /\ Len(left) + Len(below) <= Len(all)
       /\ \A x \in 1 .. Len(left) : all[x] = left[x]
       /\ \A x \in 1 .. Len(below) : all[Len(left) + x] = below[x]
  <2>3. \A j \in 1 .. n :
          /\ Len(Flat(G, j)) = Len(Flat(G, j - 1)) + Len(G[j])
          /\ Len(Flat(G, j)) <= Len(Flat(G, n))
          /\ \A x \in 1 .. Len(Flat(G, j)) : Flat(G, n)[x] = Flat(G, j)[x]
          /\ \A x \in 1 .. Len(G[j]) : Flat(G, n)[Len(Flat(G, j - 1)) + x] = G[j][x]
    BY <1>1, <1>8, FlatAt
  <2>1. /\ Len(Flat(G, k)) = Len(left) + Len(below)
        /\ Len(Flat(G, k)) <= Len(all)
        /\ \A x \in 1 .. Len(below) : all[Len(left) + x] = below[x]
    BY <1>1, <1>3, <2>3 DEF left, all
  <2>2. \A x \in 1 .. Len(left) : all[x] = left[x]
    <3>1. CASE k = 1
      <4>1. left = <<>>
        BY <3>1, FlatNone DEF left
      <4>2. Len(left) = 0
        BY <4>1
      <4> QED BY <4>2
    <3>2. CASE k # 1
      <4>1. k - 1 \in 1 .. n
        BY <1>1, <3>2
      <4> QED BY <2>3, <4>1 DEF left, all
    <3> QED BY <3>1, <3>2
  <2> QED BY <2>1, <2>2
<1>11. /\ walk \in Seq(Nodes) /\ Len(walk) = 1 + Len(all)
       /\ \A x \in 1 .. Len(all) : walk[1 + x] = all[x]
  <2>1. <<b>> \in Seq(Nodes) /\ Len(<<b>>) = 1
    BY DEF Nodes
  <2> QED BY <1>4, <1>9, <2>1
<1>12. off \in Nat /\ off + Len(below) <= Len(walk)
  BY <1>9, <1>10, <1>11
<1>13. ASSUME NEW x \in 1 .. Len(below)
       PROVE  walk[off + x] = below[x]
  <2>1. Len(left) + x \in 1 .. Len(all) /\ off + x = 1 + (Len(left) + x)
    BY <1>9, <1>10
  <2> HIDE DEF off
  <2> QED BY <1>10, <1>11, <2>1
<1>14. Counted(walk, off) = Len(Flat(H, k - 1))
  <2>1. Len(left) \in 0 .. Len(all) /\ Len(left) \in 0 .. Len(left)
    BY <1>9, <1>10
  <2>7. Passes(<<b>>, <<>>)
    BY PassesOne
  <2>8. \A x \in 0 .. Len(all) :
          Counted(<<b>> \o all, Len(<<b>>) + x) = Len(<<>>) + Counted(all, x)
    BY <1>7, BranchCounts
  <2>2. Counted(walk, Len(<<b>>) + Len(left)) = Len(<<>>) + Counted(all, Len(left))
    BY <1>4, <2>1, <2>8
  <2>3. Len(<<b>>) = 1 /\ Len(<<>>) = 0
    OBVIOUS
  <2>4. Counted(all, 0 + Len(left)) = Counted(all, 0) + Counted(left, Len(left))
    <3>1. Repeats(all, 0, left, Len(left))
      BY <1>9, <1>10 DEF Repeats
    <3> QED BY <1>9, <2>1, <3>1, CountStretch
  <2>5. Counted(left, Len(left)) = Len(Flat(H, k - 1))
    BY <1>7 DEF Passes
  <2>6. Counted(all, 0) = 0 /\ Counted(left, Len(left)) \in Nat /\ 0 + Len(left) = Len(left)
    BY <1>9, CountFacts
  <2> QED BY <2>2, <2>3, <2>4, <2>5, <2>6
<1>15. /\ off \in Nat /\ off + Len(below) <= Len(walk)
       /\ \A x \in 1 .. Len(below) : walk[off + x] = below[x]
       /\ Counted(walk, off) = Len(Before(kids, b, k))
  BY <1>5, <1>12, <1>13, <1>14
<1> HIDE DEF off
<1> QED BY <1>15 DEF walk, below

(* The walk below a node is the document's from a place on, and so many    *)
(* pages have been passed by then.                                         *)
Lies(kids, n, off, at) ==
    LET below == PreOrder(kids, n)
        all   == PreOrder(kids, Root)
    IN  /\ off \in Nat /\ off + Len(below) <= Len(all)
        /\ \A x \in 1 .. Len(below) : all[off + x] = below[x]
        /\ Counted(all, off) = at

LEMMA RootLies ==
    ASSUME NEW kids, Descends(kids)
    PROVE  Lies(kids, Root, 0, 0)
<1>1. PreOrder(kids, Root) \in Seq(Nodes)
  BY WalkPasses, NodesAssumption DEF Passes, Nodes
<1>2. Counted(PreOrder(kids, Root), 0) = 0
  BY CountFacts
<1> QED BY <1>1, <1>2 DEF Lies

LEMMA KidLies ==
    ASSUME NEW kids, Descends(kids), NEW b \in Branch, NEW off, NEW at, Lies(kids, b, off, at),
           NEW k \in DOMAIN kids[b]
    PROVE  \E o : Lies(kids, kids[b][k], o, at + Len(Before(kids, b, k)))
<1> DEFINE all == PreOrder(kids, Root)
           walk == PreOrder(kids, b)
           below == PreOrder(kids, kids[b][k])
           c == Len(Before(kids, b, k))
<1>1. PICK o \in Nat : /\ o + Len(below) <= Len(walk)
                       /\ \A x \in 1 .. Len(below) : walk[o + x] = below[x]
                       /\ Counted(walk, o) = c
  BY KidInWalk
<1>2. /\ off \in Nat /\ off + Len(walk) <= Len(all)
      /\ \A x \in 1 .. Len(walk) : all[off + x] = walk[x]
      /\ Counted(all, off) = at
  BY DEF Lies
<1>3. Len(below) \in Nat /\ Len(walk) \in Nat /\ Len(all) \in Nat
  <2>1. kids[b][k] \in Nodes /\ b \in Nodes /\ Root \in Nodes
    BY TreeFacts, NodesAssumption DEF Nodes
  <2>2. below \in Seq(Nodes) /\ walk \in Seq(Nodes) /\ all \in Seq(Nodes)
    BY <2>1, WalkPasses DEF Passes
  <2> QED BY <2>2
<1> HIDE DEF all, walk, below, c
<1>4. off + o \in Nat /\ (off + o) + Len(below) <= Len(all)
  BY <1>1, <1>2, <1>3
<1>5. ASSUME NEW x \in 1 .. Len(below)
      PROVE  all[(off + o) + x] = below[x]
  <2>1. o + x \in 1 .. Len(walk) /\ (off + o) + x = off + (o + x)
    BY <1>1, <1>2, <1>3
  <2> QED BY <1>1, <1>2, <2>1
<1>6. Counted(all, off + o) = at + c
  <2>1. o \in 0 .. Len(walk)
    BY <1>1, <1>3
  <2>3. Repeats(all, off, walk, Len(walk))
    BY <1>2 DEF Repeats
  <2>2. Counted(all, off + o) = Counted(all, off) + Counted(walk, o)
    BY <1>2, <1>3, <2>1, <2>3, CountStretch
  <2> QED BY <1>1, <1>2, <2>2
<1>7. Lies(kids, kids[b][k], off + o, at + c)
  BY <1>4, <1>5, <1>6 DEF Lies, all, below
<1> QED BY <1>7 DEF c

LEMMA StackLies ==
    ASSUME NEW kids, Descends(kids), NEW trav, NEW at, Stands(kids, trav, at)
    PROVE  \A n \in 1 .. Len(trav) : \E off : Lies(kids, trav[n].node, off, at[n])
<1> DEFINE m == Len(trav)
           S == {n \in 0 .. m - 1 : \E off : Lies(kids, trav[n + 1].node, off, at[n + 1])}
<1>1. m \in Nat /\ m > 0 /\ \A n \in 1 .. m : trav[n].node \in Branch /\ trav[n].child \in Nat \ {0}
  BY StandsFacts
<1>2. 0 \in S
  <2>1. trav[0 + 1].node = Root /\ at[0 + 1] = 0
    BY DEF Stands
  <2>2. Lies(kids, Root, 0, 0)
    BY RootLies
  <2> HIDE DEF m
  <2> QED BY <1>1, <2>1, <2>2
<1>3. ASSUME NEW n \in 0 .. m - 1, n \in S, n < m - 1
      PROVE  n + 1 \in S
  <2> DEFINE l == n + 1
             step == trav[l]
  <2>1. PICK off : Lies(kids, step.node, off, at[l])
    BY <1>3
  <2>2. l \in 1 .. m - 1 /\ l \in 1 .. m /\ l \in 0 .. m - 1 /\ l + 1 = (n + 1) + 1
    <3> HIDE DEF m
    <3> QED BY <1>1, <1>3
  <2>3. /\ step.child <= Len(kids[step.node])
        /\ trav[l + 1].node = kids[step.node][step.child]
        /\ at[l + 1] = at[l] + Len(Before(kids, step.node, step.child))
    <3> HIDE DEF step, l
    <3> QED BY <2>2 DEF Stands, step
  <2>4. step.node \in Branch /\ step.child \in DOMAIN kids[step.node]
    <3>1. step.node \in Branch /\ step.child \in Nat \ {0}
      BY <1>1, <2>2
    <3>2. DOMAIN kids[step.node] = 1 .. Len(kids[step.node]) /\ Len(kids[step.node]) \in Nat
      BY <3>1, TreeFacts
    <3> HIDE DEF step
    <3> QED BY <2>3, <3>1, <3>2
  <2> HIDE DEF step, l
  <2>5. \E o : Lies(kids, trav[l + 1].node, o, at[l + 1])
    BY <2>1, <2>3, <2>4, KidLies
  <2>6. l \in S
    BY <2>2, <2>5
  <2> QED BY <2>6 DEF l
<1>4. 0 .. m - 1 \subseteq S
  <2>1. m - 1 \in Nat
    <3> HIDE DEF m
    <3> QED BY <1>1
  <2> HIDE DEF S, m
  <2> QED BY <1>2, <1>3, <2>1, UpToBound
<1>5. ASSUME NEW n \in 1 .. m
      PROVE  \E off : Lies(kids, trav[n].node, off, at[n])
  <2>1. n - 1 \in 0 .. m - 1 /\ (n - 1) + 1 = n
    <3> HIDE DEF m
    <3> QED BY <1>1
  <2>2. n - 1 \in S
    BY <1>4, <2>1
  <2> HIDE DEF m
  <2> QED BY <2>1, <2>2
<1> QED BY <1>5

(* A kid a lookup stands at is in the walk, behind as many pages.          *)
LEMMA KidOnTheWay ==
    ASSUME NEW kids, Descends(kids), NEW trav, NEW at, Stands(kids, trav, at),
           Last(trav).child <= Len(kids[Last(trav).node])
    PROVE  LET all == PreOrder(kids, Root)
           IN  \E x \in 1 .. Len(all) :
                 /\ all[x] = kids[Last(trav).node][Last(trav).child]
                 /\ Counted(all, x - 1) = Here(kids, trav, at)
<1> DEFINE m == Len(trav)
           top == Last(trav)
           b == top.node
           k == top.child
           kid == kids[b][k]
           all == PreOrder(kids, Root)
           below == PreOrder(kids, kid)
<1>1. m \in Nat /\ m > 0 /\ m \in 1 .. m /\ top = trav[m] /\ b \in Branch /\ kid \in Nodes
      /\ k \in DOMAIN kids[b]
  <2>1. m \in Nat /\ m > 0 /\ top = trav[m] /\ \A n \in 1 .. m : trav[n].node \in Branch
    BY StandsFacts
  <2>2. k \in DOMAIN kids[b] /\ kid \in Nodes
    BY StandPast
  <2>3. m \in 1 .. m
    <3> HIDE DEF m
    <3> QED BY <2>1
  <2> HIDE DEF top, m
  <2> QED BY <2>1, <2>2, <2>3
<1>2. PICK off : Lies(kids, b, off, at[m])
  BY <1>1, StackLies
<1>3. Here(kids, trav, at) = at[m] + Len(Before(kids, b, k))
  BY <1>1 DEF Here, Stands
<1>9. kid = kids[Last(trav).node][Last(trav).child]
  OBVIOUS
<1> HIDE DEF b, k, top, m
<1>4. PICK o : Lies(kids, kid, o, Here(kids, trav, at))
  BY <1>1, <1>2, <1>3, KidLies
<1>5. /\ o \in Nat /\ o + Len(below) <= Len(all)
      /\ \A x \in 1 .. Len(below) : all[o + x] = below[x]
      /\ Counted(all, o) = Here(kids, trav, at)
  BY <1>4 DEF Lies
<1>6. Len(below) \in Nat /\ Len(below) > 0 /\ below[1] = kid
  <2>1. CASE kid \in Page
    <3>1. below = <<kid>>
      BY <2>1, WalkUnfold
    <3> HIDE DEF below
    <3> QED BY <3>1
  <2>2. CASE kid \in Branch
    <3>1. below = <<kid>> \o Flat(KidWalks(kids, kid), Len(kids[kid]))
      BY <2>2, WalkUnfold
    <3>2. below \in Seq(Nodes)
      BY <1>1, WalkPasses DEF Passes
    <3>3. Flat(KidWalks(kids, kid), Len(kids[kid])) \in Seq(Nodes)
      <4> DEFINE n == Len(kids[kid])
                 G == KidWalks(kids, kid)
      <4>1. n \in Nat /\ \A j \in 1 .. n : j \in DOMAIN kids[kid] /\ kids[kid][j] \in Nodes
        BY <2>2, TreeFacts
      <4>2. \A j \in 1 .. n : G[j] \in Seq(Nodes)
        BY <4>1, WalkPasses DEF Passes, KidWalks
      <4>3. n \in Nat
        BY <4>1
      <4> HIDE DEF n, G
      <4>4. n \in 0 .. n
        BY <4>3
      <4>5. \A j \in 0 .. n : Flat(G, j) \in Seq(Nodes)
        BY <4>2, <4>3, FlatTyped
      <4>6. Flat(G, n) \in Seq(Nodes)
        BY <4>4, <4>5
      <4> QED BY <4>6 DEF n, G
    <3>4. <<kid>> \in Seq(Nodes) /\ Len(<<kid>>) = 1
      BY <1>1
    <3> HIDE DEF below, kid
    <3> QED BY <3>1, <3>3, <3>4
  <2> QED BY <1>1, <2>1, <2>2 DEF Nodes
<1>7. Len(all) \in Nat
  <2>1. all \in Seq(Nodes)
    BY WalkPasses, NodesAssumption DEF Passes, Nodes
  <2> QED BY <2>1
<1> HIDE DEF all, below, kid
<1>8. o + 1 \in 1 .. Len(all) /\ all[o + 1] = kid /\ (o + 1) - 1 = o
  <2>1. 1 \in 1 .. Len(below)
    BY <1>6
  <2> QED BY <1>5, <1>6, <1>7, <2>1
<1>10. /\ o + 1 \in 1 .. Len(all)
       /\ all[o + 1] = kids[Last(trav).node][Last(trav).child]
       /\ Counted(all, (o + 1) - 1) = Here(kids, trav, at)
  BY <1>5, <1>8, <1>9
<1> QED BY <1>10 DEF all

-----------------------------------------------------------------------------
(* The inductive invariant.                                                *)

(* Which calls there can be: the document is there for those about pages,  *)
(* and the whole page tree is loaded if its root has no /Count.            *)
CallInv ==
    /\ call.op = "doc" => ~docAvail
    /\ call.op = "page" => open
    /\ call.at = "check" => ~totalLoad /\ (Linear => mainXRef = "ok")
    /\ call.at = "tree" => totalLoad

(* Each kind of file has its own way to the page tree, which in a          *)
(* linearized file is behind the main table.                               *)
LinearInv ==
    /\ status \in {"firstPage", "hintTable"} => Linear
    /\ Linear =>
         /\ status \notin {"loadAllCrossRef", "root", "info"}
         /\ mainXRef # "ok" => ~totalLoad /\ status # "pageTree"

(* Objects wait only while the whole tree is being loaded.                 *)
ObjsInv == pageObjs # {} => totalLoad /\ status = "page"

(* How far an ordinary file has arrived.                                   *)
OpenInv ==
    ~Linear =>
      /\ status \in {"info", "pageTree", "page", "pageLaterLoad", "done"} \/ docAvail
           => Stretch("root") \in arrived
      /\ status \in {"page", "pageLaterLoad", "done"} \/ docAvail
           => Where(Root) \in arrived

TreeInv == LinearInv /\ ObjsInv /\ OpenInv
DInv == TypeOK /\ CallInv /\ TreeInv

(* What the handlers change, without and with the calls around them.       *)
TreeTyped ==
    /\ errors \in 0 .. MaxErrors
    /\ header \in BOOLEAN /\ xrefFound \in BOOLEAN
    /\ status \in {"header", "firstPage", "hintTable", "loadAllCrossRef", "root", "info",
                   "pageTree", "page", "pageLaterLoad", "error", "loadAllFile", "done"}
    /\ nodes \subseteq Branch \cup Page
    /\ totalLoad \in BOOLEAN /\ treeLoaded \in BOOLEAN
    /\ pageObjs \subseteq seen /\ seen \subseteq Branch \cup Page
PageTyped ==
    /\ curOk \in BOOLEAN /\ asked \subseteq Pages /\ loadedPages \subseteq Pages
    /\ mainXRef \in {"untried", "ok", "failed"}
DocTyped ==
    /\ opens \in 0 .. MaxOpens /\ open \in BOOLEAN /\ mainIn \in BOOLEAN
    /\ doc \in DocType
    /\ Len(doc.list) = Len(PagesOf) /\ doc.next \in 0 .. Len(PagesOf)

-----------------------------------------------------------------------------
(* Lemmas.                                                                 *)

(* What is in a well-formed file.                                          *)
LEMMA TreesFacts ==
    ASSUME NEW f \in Files
    PROVE  /\ IsTree(f.kids) /\ Descends(f.kids) /\ f.first <= Len(PageOrder[f])
           /\ PageOrder[f] = Leaves(f.kids, Root) /\ PageOrder[f] \in Seq(Page)
           /\ \A b \in Branch : Leaves(f.kids, b) \in Seq(Page)
           /\ WalkOrder[f] = PreOrder(f.kids, Root) /\ Passes(WalkOrder[f], PageOrder[f])
<1>1. IsTree(f.kids) /\ Descends(f.kids) /\ f.first <= Len(PageOrder[f])
  BY TreesAssumption DEF IsTree
<1>2. PageOrder[f] = Leaves(f.kids, Root) /\ WalkOrder[f] = PreOrder(f.kids, Root)
  BY DEF PageOrder, WalkOrder
<1>3. \A b \in Branch : Leaves(f.kids, b) \in Seq(Page)
  BY <1>1, LeavesTyped DEF Nodes
<1>4. Passes(PreOrder(f.kids, Root), Leaves(f.kids, Root))
  BY <1>1, WalkPasses, NodesAssumption DEF Nodes
<1> QED BY <1>1, <1>2, <1>3, <1>4, NodesAssumption

LEMMA FileFacts ==
    ASSUME TypeOK
    PROVE  /\ Linear \in BOOLEAN /\ PagesOf \in Seq(Page) /\ Len(PagesOf) \in Nat
           /\ file.kids \in [Branch -> Seq(Branch \cup Page)] /\ file.counted \in BOOLEAN
           /\ file.xref \in {"good", "refused", "unusable"}
           /\ file.mainXRef \in {"good", "bad", "none"}
<1>1. file \in Files /\ file \in File
  BY DataAvailAssumption DEF TypeOK
<1>2. PagesOf = Leaves(file.kids, Root) /\ PagesOf \in Seq(Page)
  BY <1>1, TreesFacts DEF PagesOf
<1> QED BY <1>1, <1>2 DEF File, Linear, IsLinear

(* What depends on the file stays.                                         *)
LEMMA SameFile ==
    ASSUME UNCHANGED file
    PROVE  /\ UNCHANGED <<Pieces, Pages, PagesOf, Linear, Calls>>
           /\ \A o : Where(o)' = Where(o)
BY DEF Pieces, Pages, PagesOf, Linear, Calls, Where

(* The kids of nodes are nodes and pages.                                  *)
LEMMA KidsTyped ==
    ASSUME TypeOK, NEW b \in Branch
    PROVE  ToSet(file.kids[b]) \subseteq Branch \cup Page
<1>1. file.kids[b] \in Seq(Branch \cup Page)
  BY FileFacts
<1> QED BY <1>1 DEF ToSet

(* Each page has its place in the walk, behind those before it.            *)
LEMMA PlaceFound ==
    ASSUME TypeOK, NEW p \in Pages
    PROVE  /\ Walk \in Seq(Branch \cup Page)
           /\ PageInWalk(p) \in DOMAIN Walk /\ Walk[PageInWalk(p)] \in Page
           /\ Counted(Walk, PageInWalk(p)) = p + 1
           /\ Walk[PageInWalk(p)] = PagesOf[p + 1]
<1> DEFINE n == Len(Walk)
           enough == {i \in 0 .. n : p + 1 <= Counted(Walk, i)}
<1>1. /\ Walk \in Seq(Branch \cup Page) /\ n \in Nat /\ DOMAIN Walk = 1 .. n
      /\ Counted(Walk, n) = Len(PagesOf)
      /\ \A x \in 1 .. n : Walk[x] \in Page => Walk[x] = PagesOf[Counted(Walk, x)]
  BY TreesFacts DEF TypeOK, Walk, PagesOf, Passes, Nodes
<1>2. p \in Nat /\ p + 1 <= Len(PagesOf)
  BY FileFacts DEF Pages
<1> HIDE DEF n
<1>3. Counted(Walk, 0) = 0 /\ \A i \in 0 .. n : Counted(Walk, i) \in Nat
  BY <1>1, CountFacts
<1>4. n \in enough
  BY <1>1, <1>2
<1>5. PICK i \in enough : \A j \in enough : i <= j
  <2>1. enough \in SUBSET Nat /\ enough # {}
    BY <1>4
  <2> HIDE DEF enough
  <2> QED BY <2>1, LeastElement
<1>6. /\ i \in 1 .. n /\ i - 1 \in 0 .. n /\ i - 1 \in Nat /\ (i - 1) + 1 = i
      /\ Counted(Walk, i - 1) < p + 1 /\ p + 1 <= Counted(Walk, i)
  <2>1. i \in 0 .. n /\ p + 1 <= Counted(Walk, i)
    BY <1>5
  <2>2. i # 0
    BY <1>2, <1>3, <2>1
  <2>3. i - 1 \in 0 .. n /\ i - 1 \notin enough
    BY <1>1, <1>5, <2>1, <2>2
  <2>4. ~(p + 1 <= Counted(Walk, i - 1)) /\ Counted(Walk, i - 1) \in Nat
    BY <1>3, <2>3
  <2> HIDE DEF enough
  <2> QED BY <1>1, <1>2, <2>1, <2>2, <2>3, <2>4
<1>7. Walk[i] \in Page /\ Counted(Walk, i) = Counted(Walk, i - 1) + 1
  <2>1. /\ Walk[(i - 1) + 1] \in Page => Counted(Walk, (i - 1) + 1) = Counted(Walk, i - 1) + 1
        /\ Walk[(i - 1) + 1] \notin Page => Counted(Walk, (i - 1) + 1) = Counted(Walk, i - 1)
    BY <1>6, CountFacts
  <2>2. Counted(Walk, i) # Counted(Walk, i - 1)
    BY <1>2, <1>3, <1>6
  <2> QED BY <1>6, <2>1, <2>2
<1>8. Counted(Walk, i) = p + 1
  <2>1. Counted(Walk, i - 1) \in Nat /\ Counted(Walk, i) \in Nat
    BY <1>3, <1>6
  <2> HIDE DEF enough
  <2> QED BY <1>2, <1>6, <1>7, <2>1
<1>9. \E k \in DOMAIN Walk : Walk[k] \in Page /\ Cardinality(PagesAmong(Walk, 1 .. k)) = p + 1
  BY <1>1, <1>6, <1>7, <1>8 DEF Counted
<1>10. /\ PageInWalk(p) \in DOMAIN Walk /\ Walk[PageInWalk(p)] \in Page
       /\ Counted(Walk, PageInWalk(p)) = p + 1
  BY <1>9 DEF PageInWalk, Counted
<1> QED BY <1>1, <1>10

(* A failed read is counted, and concerns a piece that is there.           *)
LEMMA ErrorsTyped ==
    ASSUME TypeOK, NEW bad \in ReadFaults, CountError(bad)
    PROVE  errors' \in 0 .. MaxErrors
<1>1. errors \in 0 .. MaxErrors /\ MaxErrors \in Nat
  BY DataAvailAssumption DEF TypeOK
<1>2. CASE bad = {}
  BY <1>1, <1>2 DEF CountError
<1>3. CASE bad # {}
  <2>1. errors < MaxErrors
    BY <1>3 DEF ReadFaults
  <2> QED BY <1>1, <1>3, <2>1 DEF CountError
<1> QED BY <1>2, <1>3

(* The whole file has what opening it needs.                               *)
LEMMA WholeFileFacts ==
    ASSUME TypeOK, WholeFile, ~Linear
    PROVE  Stretch("root") \in arrived /\ Where(Root) \in arrived
<1>1. Pieces = PieceSets[file] /\ file \in Files
  BY DEF Pieces, TypeOK
<1>2. Stretch("root") \in Pieces
  BY <1>1 DEF PieceSets, Linear, Stretch
<1>3. Where(Root) \in Pieces
  BY <1>1, NodesAssumption DEF PieceSets, Where
<1> QED BY <1>2, <1>3 DEF WholeFile

(* A document that is opened.                                              *)
LEMMA LoadPagesTyped ==
    ASSUME NEW f \in Files
    PROVE  LET d == LoadPages(f.kids, f.first)
           IN  d \in DocType /\ Len(d.list) = Len(PageOrder[f]) /\ d.next = 0
<1> DEFINE n == Len(Leaves(f.kids, Root))
           list == [i \in 1 .. n |-> IF i = f.first
                                    THEN Leaves(f.kids, Root)[i] ELSE None]
           count == [b \in Branch |-> Len(Leaves(f.kids, b))]
           parent == [p \in Page |-> ParentOf(f.kids, p)]
<1>1. f.kids \in [Branch -> Seq(Branch \cup Page)]
  BY DataAvailAssumption DEF File
<1>2. \A b \in Branch : Leaves(f.kids, b) \in Seq(Page)
  BY TreesFacts
<1>3. /\ Leaves(f.kids, Root) \in Seq(Page) /\ PageOrder[f] = Leaves(f.kids, Root)
      /\ n \in Nat
  BY <1>2, NodesAssumption DEF PageOrder
<1>4. list \in Seq(Page \cup {None}) /\ Len(list) = n
  <2>1. \A i \in 1 .. n : Leaves(f.kids, Root)[i] \in Page
    BY <1>3
  <2> HIDE DEF n
  <2>2. list \in [1 .. n -> Page \cup {None}]
    BY <2>1
  <2> HIDE DEF list
  <2> QED BY <1>3, <2>2
<1>5. count \in [Branch -> Nat]
  BY <1>2
<1>6. parent \in [Page -> Branch \cup {None}]
  BY DEF ParentOf
<1>7. <<>> \in Seq([node : Branch, child : Nat \ {0}])
  OBVIOUS
<1>8. LoadPages(f.kids, f.first)
        = [kids |-> f.kids, count |-> count, parent |-> parent,
           list |-> list, trav |-> <<>>, next |-> 0]
  BY DEF LoadPages
<1>9. Len(PageOrder[f]) = n
  BY <1>3
<1> HIDE DEF n, list, count, parent
<1> QED BY <1>1, <1>4, <1>5, <1>6, <1>7, <1>8, <1>9 DEF DocType

LEMMA InitDInv == Init => DInv
<1> SUFFICES ASSUME Init
             PROVE  DInv
  OBVIOUS
<1>1. file \in Files /\ Leaves(file.kids, Root) \in Seq(Page)
  BY NodesAssumption, TreesFacts DEF Init
<1>2. PagesOf = Leaves(file.kids, Root) /\ Len(PagesOf) \in Nat /\ 0 \in 0 .. Len(PagesOf)
  BY <1>1 DEF PagesOf, PageOrder
<1>3. doc \in DocType /\ Len(doc.list) = Len(PagesOf) /\ doc.next \in 0 .. Len(PagesOf)
  BY <1>1, <1>2, LoadPagesTyped DEF Init, PagesOf
<1>4. errors \in 0 .. MaxErrors /\ opens \in 0 .. MaxOpens
  BY DataAvailAssumption DEF Init
<1>5. TypeOK
  BY <1>1, <1>3, <1>4 DEF Init, TypeOK, Calls
<1> QED BY <1>5 DEF Init, DInv, CallInv, TreeInv, LinearInv, ObjsInv, OpenInv, Idle

-----------------------------------------------------------------------------
(* The handlers of the page tree, which calls of both kinds go through.    *)

LEMMA LoadDocPagesKeeps ==
    ASSUME DInv, NEW ok \in BOOLEAN, status = "pageTree", ~totalLoad, LoadDocPages(ok),
           UNCHANGED <<file, arrived, header, xrefFound, docAvail, mainXRef>>
    PROVE  TreeTyped' /\ TreeInv' /\ (ok => ~totalLoad')
<1>1. TypeOK /\ TreeInv /\ Linear' = Linear /\ Where(Root)' = Where(Root)
  BY SameFile DEF DInv
<1>2. PICK bad \in ReadFaults :
        /\ CountError(bad)
        /\ IF Exists(Root, bad)
           THEN /\ ok = file.counted
                /\ nodes' = nodes \cup {Root}
                /\ status' = IF ok THEN "page" ELSE status
                /\ totalLoad' = ~ok
           ELSE /\ ok = FALSE
                /\ nodes' \in {nodes} \cup
                     (IF Exists(Root, {}) THEN {nodes \cup {Root}} ELSE {})
                /\ status' = "error"
                /\ UNCHANGED totalLoad
  BY DEF LoadDocPages
<1>3. UNCHANGED <<treeLoaded, pageObjs, seen>> /\ errors' \in 0 .. MaxErrors
  BY <1>1, <1>2, ErrorsTyped DEF LoadDocPages
<1>4. pageObjs = {}
  BY <1>1 DEF TreeInv, ObjsInv
<1>5. Exists(Root, bad) => Where(Root) \in arrived
  BY DEF Exists
<1>6. TreeTyped'
  BY <1>1, <1>2, <1>3, NodesAssumption DEF TypeOK, TreeTyped
<1>7. LinearInv' /\ ObjsInv'
  BY <1>1, <1>2, <1>3, <1>4 DEF TreeInv, LinearInv, ObjsInv
<1>8. OpenInv'
  BY <1>1, <1>2, <1>5 DEF TreeInv, OpenInv
<1> QED BY <1>2, <1>6, <1>7, <1>8 DEF TreeInv

LEMMA CheckPagesKeeps ==
    ASSUME DInv, NEW ok \in BOOLEAN, status = "pageTree", totalLoad, CheckPages(ok),
           UNCHANGED <<file, arrived, header, xrefFound, docAvail, mainXRef>>
    PROVE  TreeTyped' /\ TreeInv' /\ totalLoad'
<1> DEFINE kids == ToSet(file.kids[Root])
<1>1. TypeOK /\ TreeInv /\ Linear' = Linear /\ Where(Root)' = Where(Root)
  BY SameFile DEF DInv
<1>2. PICK bad \in ReadFaults :
        /\ CountError(bad)
        /\ IF Exists(Root, bad)
           THEN /\ pageObjs' = pageObjs \cup (kids \ seen)
                /\ seen' = seen \cup kids
                /\ status' = "page"
           ELSE /\ status' = "loadAllFile"
                /\ UNCHANGED <<pageObjs, seen>>
  BY DEF CheckPages
<1>3. UNCHANGED <<nodes, totalLoad, treeLoaded>> /\ errors' \in 0 .. MaxErrors
  BY <1>1, <1>2, ErrorsTyped DEF CheckPages
<1>4. kids \subseteq Branch \cup Page
  BY <1>1, KidsTyped, NodesAssumption
<1>5. pageObjs = {}
  BY <1>1 DEF TreeInv, ObjsInv
<1>6. Exists(Root, bad) => Where(Root) \in arrived
  BY DEF Exists
<1> HIDE DEF kids
<1>7. TreeTyped'
  BY <1>1, <1>2, <1>3, <1>4 DEF TypeOK, TreeTyped
<1>8. LinearInv' /\ ObjsInv'
  BY <1>1, <1>2, <1>3, <1>5 DEF TreeInv, LinearInv, ObjsInv
<1>9. OpenInv'
  BY <1>1, <1>2, <1>6 DEF TreeInv, OpenInv
<1> QED BY <1>3, <1>7, <1>8, <1>9 DEF TreeInv

LEMMA CheckPageObjsKeeps ==
    ASSUME DInv, NEW ok \in BOOLEAN, status = "page", totalLoad, CheckPageObjs(ok),
           UNCHANGED <<file, arrived, header, xrefFound, docAvail, mainXRef>>
    PROVE  TreeTyped' /\ TreeInv' /\ totalLoad'
<1> DEFINE KidsOf(bad) == UNION {ToSet(file.kids[b]) :
                                 b \in {o \in pageObjs \cap Branch : Exists(o, bad)}}
<1>1. TypeOK /\ TreeInv /\ Linear' = Linear /\ Where(Root)' = Where(Root)
  BY SameFile DEF DInv
<1>2. PICK bad \in ReadFaults :
        /\ CountError(bad)
        /\ pageObjs' = KidsOf(bad) \ seen
        /\ seen' = seen \cup KidsOf(bad)
        /\ status' = IF KidsOf(bad) \subseteq seen THEN "done" ELSE status
  BY DEF CheckPageObjs
<1>3. UNCHANGED <<nodes, totalLoad, treeLoaded>> /\ errors' \in 0 .. MaxErrors
  BY <1>1, <1>2, ErrorsTyped DEF CheckPageObjs
<1>4. KidsOf(bad) \subseteq Branch \cup Page
  BY <1>1, KidsTyped
<1> HIDE DEF KidsOf
<1>5. TreeTyped'
  BY <1>1, <1>2, <1>3, <1>4 DEF TypeOK, TreeTyped
<1>6. LinearInv' /\ ObjsInv'
  BY <1>1, <1>2, <1>3 DEF TreeInv, LinearInv, ObjsInv
<1>7. OpenInv'
  BY <1>1, <1>2 DEF TreeInv, OpenInv
<1> QED BY <1>3, <1>5, <1>6, <1>7 DEF TreeInv

LEMMA LoadAllFileKeeps ==
    ASSUME DInv, NEW ok \in BOOLEAN, status \in {"error", "loadAllFile"}, LoadAllFile(ok),
           UNCHANGED <<file, arrived, header, xrefFound, docAvail, mainXRef>>
    PROVE  TreeTyped' /\ TreeInv' /\ totalLoad' = totalLoad
<1>1. TypeOK /\ TreeInv /\ Linear' = Linear /\ Where(Root)' = Where(Root)
  BY SameFile DEF DInv
<1>2. /\ status' = IF WholeFile THEN "done" ELSE status
      /\ UNCHANGED <<errors, nodes, totalLoad, treeLoaded, pageObjs, seen>>
  BY DEF LoadAllFile
<1>3. TreeTyped'
  BY <1>1, <1>2 DEF TypeOK, TreeTyped
<1>4. LinearInv' /\ ObjsInv'
  BY <1>1, <1>2 DEF TreeInv, LinearInv, ObjsInv
<1>5. OpenInv'
  BY <1>1, <1>2, WholeFileFacts DEF TreeInv, OpenInv
<1> QED BY <1>2, <1>3, <1>4, <1>5 DEF TreeInv

-----------------------------------------------------------------------------
(* The steps of a call that asks for the document.                         *)

LEMMA WholeTyped ==
    ASSUME TypeOK, UNCHANGED file, arrived' \subseteq Pieces, call' \in Calls,
           docAvail' \in BOOLEAN, open' => docAvail',
           TreeTyped', PageTyped', DocTyped'
    PROVE  TypeOK'
<1>1. file' \in Files /\ Pieces' = Pieces /\ Calls' = Calls
  BY SameFile DEF TypeOK
<1> QED BY <1>1 DEF TypeOK, TreeTyped, PageTyped, DocTyped

(* What steps leave alone keeps its type.                                  *)
LEMMA SamePage ==
    ASSUME TypeOK, UNCHANGED <<file, pageVars>>
    PROVE  PageTyped'
BY SameFile DEF pageVars, TypeOK, PageTyped

LEMMA SameDoc ==
    ASSUME TypeOK, UNCHANGED <<file, docVars>>
    PROVE  DocTyped'
BY SameFile DEF docVars, TypeOK, DocTyped

LEMMA TreeTypedKept ==
    ASSUME TypeOK, UNCHANGED <<errors, header, xrefFound, treeVars>>
    PROVE  TreeTyped'
BY DEF treeVars, TypeOK, TreeTyped

(* A handler leaves the call in progress, or ends it.                      *)
LEMMA UnlessTyped ==
    ASSUME TypeOK, NEW ok \in BOOLEAN, Unless(ok)
    PROVE  call' \in Calls /\ call' \in {call, Idle} /\ (call' = call => ok \/ call = Idle)
<1>1. Idle \in Calls /\ call \in Calls
  BY DEF Calls, TypeOK
<1> QED BY <1>1 DEF Unless, GoOn, Return

(* The kinds of calls.                                                     *)
LEMMA CallKinds ==
    ASSUME TypeOK
    PROVE  /\ call.op = "doc" => call.at = "status"
           /\ call.at \in {"check", "tree", "form", "page"} => call.op = "page"
           /\ call.op = "page" => call.page \in Pages
<1> DEFINE ofPage == [op : {"page"}, at : {"check", "tree", "form", "page"}, page : Pages]
<1>1. call = Idle \/ call = DocCall \/ call \in ofPage
  BY DEF TypeOK, Calls
<1>2. CASE call = Idle
  BY <1>2 DEF Idle
<1>3. CASE call = DocCall
  BY <1>3 DEF DocCall
<1>4. CASE call \in ofPage
  BY <1>4
<1> QED BY <1>1, <1>2, <1>3, <1>4

LEMMA ReadHeaderTyped ==
    ASSUME TypeOK, NEW ok \in BOOLEAN, ReadHeader(ok)
    PROVE  header' \in BOOLEAN /\ errors' \in 0 .. MaxErrors
<1>1. CASE header
  BY <1>1 DEF ReadHeader, TypeOK
<1>2. CASE ~header
  <2>1. PICK bad \in ReadFaults : CountError(bad) /\ header' = ok
    BY <1>2 DEF ReadHeader
  <2> QED BY <2>1, ErrorsTyped
<1> QED BY <1>1, <1>2

(* The handlers before the page tree.                                      *)
LEMMA StartKeeps ==
    ASSUME DInv, NEW ok \in BOOLEAN,
           UNCHANGED <<arrived, file, docAvail, pageVars>>,
           \/ CheckHeader(ok) \/ CheckFirstPage(ok) \/ CheckHintTables(ok)
           \/ CheckAndLoadAllXref(ok)
           \/ CheckRootOrInfo("root", "info", ok) \/ CheckRootOrInfo("info", "pageTree", ok)
    PROVE  TreeTyped' /\ TreeInv'
<1>1. TypeOK /\ TreeInv /\ Linear' = Linear /\ Where(Root)' = Where(Root)
  BY SameFile DEF DInv
<1>2. UNCHANGED <<arrived, docAvail, mainXRef>>
  BY DEF pageVars
<1>3. CASE CheckHeader(ok)
  <2>1. header' \in BOOLEAN /\ errors' \in 0 .. MaxErrors
    BY <1>1, <1>3, ReadHeaderTyped DEF CheckHeader
  <2>2. /\ status = "header"
        /\ status' \in {"header"} \cup (IF Linear THEN {"firstPage"} ELSE {"loadAllCrossRef"})
        /\ UNCHANGED <<xrefFound, nodes, totalLoad, treeLoaded, pageObjs, seen>>
    BY <1>3 DEF CheckHeader
  <2>3. TreeTyped'
    BY <1>1, <2>1, <2>2 DEF TypeOK, TreeTyped
  <2>4. LinearInv' /\ ObjsInv' /\ OpenInv'
    BY <1>1, <1>2, <2>2 DEF TreeInv, LinearInv, ObjsInv, OpenInv
  <2> QED BY <2>3, <2>4 DEF TreeInv
<1>4. CASE CheckFirstPage(ok)
  <2>1. /\ status = "firstPage" /\ status' \in {"firstPage", "hintTable"}
        /\ UNCHANGED <<errors, header, xrefFound, nodes, totalLoad, treeLoaded, pageObjs, seen>>
    BY <1>4 DEF CheckFirstPage
  <2>2. TreeTyped'
    BY <1>1, <2>1 DEF TypeOK, TreeTyped
  <2>3. LinearInv' /\ ObjsInv' /\ OpenInv'
    BY <1>1, <1>2, <2>1 DEF TreeInv, LinearInv, ObjsInv, OpenInv
  <2> QED BY <2>2, <2>3 DEF TreeInv
<1>5. CASE CheckHintTables(ok)
  <2>1. PICK bad \in ReadFaults :
          CountError(bad) /\ status' \in {"error", "done", status}
    BY <1>5 DEF CheckHintTables
  <2>2. /\ status = "hintTable" /\ errors' \in 0 .. MaxErrors
        /\ UNCHANGED <<header, xrefFound, nodes, totalLoad, treeLoaded, pageObjs, seen>>
    BY <1>1, <1>5, <2>1, ErrorsTyped DEF CheckHintTables
  <2>3. TreeTyped'
    BY <1>1, <2>1, <2>2 DEF TypeOK, TreeTyped
  <2>4. LinearInv' /\ ObjsInv' /\ OpenInv'
    BY <1>1, <1>2, <2>1, <2>2 DEF TreeInv, LinearInv, ObjsInv, OpenInv
  <2> QED BY <2>3, <2>4 DEF TreeInv
<1>6. CASE CheckAndLoadAllXref(ok)
  <2>1. PICK bad \in ReadFaults :
          /\ CountError(bad) /\ xrefFound' \in BOOLEAN
          /\ status' \in {status, "error", "loadAllFile", "root"}
    BY <1>1, <1>6 DEF CheckAndLoadAllXref, TypeOK
  <2>2. /\ status = "loadAllCrossRef" /\ errors' \in 0 .. MaxErrors
        /\ UNCHANGED <<header, nodes, totalLoad, treeLoaded, pageObjs, seen>>
    BY <1>1, <1>6, <2>1, ErrorsTyped DEF CheckAndLoadAllXref
  <2>3. TreeTyped'
    BY <1>1, <2>1, <2>2 DEF TypeOK, TreeTyped
  <2>4. LinearInv' /\ ObjsInv' /\ OpenInv'
    BY <1>1, <1>2, <2>1, <2>2 DEF TreeInv, LinearInv, ObjsInv, OpenInv
  <2> QED BY <2>3, <2>4 DEF TreeInv
<1>7. ASSUME NEW name, NEW next, <<name, next>> \in {<<"root", "info">>, <<"info", "pageTree">>},
             CheckRootOrInfo(name, next, ok)
      PROVE  TreeTyped' /\ TreeInv'
  <2>1. PICK bad \in ReadFaults : CountError(bad) /\ ok = (Stretch(name) \in arrived \ bad)
    BY <1>7 DEF CheckRootOrInfo
  <2>2. /\ status = name /\ errors' \in 0 .. MaxErrors
        /\ status' = IF ok THEN next ELSE status
        /\ UNCHANGED <<header, xrefFound, nodes, totalLoad, treeLoaded, pageObjs, seen>>
    BY <1>1, <1>7, <2>1, ErrorsTyped DEF CheckRootOrInfo
  <2>3. \/ name = "root" /\ next = "info"
        \/ name = "info" /\ next = "pageTree"
    BY <1>7
  <2>4. TreeTyped'
    BY <1>1, <2>2, <2>3 DEF TypeOK, TreeTyped
  <2>5. LinearInv' /\ ObjsInv'
    BY <1>1, <1>2, <2>2, <2>3 DEF TreeInv, LinearInv, ObjsInv
  <2>6. OpenInv'
    <3>1. CASE name = "root" /\ next = "info"
      <4>1. ok => Stretch("root") \in arrived
        BY <2>1, <3>1
      <4> QED BY <1>1, <1>2, <2>2, <3>1, <4>1 DEF TreeInv, OpenInv
    <3>2. CASE name = "info" /\ next = "pageTree"
      BY <1>1, <1>2, <2>2, <3>2 DEF TreeInv, OpenInv
    <3> QED BY <2>3, <3>1, <3>2
  <2> QED BY <2>4, <2>5, <2>6 DEF TreeInv
<1> QED BY <1>3, <1>4, <1>5, <1>6, <1>7

LEMMA PageTreeStatusKeeps ==
    ASSUME DInv, NEW ok \in BOOLEAN, PageTreeStatus(ok),
           UNCHANGED <<arrived, file, docAvail, pageVars>>
    PROVE  TreeTyped' /\ TreeInv'
<1>1. TypeOK /\ TreeInv /\ Linear' = Linear /\ Where(Root)' = Where(Root)
  BY SameFile DEF DInv
<1>2. UNCHANGED <<file, arrived, header, xrefFound, docAvail, mainXRef>>
  BY DEF PageTreeStatus, pageVars
<1>3. CASE status = "page" /\ ~totalLoad /\ status' = "pageLaterLoad"
             /\ UNCHANGED <<errors, nodes, totalLoad, treeLoaded, pageObjs, seen>>
  <2>1. TreeTyped'
    BY <1>1, <1>2, <1>3 DEF TypeOK, TreeTyped
  <2>2. LinearInv' /\ ObjsInv' /\ OpenInv'
    BY <1>1, <1>2, <1>3 DEF TreeInv, LinearInv, ObjsInv, OpenInv
  <2> QED BY <2>1, <2>2 DEF TreeInv
<1> QED BY <1>2, <1>3, LoadDocPagesKeeps, CheckPagesKeeps, CheckPageObjsKeeps,
           LoadAllFileKeeps DEF PageTreeStatus

LEMMA DocStepKeeps == DInv /\ DocStep => DInv'
<1> SUFFICES ASSUME DInv, DocStep
             PROVE  DInv'
  OBVIOUS
<1>1. TypeOK /\ CallInv /\ TreeInv
  BY DEF DInv
<1>2. /\ call.op = "doc"
      /\ UNCHANGED <<arrived, file, docAvail, pageVars, docVars>>
  BY DEF DocStep
<1>3. PICK ok \in BOOLEAN : CheckDocStatus(ok) /\ Unless(ok)
  BY DEF DocStep
<1>4. TreeTyped' /\ TreeInv'
  BY <1>2, <1>3, StartKeeps, PageTreeStatusKeeps DEF CheckDocStatus
<1>5. call' \in Calls /\ call' \in {call, Idle}
  BY <1>1, <1>3, UnlessTyped
<1>6. CallInv'
  <2>1. call.at = "status" /\ ~docAvail
    BY <1>1, <1>2, CallKinds DEF CallInv
  <2>2. \/ call'.op = "doc" /\ call'.at = "status"
        \/ call'.op = "idle" /\ call'.at = ""
    <3>1. CASE call' = Idle
      BY <3>1 DEF Idle
    <3>2. CASE call' = call
      BY <1>2, <2>1, <3>2
    <3> QED BY <1>5, <3>1, <3>2
  <2> QED BY <1>2, <2>1, <2>2 DEF CallInv
<1>7. TypeOK'
  <2>1. PageTyped' /\ DocTyped'
    BY <1>1, <1>2, SamePage, SameDoc
  <2>2. /\ arrived' \subseteq Pieces /\ docAvail' \in BOOLEAN /\ (open' => docAvail')
    BY <1>1, <1>2 DEF TypeOK, docVars
  <2> QED BY <1>1, <1>2, <1>4, <1>5, <2>1, <2>2, WholeTyped
<1> QED BY <1>4, <1>6, <1>7 DEF DInv

LEMMA DocIsAvailableKeeps == DInv /\ DocIsAvailable => DInv'
<1> SUFFICES ASSUME DInv, DocIsAvailable
             PROVE  DInv'
  OBVIOUS
<1>1. TypeOK /\ CallInv /\ TreeInv /\ Linear' = Linear /\ Where(Root)' = Where(Root)
  BY SameFile DEF DInv, DocIsAvailable
<1>2. /\ status \in {"done", "pageLaterLoad"} /\ status' \in {"done", "page"}
      /\ docAvail' = TRUE /\ seen' = {} /\ call' = Idle
      /\ UNCHANGED <<arrived, errors, file, header, xrefFound, nodes, totalLoad,
                     treeLoaded, pageObjs, pageVars, docVars>>
  BY DEF DocIsAvailable, Return
<1>3. UNCHANGED mainXRef /\ Idle \in Calls
  BY <1>2 DEF pageVars, Calls
<1>4. pageObjs = {}
  BY <1>1, <1>2 DEF TreeInv, ObjsInv
<1>5. LinearInv' /\ ObjsInv' /\ OpenInv'
  BY <1>1, <1>2, <1>3, <1>4 DEF TreeInv, LinearInv, ObjsInv, OpenInv
<1>6. CallInv'
  BY <1>2 DEF CallInv, Idle
<1>7. TreeTyped'
  BY <1>1, <1>2, <1>4 DEF TypeOK, TreeTyped
<1>8. PageTyped' /\ DocTyped'
  BY <1>1, <1>2, SamePage, SameDoc
<1>9. TypeOK'
  BY <1>1, <1>2, <1>3, <1>7, <1>8, WholeTyped DEF TypeOK
<1> QED BY <1>5, <1>6, <1>9 DEF DInv, TreeInv

-----------------------------------------------------------------------------
(* The steps of a call that asks for a page.                               *)

(* GoOnTo stays with the page.                                             *)
LEMMA GoOnTyped ==
    ASSUME TypeOK, call.op = "page", NEW at \in {"check", "tree", "form", "page"}, GoOnTo(at)
    PROVE  call' \in Calls /\ call'.op = "page" /\ call'.at = at
<1>1. call \in [op : {"page"}, at : {"check", "tree", "form", "page"}, page : Pages]
  <2>1. Idle.op # "page" /\ DocCall.op # "page"
    BY DEF Idle, DocCall
  <2>2. call # Idle /\ call # DocCall
    BY <2>1
  <2> QED BY <2>2 DEF TypeOK, Calls
<1>2. call' = [call EXCEPT !.at = at]
  BY DEF GoOnTo
<1> QED BY <1>1, <1>2 DEF Calls

(* CheckPageNode fills in one page.                                        *)
LEMMA LoadDocPageKeeps ==
    ASSUME DInv, NEW p \in Pages, NEW ok \in BOOLEAN, status = "page", docAvail, ~totalLoad,
           LoadDocPage(p, ok),
           UNCHANGED <<arrived, startVars, totalLoad, treeLoaded, pageObjs, seen, mainXRef,
                       opens, open, mainIn>>
    PROVE  TreeTyped' /\ TreeInv' /\ DocTyped'
<1>1. UNCHANGED <<file, header, xrefFound, docAvail>>
  BY DEF startVars
<1>2. TypeOK /\ TreeInv /\ Linear' = Linear /\ Where(Root)' = Where(Root) /\ PagesOf' = PagesOf
  BY <1>1, SameFile DEF DInv
<1>3. /\ errors' \in 0 .. MaxErrors /\ status' \in {"done", "error"}
      /\ nodes' \subseteq Branch \cup Page
      /\ doc' \in DocType /\ Len(doc'.list) = Len(doc.list) /\ doc'.next = doc.next
  <2>1. CASE doc.list[p + 1] # None
    BY <1>2, <2>1 DEF LoadDocPage, TypeOK
  <2>2. CASE doc.list[p + 1] = None
    <3> DEFINE place == PageInWalk(p)
               page == Walk[place]
    <3>1. PICK bad \in ReadFaults, known \in SUBSET DOMAIN Walk :
            /\ CountError(bad)
            /\ status' = IF ok THEN "done" ELSE "error"
            /\ nodes' = nodes \cup {Walk[i] : i \in known}
            /\ doc' = IF ok THEN [doc EXCEPT !.list[p + 1] = page] ELSE doc
      <4> DEFINE upTo == {i \in DOMAIN Walk : i <= place}
                 Stops(bad) == {i \in upTo :
                                  CannotKnow(Walk[i], bad) \/ TooNarrow(Walk[i], p)}
                 Read(bad) == {i \in upTo : /\ ~CannotKnow(Walk[i], bad)
                                            /\ \A j \in Stops(bad) : i <= j}
      <4>1. PICK bad \in ReadFaults :
              /\ CountError(bad)
              /\ ok = (Stops(bad) = {})
              /\ status' = IF ok THEN "done" ELSE "error"
              /\ nodes' = nodes \cup {Walk[i] : i \in Read(bad)}
              /\ doc' = IF ok THEN [doc EXCEPT !.list[p + 1] = page] ELSE doc
        BY <2>2 DEF LoadDocPage
      <4>2. Read(bad) \in SUBSET DOMAIN Walk
        OBVIOUS
      <4> HIDE DEF Read, Stops, page
      <4> QED BY <4>1, <4>2
    <3>2. Walk \in Seq(Branch \cup Page) /\ page \in Page
      BY <1>2, PlaceFound
    <3> HIDE DEF page
    <3>3. errors' \in 0 .. MaxErrors /\ nodes' \subseteq Branch \cup Page
      <4>1. \A i \in known : Walk[i] \in Branch \cup Page
        BY <3>2
      <4> QED BY <1>2, <3>1, <4>1, ErrorsTyped DEF TypeOK
    <3>4. doc' \in DocType /\ Len(doc'.list) = Len(doc.list) /\ doc'.next = doc.next
      <4>1. doc \in DocType /\ doc.list \in Seq(Page \cup {None})
        BY <1>2 DEF TypeOK, DocType
      <4> DEFINE S == Page \cup {None}
                 old == doc.list
                 new == [old EXCEPT ![p + 1] = page]
      <4>2. new \in Seq(S) /\ Len(new) = Len(old)
        <5>1. old \in Seq(S) /\ page \in S
          BY <3>2, <4>1
        <5> HIDE DEF S, old
        <5> QED BY <5>1, ReplacedAt
      <4>3. CASE ok
        <5>1. doc' = [doc EXCEPT !.list = new]
          BY <3>1, <4>3
        <5> HIDE DEF new
        <5> QED BY <4>1, <4>2, <5>1 DEF DocType
      <4>4. CASE ~ok
        BY <3>1, <4>1, <4>4
      <4> QED BY <4>3, <4>4
    <3> QED BY <3>1, <3>3, <3>4
  <2> QED BY <2>1, <2>2
<1>4. pageObjs = {}
  BY <1>2 DEF TreeInv, ObjsInv
<1>5. TreeTyped'
  BY <1>1, <1>2, <1>3 DEF TypeOK, TreeTyped
<1>6. LinearInv' /\ ObjsInv' /\ OpenInv'
  BY <1>1, <1>2, <1>3, <1>4 DEF TreeInv, LinearInv, ObjsInv, OpenInv
<1>7. DocTyped'
  BY <1>2, <1>3 DEF TypeOK, DocTyped
<1> QED BY <1>5, <1>6, <1>7 DEF TreeInv

LEMMA CheckPageKeeps == DInv /\ CheckPage => DInv'
<1> SUFFICES ASSUME DInv, CheckPage
             PROVE  DInv'
  OBVIOUS
<1>1. TypeOK /\ CallInv /\ TreeInv
  BY DEF DInv
<1>2. /\ call.at = "check"
      /\ UNCHANGED <<arrived, startVars, asked, loadedPages, mainXRef, opens, open, mainIn>>
  BY DEF CheckPage
<1>3. /\ call.op = "page" /\ call.page \in Pages /\ open /\ docAvail /\ ~totalLoad
      /\ (Linear => mainXRef = "ok")
  BY <1>1, <1>2, CallKinds DEF CallInv, TypeOK
<1>4. UNCHANGED <<file, header, xrefFound, docAvail>>
  BY <1>2 DEF startVars
<1>5. Linear' = Linear /\ Where(Root)' = Where(Root) /\ PagesOf' = PagesOf /\ Pages' = Pages
  BY <1>4, SameFile
<1>6. PICK ok \in BOOLEAN :
         \/ /\ status = "pageTree" /\ LoadDocPages(ok) /\ Unless(ok)
            /\ UNCHANGED <<curOk, doc>>
         \/ /\ status = "page" /\ LoadDocPage(call.page, ok) /\ Unless(ok)
            /\ UNCHANGED <<totalLoad, treeLoaded, pageObjs, seen, curOk>>
         \/ /\ status = "error" /\ LoadAllFile(ok)
            /\ IF ok THEN GoOnTo("form") ELSE Unless(ok)
            /\ UNCHANGED <<curOk, doc>>
         \/ /\ status \notin {"pageTree", "page", "error"} /\ ok = TRUE
            /\ treeLoaded' = TRUE /\ curOk' = TRUE /\ status' = "page"
            /\ GoOnTo("form")
            /\ UNCHANGED <<errors, nodes, totalLoad, pageObjs, seen, doc>>
  BY DEF CheckPage
<1>7. UNCHANGED doc => DocTyped'
  BY <1>1, <1>2, <1>5 DEF TypeOK, DocTyped
<1>8. /\ TreeTyped' /\ TreeInv' /\ DocTyped' /\ curOk' \in BOOLEAN
      /\ call' \in Calls /\ (call'.at = "check" => call' = call /\ ~totalLoad')
      /\ call'.op \in {"page", "idle"} /\ call'.at # "tree"
  <2>1. Unless(ok) => /\ call' \in Calls /\ call'.op \in {"page", "idle"}
                      /\ call'.at \in {"check", ""}
                      /\ (call'.at = "check" => call' = call /\ ok)
    <3>1. Unless(ok) => /\ call' \in Calls /\ call' \in {call, Idle}
                        /\ (call' = call => ok \/ call = Idle)
      BY <1>1, UnlessTyped
    <3>2. Idle.op = "idle" /\ Idle.at = ""
      BY DEF Idle
    <3>3. call # Idle
      BY <1>3, <3>2
    <3> QED BY <1>2, <1>3, <3>1, <3>2, <3>3
  <2>2. GoOnTo("form") => call' \in Calls /\ call'.op = "page" /\ call'.at = "form"
    BY <1>1, <1>3, GoOnTyped
  <2>3. curOk \in BOOLEAN
    BY <1>1 DEF TypeOK
  <2>4. CASE status = "pageTree" /\ LoadDocPages(ok) /\ Unless(ok) /\ UNCHANGED <<curOk, doc>>
    <3>1. TreeTyped' /\ TreeInv' /\ (ok => ~totalLoad')
      BY <1>2, <1>3, <1>4, <2>4, LoadDocPagesKeeps
    <3> QED BY <1>7, <2>1, <2>3, <2>4, <3>1
  <2>5. CASE /\ status = "page" /\ LoadDocPage(call.page, ok) /\ Unless(ok)
             /\ UNCHANGED <<totalLoad, treeLoaded, pageObjs, seen, curOk>>
    <3>1. TreeTyped' /\ TreeInv' /\ DocTyped'
      BY <1>2, <1>3, <2>5, LoadDocPageKeeps
    <3> QED BY <1>3, <2>1, <2>3, <2>5, <3>1
  <2>6. CASE /\ status = "error" /\ LoadAllFile(ok)
             /\ IF ok THEN GoOnTo("form") ELSE Unless(ok)
             /\ UNCHANGED <<curOk, doc>>
    <3>1. TreeTyped' /\ TreeInv' /\ totalLoad' = totalLoad
      BY <1>2, <1>4, <2>6, LoadAllFileKeeps
    <3> QED BY <1>3, <1>7, <2>1, <2>2, <2>3, <2>6, <3>1
  <2>7. CASE /\ status \notin {"pageTree", "page", "error"} /\ ok = TRUE
             /\ treeLoaded' = TRUE /\ curOk' = TRUE /\ status' = "page"
             /\ GoOnTo("form")
             /\ UNCHANGED <<errors, nodes, totalLoad, pageObjs, seen, doc>>
    <3>1. TreeTyped'
      BY <1>1, <1>4, <2>7 DEF TypeOK, TreeTyped
    <3>2. LinearInv' /\ ObjsInv' /\ OpenInv'
      BY <1>1, <1>2, <1>3, <1>4, <1>5, <2>7 DEF TreeInv, LinearInv, ObjsInv, OpenInv
    <3> QED BY <1>7, <2>2, <2>7, <3>1, <3>2 DEF TreeInv
  <2> QED BY <1>6, <2>4, <2>5, <2>6, <2>7
<1>9. CallInv'
  BY <1>2, <1>3, <1>5, <1>8 DEF CallInv
<1>10. TypeOK'
  <2>1. PageTyped'
    BY <1>1, <1>2, <1>5, <1>8 DEF TypeOK, PageTyped
  <2> QED BY <1>1, <1>2, <1>4, <1>8, <2>1, WholeTyped DEF TypeOK
<1> QED BY <1>8, <1>9, <1>10 DEF DInv

LEMMA LoadAllPagesKeeps == DInv /\ LoadAllPages => DInv'
<1> SUFFICES ASSUME DInv, LoadAllPages
             PROVE  DInv'
  OBVIOUS
<1>1. TypeOK /\ CallInv /\ TreeInv
  BY DEF DInv
<1>2. /\ call.at = "tree"
      /\ UNCHANGED <<arrived, startVars, pageVars, docVars>>
  BY DEF LoadAllPages
<1>3. call.op = "page" /\ call.page \in Pages /\ open /\ docAvail /\ totalLoad
  BY <1>1, <1>2, CallKinds DEF CallInv, TypeOK
<1>4. UNCHANGED <<file, header, xrefFound, docAvail, mainXRef, open>>
  BY <1>2 DEF startVars, pageVars, docVars
<1>5. Linear' = Linear /\ Where(Root)' = Where(Root)
  BY <1>4, SameFile
<1>6. /\ TreeTyped' /\ TreeInv' /\ totalLoad' /\ call' \in Calls
      /\ call'.op \in {"page", "idle"} /\ call'.at # "check"
  <2>1. CASE treeLoaded
    <3>1. GoOnTo("form") /\ UNCHANGED <<errors, treeVars>>
      BY <2>1 DEF LoadAllPages
    <3>2. call' \in Calls /\ call'.op = "page" /\ call'.at = "form"
      BY <1>1, <1>3, <3>1, GoOnTyped
    <3>3. TreeTyped'
      BY <1>1, <1>4, <3>1, TreeTypedKept
    <3>4. UNCHANGED <<status, totalLoad, pageObjs>>
      BY <3>1 DEF treeVars
    <3>5. LinearInv' /\ ObjsInv' /\ OpenInv'
      BY <1>1, <1>2, <1>4, <1>5, <3>4 DEF TreeInv, LinearInv, ObjsInv, OpenInv
    <3> QED BY <1>3, <3>2, <3>3, <3>4, <3>5 DEF TreeInv
  <2>2. CASE ~treeLoaded
    <3>1. PICK ok \in BOOLEAN :
              /\ Unless(ok)
              /\ \/ status = "pageTree" /\ CheckPages(ok)
                 \/ status = "page" /\ CheckPageObjs(ok)
                 \/ /\ status \notin {"pageTree", "page"} /\ ok = TRUE
                    /\ treeLoaded' = TRUE
                    /\ UNCHANGED <<errors, status, nodes, totalLoad, pageObjs, seen>>
      BY <2>2 DEF LoadAllPages
    <3>2. call' \in Calls /\ call'.op \in {"page", "idle"} /\ call'.at # "check"
      <4>1. call' \in Calls /\ call' \in {call, Idle}
        BY <1>1, <3>1, UnlessTyped
      <4>2. Idle.op = "idle" /\ Idle.at = ""
        BY DEF Idle
      <4> QED BY <1>2, <1>3, <4>1, <4>2
    <3>3. CASE /\ status \notin {"pageTree", "page"} /\ treeLoaded' = TRUE
               /\ UNCHANGED <<errors, status, nodes, totalLoad, pageObjs, seen>>
      <4>1. TreeTyped'
        BY <1>1, <1>4, <3>3 DEF TypeOK, TreeTyped
      <4>2. LinearInv' /\ ObjsInv' /\ OpenInv'
        BY <1>1, <1>2, <1>4, <1>5, <3>3 DEF TreeInv, LinearInv, ObjsInv, OpenInv
      <4> QED BY <1>3, <3>2, <3>3, <4>1, <4>2 DEF TreeInv
    <3>4. TreeTyped' /\ TreeInv' /\ totalLoad'
      BY <1>2, <1>3, <1>4, <3>1, <3>3, CheckPagesKeeps, CheckPageObjsKeeps
    <3> QED BY <3>2, <3>4
  <2> QED BY <1>1, <2>1, <2>2 DEF TypeOK
<1>7. CallInv'
  BY <1>3, <1>4, <1>6 DEF CallInv
<1>8. TypeOK'
  <2>1. PageTyped' /\ DocTyped'
    BY <1>1, <1>2, <1>4, SamePage, SameDoc
  <2> QED BY <1>1, <1>2, <1>4, <1>6, <2>1, WholeTyped DEF TypeOK
<1> QED BY <1>6, <1>7, <1>8 DEF DInv

(* The main cross-reference table, and the form.                           *)
LEMMA CheckLinearizedDataKeeps ==
    ASSUME DInv, Linear, NEW result, CheckLinearizedData(result),
           UNCHANGED <<arrived, startVars, nodes, totalLoad, treeLoaded, pageObjs, seen>>
    PROVE  /\ TreeTyped' /\ TreeInv'
           /\ mainXRef' \in {"untried", "ok", "failed"} /\ mainIn' \in BOOLEAN
<1>1. UNCHANGED <<file, header, xrefFound, docAvail>>
  BY DEF startVars
<1>2. TypeOK /\ TreeInv /\ Linear' = Linear
  BY <1>1, SameFile DEF DInv
<1>3. CASE UNCHANGED <<errors, mainXRef, mainIn, status>>
  <2>1. TreeTyped'
    BY <1>1, <1>2, <1>3 DEF TypeOK, TreeTyped
  <2>2. LinearInv' /\ ObjsInv' /\ OpenInv'
    BY <1>1, <1>2, <1>3 DEF TreeInv, LinearInv, ObjsInv, OpenInv
  <2> QED BY <1>2, <1>3, <2>1, <2>2 DEF TypeOK, TreeInv
<1>4. CASE mainXRef = "untried" /\ ~UNCHANGED <<errors, mainXRef, mainIn, status>>
  <2>1. PICK bad \in ReadFaults, good \in BOOLEAN :
          /\ CountError(bad)
          /\ mainXRef' = IF good THEN "ok" ELSE "failed"
          /\ mainIn' = good
          /\ status' = IF good THEN "pageTree" ELSE status
    BY <1>4 DEF CheckLinearizedData
  <2>2. errors' \in 0 .. MaxErrors
    BY <1>2, <2>1, ErrorsTyped
  <2>3. ~totalLoad /\ pageObjs = {}
    BY <1>2, <1>4 DEF TreeInv, LinearInv, ObjsInv
  <2>4. TreeTyped'
    BY <1>1, <1>2, <2>1, <2>2 DEF TypeOK, TreeTyped
  <2>5. LinearInv' /\ ObjsInv' /\ OpenInv'
    BY <1>1, <1>2, <1>4, <2>1, <2>3 DEF TreeInv, LinearInv, ObjsInv, OpenInv
  <2> QED BY <2>1, <2>4, <2>5 DEF TreeInv
<1> QED BY <1>3, <1>4 DEF CheckLinearizedData

LEMMA CheckAcroFormKeeps ==
    ASSUME DInv, NEW result, CheckAcroForm(result),
           UNCHANGED <<arrived, startVars, nodes, totalLoad, treeLoaded, pageObjs, seen>>
    PROVE  /\ TreeTyped' /\ TreeInv'
           /\ mainXRef' \in {"untried", "ok", "failed"} /\ mainIn' \in BOOLEAN
<1>1. CASE Linear
  <2>1. PICK data : CheckLinearizedData(data)
    BY <1>1 DEF CheckAcroForm
  <2> QED BY <1>1, <2>1, CheckLinearizedDataKeeps
<1>2. CASE ~Linear
  <2>1. UNCHANGED <<file, header, xrefFound, docAvail>>
    BY DEF startVars
  <2>2. TypeOK /\ TreeInv /\ Linear' = Linear /\ Where(Root)' = Where(Root)
    BY <2>1, SameFile DEF DInv
  <2>3. UNCHANGED <<errors, mainXRef, mainIn, status>>
    BY <1>2 DEF CheckAcroForm
  <2>4. TreeTyped'
    BY <2>1, <2>2, <2>3 DEF TypeOK, TreeTyped
  <2>5. LinearInv' /\ ObjsInv' /\ OpenInv'
    BY <2>1, <2>2, <2>3 DEF TreeInv, LinearInv, ObjsInv, OpenInv
  <2> QED BY <2>2, <2>3, <2>4, <2>5 DEF TypeOK, TreeInv
<1> QED BY <1>1, <1>2

LEMMA CheckFormOfPageKeeps == DInv /\ CheckFormOfPage => DInv'
<1> SUFFICES ASSUME DInv, CheckFormOfPage
             PROVE  DInv'
  OBVIOUS
<1>1. TypeOK /\ CallInv /\ TreeInv
  BY DEF DInv
<1>2. PICK result : /\ CheckAcroForm(result)
                    /\ IF result = "notAvailable" THEN Return("page", call.page, result)
                       ELSE GoOnTo("page")
  BY DEF CheckFormOfPage
<1>3. /\ call.at = "form"
      /\ UNCHANGED <<arrived, startVars, nodes, totalLoad, treeLoaded, pageObjs, seen,
                     curOk, asked, loadedPages, opens, open, doc>>
  BY DEF CheckFormOfPage
<1>4. UNCHANGED <<file, docAvail>> /\ call.op = "page" /\ open
  BY <1>1, <1>3, CallKinds DEF startVars, CallInv
<1>5. /\ TreeTyped' /\ TreeInv'
      /\ mainXRef' \in {"untried", "ok", "failed"} /\ mainIn' \in BOOLEAN
  BY <1>2, <1>3, CheckAcroFormKeeps
<1>6. call' \in Calls /\ call'.op \in {"page", "idle"} /\ call'.at \in {"page", ""}
  <2>1. GoOnTo("page") => call' \in Calls /\ call'.op = "page" /\ call'.at = "page"
    BY <1>1, <1>4, GoOnTyped
  <2>2. Idle \in Calls /\ Idle.op = "idle" /\ Idle.at = ""
    BY DEF Calls, Idle
  <2> QED BY <1>2, <2>1, <2>2 DEF Return
<1>7. CallInv'
  BY <1>3, <1>4, <1>6 DEF CallInv
<1>8. TypeOK'
  <2>1. PageTyped' /\ DocTyped'
    BY <1>1, <1>3, <1>4, <1>5, SameFile DEF TypeOK, PageTyped, DocTyped
  <2> QED BY <1>1, <1>3, <1>4, <1>5, <1>6, <2>1, WholeTyped DEF TypeOK
<1> QED BY <1>5, <1>7, <1>8 DEF DInv

(* A page looked up.                                                       *)
LEMMA LookUpTyped ==
    ASSUME TypeOK, NEW p \in Pages, LookUp(p)
    PROVE  /\ doc' \in DocType /\ Len(doc'.list) = Len(PagesOf)
           /\ doc'.next \in 0 .. Len(PagesOf) /\ call' = Idle
<1> DEFINE looked == GetPageDictionary(doc, p, Unread)
<1>1. doc' = looked.doc /\ call' = Idle
  BY DEF LookUp, Return
<1>2. /\ doc \in DocType /\ Len(doc.list) = Len(PagesOf)
      /\ doc.next \in 0 .. Len(PagesOf) /\ p \in 0 .. Len(doc.list) - 1
  BY DEF TypeOK, Pages
<1>3. Unread \in SUBSET (Branch \cup Page)
  BY DEF Unread
<1>4. /\ looked.doc \in DocType /\ Len(looked.doc.list) = Len(doc.list)
      /\ looked.doc.next \in {doc.next} \cup 0 .. Len(doc.list)
  BY <1>2, <1>3, LookupTyped
<1> QED BY <1>1, <1>2, <1>4

LEMMA CheckFoundPageKeeps == DInv /\ CheckFoundPage => DInv'
<1> SUFFICES ASSUME DInv, CheckFoundPage
             PROVE  DInv'
  OBVIOUS
<1>1. TypeOK /\ CallInv /\ TreeInv
  BY DEF DInv
<1>2. /\ call.at = "page" /\ LookUp(call.page)
      /\ UNCHANGED <<arrived, errors, startVars, treeVars, mainXRef, opens, open, mainIn>>
  BY DEF CheckFoundPage
<1>3. /\ curOk' \in {FALSE, curOk} /\ asked' \subseteq asked
      /\ loadedPages' \subseteq loadedPages \cup {call.page}
  BY DEF CheckFoundPage
<1>4. /\ UNCHANGED <<file, header, xrefFound, docAvail>>
      /\ UNCHANGED <<status, totalLoad, pageObjs>> /\ call.page \in Pages
  BY <1>1, <1>2, CallKinds DEF startVars, treeVars
<1>5. Linear' = Linear /\ Where(Root)' = Where(Root) /\ PagesOf' = PagesOf /\ Pages' = Pages
  BY <1>4, SameFile
<1>6. /\ doc' \in DocType /\ Len(doc'.list) = Len(PagesOf)
      /\ doc'.next \in 0 .. Len(PagesOf) /\ call' = Idle
  BY <1>1, <1>2, <1>4, LookUpTyped
<1>7. TreeTyped'
  BY <1>1, <1>2, <1>4, TreeTypedKept
<1>8. LinearInv' /\ ObjsInv' /\ OpenInv'
  BY <1>1, <1>2, <1>4, <1>5 DEF TreeInv, LinearInv, ObjsInv, OpenInv
<1>9. CallInv'
  BY <1>6 DEF CallInv, Idle
<1>10. PageTyped' /\ DocTyped'
  BY <1>1, <1>2, <1>3, <1>4, <1>5, <1>6 DEF TypeOK, PageTyped, DocTyped
<1>11. TypeOK'
  <2>1. Idle \in Calls
    BY DEF Calls
  <2> QED BY <1>1, <1>2, <1>4, <1>6, <1>7, <1>10, <2>1, WholeTyped DEF TypeOK
<1> QED BY <1>8, <1>9, <1>11 DEF DInv, TreeInv

-----------------------------------------------------------------------------
(* What the embedder calls.                                                *)

(* A step that leaves the page tree's part alone keeps what it says.       *)
LEMMA TreeInvKept ==
    ASSUME TreeInv, arrived \subseteq arrived', UNCHANGED <<file, docAvail, mainXRef>>,
           UNCHANGED <<status, totalLoad, pageObjs>>
    PROVE  TreeInv'
<1>1. Linear' = Linear /\ Where(Root)' = Where(Root)
  BY SameFile
<1> QED BY <1>1 DEF TreeInv, LinearInv, ObjsInv, OpenInv

LEMMA IsDocAvailKeeps == DInv /\ IsDocAvail => DInv'
<1> SUFFICES ASSUME DInv, IsDocAvail
             PROVE  DInv'
  OBVIOUS
<1>1. TypeOK /\ CallInv /\ TreeInv
  BY DEF DInv
<1>2. UNCHANGED <<arrived, errors, startVars, treeVars, pageVars, docVars>>
  BY DEF IsDocAvail
<1>3. /\ UNCHANGED <<file, header, xrefFound, docAvail, status, totalLoad, pageObjs>>
      /\ UNCHANGED <<mainXRef, open>>
  BY <1>2 DEF startVars, treeVars, pageVars, docVars
<1>4. call' = Idle \/ (call' = DocCall /\ ~docAvail)
  BY DEF IsDocAvail, Return
<1>5. CallInv' /\ call' \in Calls
  <2>1. CASE call' = Idle
    BY <2>1 DEF CallInv, Calls, Idle
  <2>2. CASE call' = DocCall /\ ~docAvail'
    BY <2>2 DEF CallInv, Calls, DocCall
  <2> QED BY <1>3, <1>4, <2>1, <2>2
<1>6. TreeInv'
  BY <1>1, <1>2, <1>3, TreeInvKept
<1>7. TreeTyped' /\ PageTyped' /\ DocTyped'
  BY <1>1, <1>2, <1>3, TreeTypedKept, SamePage, SameDoc
<1>8. TypeOK'
  BY <1>1, <1>2, <1>3, <1>5, <1>7, WholeTyped DEF TypeOK
<1> QED BY <1>5, <1>6, <1>8 DEF DInv

LEMMA IsLinearizedPDFKeeps == DInv /\ IsLinearizedPDF => DInv'
<1> SUFFICES ASSUME DInv, IsLinearizedPDF
             PROVE  DInv'
  OBVIOUS
<1>1. TypeOK /\ CallInv /\ TreeInv
  BY DEF DInv
<1>2. UNCHANGED <<arrived, file, xrefFound, docAvail, treeVars, pageVars, docVars>>
  BY DEF IsLinearizedPDF
<1>3. UNCHANGED <<status, nodes, totalLoad, treeLoaded, pageObjs, seen, mainXRef, open>>
  BY <1>2 DEF treeVars, pageVars, docVars
<1>4. PICK ok \in BOOLEAN : ReadHeader(ok) /\ call' = Idle
  BY DEF IsLinearizedPDF, Return
<1>5. CallInv' /\ call' \in Calls
  BY <1>4 DEF CallInv, Calls, Idle
<1>6. TreeInv'
  BY <1>1, <1>2, <1>3, TreeInvKept
<1>7. TreeTyped'
  <2>1. header' \in BOOLEAN /\ errors' \in 0 .. MaxErrors
    BY <1>1, <1>4, ReadHeaderTyped
  <2> QED BY <1>1, <1>2, <1>3, <2>1 DEF TypeOK, TreeTyped
<1>8. PageTyped' /\ DocTyped'
  BY <1>1, <1>2, SamePage, SameDoc
<1>9. TypeOK'
  BY <1>1, <1>2, <1>3, <1>5, <1>7, <1>8, WholeTyped DEF TypeOK
<1> QED BY <1>5, <1>6, <1>9 DEF DInv

LEMMA IsFormAvailKeeps == DInv /\ IsFormAvail => DInv'
<1> SUFFICES ASSUME DInv, IsFormAvail
             PROVE  DInv'
  OBVIOUS
<1>1. TypeOK /\ CallInv /\ TreeInv
  BY DEF DInv
<1>2. UNCHANGED <<arrived, startVars, nodes, totalLoad, treeLoaded, pageObjs, seen,
                  curOk, asked, loadedPages, opens, open, doc>>
  BY DEF IsFormAvail
<1>3. UNCHANGED <<file, header, xrefFound, docAvail>>
  BY <1>2 DEF startVars
<1>4. /\ TreeTyped' /\ TreeInv'
      /\ mainXRef' \in {"untried", "ok", "failed"} /\ mainIn' \in BOOLEAN
  <2>1. CASE open
    <3>1. PICK result : CheckAcroForm(result)
      BY <2>1 DEF IsFormAvail
    <3> QED BY <1>2, <3>1, CheckAcroFormKeeps
  <2>2. CASE ~open
    <3>1. UNCHANGED <<errors, mainXRef, mainIn, status>>
      BY <2>2 DEF IsFormAvail
    <3>2. TreeTyped'
      BY <1>1, <1>2, <1>3, <3>1 DEF TypeOK, TreeTyped
    <3>3. TreeInv'
      BY <1>1, <1>2, <1>3, <3>1, TreeInvKept
    <3> QED BY <1>1, <3>1, <3>2, <3>3 DEF TypeOK
  <2> QED BY <2>1, <2>2
<1>5. call' = Idle
  BY DEF IsFormAvail, Return
<1>6. CallInv' /\ call' \in Calls
  BY <1>5 DEF CallInv, Calls, Idle
<1>7. PageTyped' /\ DocTyped'
  BY <1>1, <1>2, <1>3, <1>4, SameFile DEF TypeOK, PageTyped, DocTyped
<1>8. TypeOK'
  BY <1>1, <1>2, <1>3, <1>4, <1>6, <1>7, WholeTyped DEF TypeOK
<1> QED BY <1>4, <1>6, <1>8 DEF DInv

LEMMA GetDocumentKeeps == DInv /\ GetDocument => DInv'
<1> SUFFICES ASSUME DInv, GetDocument
             PROVE  DInv'
  OBVIOUS
<1>1. TypeOK /\ CallInv /\ TreeInv
  BY DEF DInv
<1>2. /\ docAvail /\ opens < MaxOpens /\ open' \in BOOLEAN /\ opens' \in {opens, opens + 1}
      /\ doc' = LoadPages(file.kids, file.first) /\ mainIn' = FALSE /\ call' = Idle
      /\ UNCHANGED <<arrived, errors, startVars, treeVars, pageVars>>
  BY DEF GetDocument, Return
<1>3. /\ UNCHANGED <<file, header, xrefFound, docAvail, status, totalLoad, pageObjs>>
      /\ UNCHANGED mainXRef /\ PagesOf' = PagesOf
  BY <1>2, SameFile DEF startVars, treeVars, pageVars
<1>4. CallInv' /\ call' \in Calls
  BY <1>2 DEF CallInv, Calls, Idle
<1>5. TreeInv'
  BY <1>1, <1>2, <1>3, TreeInvKept
<1>6. TreeTyped' /\ PageTyped'
  BY <1>1, <1>2, <1>3, TreeTypedKept, SamePage
<1>7. DocTyped'
  <2>1. doc' \in DocType /\ Len(doc'.list) = Len(PagesOf) /\ doc'.next = 0
    BY <1>1, <1>2, LoadPagesTyped DEF TypeOK, PagesOf
  <2>2. opens \in 0 .. MaxOpens /\ MaxOpens \in Nat /\ Len(PagesOf) \in Nat
    BY <1>1, FileFacts, DataAvailAssumption DEF TypeOK
  <2>3. opens' \in 0 .. MaxOpens
    BY <1>2, <2>2
  <2>4. doc'.next \in 0 .. Len(PagesOf)
    BY <2>1, <2>2
  <2> QED BY <1>2, <1>3, <2>1, <2>3, <2>4 DEF DocTyped
<1>8. TypeOK'
  BY <1>1, <1>2, <1>3, <1>4, <1>6, <1>7, WholeTyped DEF TypeOK
<1> QED BY <1>4, <1>5, <1>8 DEF DInv

LEMMA CloseDocumentKeeps == DInv /\ CloseDocument => DInv'
<1> SUFFICES ASSUME DInv, CloseDocument
             PROVE  DInv'
  OBVIOUS
<1>1. TypeOK /\ CallInv /\ TreeInv
  BY DEF DInv
<1>2. /\ call = Idle /\ open' = FALSE /\ mainIn' = FALSE
      /\ doc' = LoadPages(file.kids, file.first)
      /\ UNCHANGED <<arrived, errors, call, startVars, treeVars, pageVars, opens>>
  BY DEF CloseDocument
<1>3. /\ UNCHANGED <<file, header, xrefFound, docAvail, status, totalLoad, pageObjs>>
      /\ UNCHANGED mainXRef /\ PagesOf' = PagesOf
  BY <1>2, SameFile DEF startVars, treeVars, pageVars
<1>4. CallInv' /\ call' \in Calls
  BY <1>2 DEF CallInv, Calls, Idle
<1>5. TreeInv'
  BY <1>1, <1>2, <1>3, TreeInvKept
<1>6. TreeTyped' /\ PageTyped'
  BY <1>1, <1>2, <1>3, TreeTypedKept, SamePage
<1>7. DocTyped'
  <2>1. doc' \in DocType /\ Len(doc'.list) = Len(PagesOf) /\ doc'.next = 0
    BY <1>1, <1>2, LoadPagesTyped DEF TypeOK, PagesOf
  <2>2. opens \in 0 .. MaxOpens /\ Len(PagesOf) \in Nat
    BY <1>1, FileFacts DEF TypeOK
  <2>3. doc'.next \in 0 .. Len(PagesOf)
    BY <2>1, <2>2
  <2> QED BY <1>2, <1>3, <2>1, <2>2, <2>3 DEF DocTyped
<1>8. TypeOK'
  BY <1>1, <1>2, <1>3, <1>4, <1>6, <1>7, WholeTyped DEF TypeOK
<1> QED BY <1>4, <1>5, <1>8 DEF DInv

LEMMA DownloadKeeps == DInv /\ (\E piece \in Pieces : Download(piece)) => DInv'
<1> SUFFICES ASSUME DInv, NEW piece \in Pieces, Download(piece)
             PROVE  DInv'
  OBVIOUS
<1>1. TypeOK /\ CallInv /\ TreeInv
  BY DEF DInv
<1>2. /\ arrived' = arrived \cup {piece}
      /\ UNCHANGED <<errors, call, startVars, treeVars, pageVars, docVars>>
  BY DEF Download
<1>3. /\ UNCHANGED <<file, header, xrefFound, docAvail, status, totalLoad, pageObjs>>
      /\ UNCHANGED <<mainXRef, open>>
  BY <1>2 DEF startVars, treeVars, pageVars, docVars
<1>4. CallInv' /\ call' \in Calls
  BY <1>1, <1>2, <1>3, SameFile DEF CallInv, TypeOK
<1>5. TreeInv'
  BY <1>1, <1>2, <1>3, TreeInvKept
<1>6. TreeTyped' /\ PageTyped' /\ DocTyped'
  BY <1>1, <1>2, <1>3, TreeTypedKept, SamePage, SameDoc
<1>7. TypeOK'
  BY <1>1, <1>2, <1>3, <1>4, <1>6, WholeTyped DEF TypeOK
<1> QED BY <1>4, <1>5, <1>7 DEF DInv

LEMMA IsPageAvailKeeps == DInv /\ (\E p \in Pages : IsPageAvail(p)) => DInv'
<1> SUFFICES ASSUME DInv, NEW p \in Pages, IsPageAvail(p)
             PROVE  DInv'
  OBVIOUS
<1>1. TypeOK /\ CallInv /\ TreeInv
  BY DEF DInv
<1>2. /\ call = Idle /\ open
      /\ UNCHANGED <<arrived, startVars, nodes, totalLoad, treeLoaded, pageObjs, seen,
                     loadedPages, opens, open>>
  BY DEF IsPageAvail
<1>3. UNCHANGED <<file, header, xrefFound, docAvail>> /\ docAvail
  BY <1>1, <1>2 DEF startVars, TypeOK
<1>4. Linear' = Linear /\ PagesOf' = PagesOf /\ Pages' = Pages /\ Idle \in Calls
  BY <1>3, SameFile DEF Calls
<1>5. Ask(p) => asked' \subseteq Pages /\ curOk' \in BOOLEAN
  BY <1>1 DEF Ask, TypeOK
<1>6. /\ UNCHANGED <<errors, status>> => TreeTyped'
      /\ UNCHANGED <<mainXRef, status>> => TreeInv'
      /\ UNCHANGED doc => /\ doc' \in DocType /\ Len(doc'.list) = Len(PagesOf)
                          /\ doc'.next \in 0 .. Len(PagesOf)
  <2>1. UNCHANGED <<errors, status>> => TreeTyped'
    BY <1>1, <1>2, <1>3 DEF TypeOK, TreeTyped
  <2>2. UNCHANGED <<mainXRef, status>> => TreeInv'
    BY <1>1, <1>2, <1>3, TreeInvKept
  <2> QED BY <1>1, <2>1, <2>2 DEF TypeOK
<1> DEFINE Typed ==
             /\ TreeTyped' /\ TreeInv' /\ asked' \subseteq Pages /\ curOk' \in BOOLEAN
             /\ mainXRef' \in {"untried", "ok", "failed"} /\ mainIn' \in BOOLEAN
             /\ doc' \in DocType /\ Len(doc'.list) = Len(PagesOf)
             /\ doc'.next \in 0 .. Len(PagesOf)
           Called ==
             \/ call' = Idle
             \/ /\ call' \in [op : {"page"}, at : {"check", "tree", "form"}, page : {p}]
                /\ call'.at = "check" => ~totalLoad /\ (Linear => mainXRef' = "ok")
                /\ call'.at = "tree" => totalLoad
<1>7. Typed /\ Called
  <2>1. CASE /\ p \in loadedPages
             /\ Ask(p) /\ Return("page", p, "available")
             /\ UNCHANGED <<errors, mainXRef, mainIn, status, doc>>
    BY <1>1, <1>5, <1>6, <2>1 DEF Return, TypeOK
  <2>2. CASE /\ Ask(p) /\ LookUp(p)
             /\ UNCHANGED <<errors, mainXRef, mainIn, status>>
    BY <1>1, <1>5, <1>6, <2>2, LookUpTyped DEF TypeOK
  <2>3. CASE Linear /\ CheckBeforePage(p) /\ UNCHANGED doc
    <3>1. PICK result : /\ CheckLinearizedData(result)
                        /\ \/ Ask(p) /\ Return("page", p, result)
                           \/ /\ mainXRef' = "ok" /\ Ask(p)
                              /\ call' = [op |-> "page", page |-> p,
                                   at |-> CASE totalLoad -> "tree" [] curOk' -> "form"
                                            [] OTHER -> "check"]
      BY <2>3 DEF CheckBeforePage
    <3>2. /\ TreeTyped' /\ TreeInv'
          /\ mainXRef' \in {"untried", "ok", "failed"} /\ mainIn' \in BOOLEAN
      BY <1>2, <2>3, <3>1, CheckLinearizedDataKeeps
    <3>3. Called
      BY <3>1 DEF Return
    <3> QED BY <1>5, <1>6, <2>3, <3>1, <3>2, <3>3
  <2>4. CASE Linear /\ RebuildInstead(p) /\ UNCHANGED doc
    <3>1. /\ mainXRef = "untried" /\ mainIn' \in BOOLEAN /\ status' \in {"done", status}
          /\ asked' \subseteq asked \cup {p} /\ curOk' \in BOOLEAN
          /\ call' = Idle /\ UNCHANGED <<errors, mainXRef>>
      BY <1>1, <2>4 DEF RebuildInstead, Return, TypeOK
    <3>2. pageObjs = {}
      BY <1>1, <2>4, <3>1 DEF TreeInv, LinearInv, ObjsInv
    <3>3. TreeTyped'
      BY <1>1, <1>2, <1>3, <3>1 DEF TypeOK, TreeTyped
    <3>4. LinearInv' /\ ObjsInv' /\ OpenInv'
      BY <1>1, <1>2, <1>3, <1>4, <2>4, <3>1, <3>2 DEF TreeInv, LinearInv, ObjsInv, OpenInv
    <3> QED BY <1>1, <1>6, <2>4, <3>1, <3>3, <3>4 DEF TypeOK, TreeInv
  <2>5. CASE /\ ~Linear /\ Ask(p)
             /\ call' = [op |-> "page", page |-> p,
                         at |-> IF totalLoad \/ curOk' THEN "form" ELSE "check"]
             /\ UNCHANGED <<errors, mainXRef, mainIn, status, doc>>
    BY <1>1, <1>5, <1>6, <2>5 DEF TypeOK
  <2> HIDE DEF Typed, Called
  <2> QED BY <2>1, <2>2, <2>3, <2>4, <2>5 DEF IsPageAvail
<1>8. CallInv' /\ call' \in Calls
  <2>1. CASE call' = Idle
    BY <1>4, <2>1, SameFile, <1>3 DEF CallInv, Idle
  <2>2. CASE call' # Idle
    <3>1. call'.op = "page" /\ call' \in Calls
      BY <1>7, <2>2 DEF Calls
    <3>2. open' /\ totalLoad' = totalLoad
      BY <1>2
    <3> QED BY <1>4, <1>7, <2>2, <3>1, <3>2 DEF CallInv
  <2> QED BY <2>1, <2>2
<1>9. PageTyped' /\ DocTyped'
  BY <1>1, <1>2, <1>4, <1>7 DEF TypeOK, PageTyped, DocTyped
<1>10. TypeOK'
  BY <1>1, <1>2, <1>3, <1>7, <1>8, <1>9, WholeTyped DEF TypeOK
<1> QED BY <1>7, <1>8, <1>10 DEF DInv

LEMMA StutterKeeps == DInv /\ UNCHANGED vars => DInv'
<1> SUFFICES ASSUME DInv, UNCHANGED vars
             PROVE  DInv'
  OBVIOUS
<1>1. TypeOK /\ CallInv /\ TreeInv
  BY DEF DInv
<1>2. UNCHANGED <<arrived, errors, call, startVars, treeVars, pageVars, docVars>>
  BY DEF vars
<1>3. /\ UNCHANGED <<file, header, xrefFound, docAvail, status, totalLoad, pageObjs>>
      /\ UNCHANGED <<mainXRef, open>>
  BY <1>2 DEF startVars, treeVars, pageVars, docVars
<1>4. CallInv' /\ call' \in Calls
  BY <1>1, <1>2, <1>3, SameFile DEF CallInv, TypeOK
<1>5. TreeInv'
  BY <1>1, <1>2, <1>3, TreeInvKept
<1>6. TreeTyped' /\ PageTyped' /\ DocTyped'
  BY <1>1, <1>2, <1>3, TreeTypedKept, SamePage, SameDoc
<1>7. TypeOK'
  BY <1>1, <1>2, <1>3, <1>4, <1>6, WholeTyped DEF TypeOK
<1> QED BY <1>4, <1>5, <1>7 DEF DInv

LEMMA NextKeepsDInv == DInv /\ [Next]_vars => DInv'
BY DocStepKeeps, DocIsAvailableKeeps, CheckPageKeeps, LoadAllPagesKeeps,
   CheckFormOfPageKeeps, CheckFoundPageKeeps, IsDocAvailKeeps, IsLinearizedPDFKeeps,
   IsFormAvailKeeps, GetDocumentKeeps, CloseDocumentKeeps, DownloadKeeps,
   IsPageAvailKeeps, StutterKeeps
   DEF Next, NextButPages, CallStep, StepBeforeLookUp

LEMMA DInvAlways == Spec => []DInv
BY InitDInv, NextKeepsDInv, PTL DEF Spec

-----------------------------------------------------------------------------
(* The theorems.                                                           *)

(* CPDF_DataAvail never leaves the states its calls expect, in whatever    *)
(* order the data arrives, reads fail, and the embedder asks for the       *)
(* document, its form and its pages, opens the document and closes it: the *)
(* list of pages keeps its length and the walk that fills it stands at a   *)
(* page, and objects of the page tree that are still to be looked at are   *)
(* among those seen.                                                       *)
THEOREM TypeOKAlways == Spec => []TypeOK
<1>1. DInv => TypeOK
  BY DEF DInv
<1> QED BY <1>1, DInvAlways, PTL

(* When the root of the page tree has a /Count, a document that has been   *)
(* said to be available can be opened: FPDFAvail_GetDocument never fails   *)
(* after it, whatever failed or was asked before.                          *)
THEOREM DocumentOpensAlways ==
    ASSUME \A f \in Files : f.counted
    PROVE  Spec => []DocumentOpens
<1>1. Init => DocumentOpens
  BY DEF Init, DocumentOpens
<1>2. DInv /\ DocumentOpens /\ [Next]_vars => DocumentOpens'
  <2> SUFFICES ASSUME DInv, DocumentOpens, [Next]_vars
               PROVE  DocumentOpens'
    OBVIOUS
  <2>1. TypeOK /\ TreeInv
    BY DEF DInv
  <2>2. CASE GetDocument
    <3>1. docAvail /\ answer' = [op |-> "document", page |-> 0, result |->
                                  IF NeededToOpen \subseteq arrived THEN "available" ELSE "error"]
      BY <2>2 DEF GetDocument, Return
    <3>2. file.counted
      BY <2>1 DEF TypeOK
    <3>3. NeededToOpen \subseteq arrived
      BY <2>1, <3>1, <3>2 DEF NeededToOpen, TreeInv, OpenInv
    <3> QED BY <3>1, <3>3 DEF DocumentOpens
  <2>3. CASE ~GetDocument
    <3>1. \/ UNCHANGED answer
          \/ answer'.op \in {"doc", "page", "linearized", "form"}
      <4>1. \A op, p, result : Return(op, p, result) => answer'.op = op
        BY DEF Return
      <4>2. \A at : GoOnTo(at) => UNCHANGED answer
        BY DEF GoOnTo
      <4>3. \A p : LookUp(p) => answer'.op = "page"
        BY <4>1 DEF LookUp
      <4>4. \A ok : Unless(ok) => UNCHANGED answer \/ answer'.op = call.op
        BY <4>1 DEF Unless, GoOn
      <4>5. CASE DocStep \/ DocIsAvailable
        BY <4>1, <4>4, <4>5 DEF DocStep, DocIsAvailable
      <4>6. CASE CheckPage \/ LoadAllPages
        BY <2>1, <4>2, <4>4, <4>6, CallKinds DEF CheckPage, LoadAllPages
      <4>7. CASE CheckFormOfPage \/ CheckFoundPage
        BY <4>1, <4>2, <4>3, <4>7 DEF CheckFormOfPage, CheckFoundPage
      <4>8. CASE IsDocAvail \/ IsLinearizedPDF \/ IsFormAvail
        BY <4>1, <4>8 DEF IsDocAvail, IsLinearizedPDF, IsFormAvail
      <4>9. CASE CloseDocument \/ (\E piece \in Pieces : Download(piece)) \/ UNCHANGED vars
        BY <4>9 DEF CloseDocument, Download, vars
      <4>10. CASE \E p \in Pages : IsPageAvail(p)
        <5>1. PICK p \in Pages : IsPageAvail(p)
          BY <4>10
        <5>2. RebuildInstead(p) => answer'.op = "page"
          BY <4>1 DEF RebuildInstead
        <5>3. CheckBeforePage(p) => UNCHANGED answer \/ answer'.op = "page"
          BY <4>1 DEF CheckBeforePage
        <5> QED BY <4>1, <4>3, <5>1, <5>2, <5>3 DEF IsPageAvail
      <4> QED BY <2>3, <4>5, <4>6, <4>7, <4>8, <4>9, <4>10
              DEF Next, NextButPages, CallStep, StepBeforeLookUp
    <3> QED BY <3>1 DEF DocumentOpens
  <2> QED BY <2>2, <2>3
<1> QED BY <1>1, <1>2, DInvAlways, PTL DEF Spec

-----------------------------------------------------------------------------
(* No lookup changes page_list_ behind the page it is for.                 *)

LEMMA TurnBeyond ==
    ASSUME NEW w \in Walks, w.togo \in Nat, w.togo <= w.wanted + 1
    PROVE  LET v == Turn(w)
           IN  /\ v.togo \in Nat /\ v.togo <= w.wanted + 1 /\ v.wanted = w.wanted
               /\ \A x \in Nat : x > w.wanted + 1 => v.doc.list[x] = w.doc.list[x]
<1> DEFINE v == Turn(w)
           trav == w.doc.trav
           top == Last(trav)
           list == w.doc.kids[top.node]
           kid == list[top.child]
<1>1. w.wanted \in Nat /\ w.doc.list \in Seq(Page \cup {None})
  BY DEF Walks, DocType
<1>2. CASE trav = <<>>
  BY <1>1, <1>2 DEF Turn
<1>3. CASE trav # <<>>
  <2>1. v.wanted = w.wanted
    BY <1>3, TurnFields
  <2>2. CASE top.child > Len(list) \/ w.togo = 0
    <3>1. v.doc.list = w.doc.list /\ v.togo = w.togo
      BY <1>3, <2>2, TurnFields
    <3> QED BY <2>1, <3>1
  <2>3. CASE ~(top.child > Len(list)) /\ w.togo # 0
    <3>1. CASE kid \in w.unread
      <4>1. v = PassNull(w)
        BY <1>3, <2>3, <3>1 DEF Turn
      <4>2. v.doc.list = w.doc.list /\ v.togo = w.togo - 1
        BY <4>1 DEF PassNull, NextChild, Walks, DocType
      <4> HIDE DEF v
      <4>3. v.togo \in Nat /\ v.togo <= w.wanted + 1
        BY <1>1, <2>3, <4>2
      <4> QED BY <2>1, <4>2, <4>3 DEF v
    <3>2. CASE kid \in Page \ w.unread
      <4> DEFINE y == w.wanted - w.togo + 2
      <4>1. v.doc.list = [w.doc.list EXCEPT ![y] = kid] /\ v.togo = w.togo - 1
        BY <1>3, <2>3, <3>2, TurnFields
      <4>2. y <= w.wanted + 1 /\ w.togo - 1 \in Nat /\ w.togo - 1 <= w.wanted + 1
        BY <1>1, <2>3
      <4> HIDE DEF v, y
      <4>3. ASSUME NEW x \in Nat, x > w.wanted + 1
            PROVE  v.doc.list[x] = w.doc.list[x]
        <5>1. x # y
          BY <1>1, <4>2, <4>3
        <5> QED BY <1>1, <4>1, <5>1
      <4> QED BY <2>1, <4>1, <4>2, <4>3 DEF v
    <3>3. CASE kid \notin Page \cup w.unread
      <4>1. v.doc.list = w.doc.list /\ v.togo = w.togo
        BY <1>3, <2>3, <3>3, TurnFields
      <4> QED BY <2>1, <4>1
    <3> QED BY <3>1, <3>2, <3>3
  <2> QED BY <2>2, <2>3
<1> QED BY <1>2, <1>3

LEMMA WalkBeyond ==
    ASSUME NEW w \in Walks, w.togo <= w.wanted + 1
    PROVE  \A x \in Nat : x > w.wanted + 1 =>
             TraversePDFPages(w).doc.list[x] = w.doc.list[x]
<1> DEFINE after == CHOOSE g : TurnsOf(w, g, MaxTurns)
           Kept(v) == /\ v \in Walks /\ v.togo \in Nat /\ v.togo <= w.wanted + 1
                      /\ v.wanted = w.wanted
                      /\ \A x \in Nat : x > w.wanted + 1 => v.doc.list[x] = w.doc.list[x]
           S == {n \in 0 .. MaxTurns : Kept(after[n])}
<1>1. MaxTurns \in Nat
  BY NodesAssumption, FS_CardinalityType DEF MaxTurns
<1>2. TurnsOf(w, after, MaxTurns)
  BY <1>1, TurnsTaken
<1>3. TraversePDFPages(w) = IF w.togo < 0 THEN w ELSE after[MaxTurns]
  BY DEF TraversePDFPages, TurnsOf
<1> HIDE DEF after
<1>4. after[0] = w
  BY <1>1, <1>2 DEF TurnsOf
<1>5. \A n \in 0 .. MaxTurns : n < MaxTurns => after[n + 1] = Turn(after[n])
  <2> SUFFICES ASSUME NEW n \in 0 .. MaxTurns, n < MaxTurns
               PROVE  after[n + 1] = Turn(after[n])
    OBVIOUS
  <2>1. n + 1 \in 0 .. MaxTurns /\ n + 1 # 0 /\ (n + 1) - 1 = n
    BY <1>1
  <2> QED BY <1>2, <2>1 DEF TurnsOf
<1>6. CASE w.togo < 0
  BY <1>3, <1>6
<1>7. CASE ~(w.togo < 0)
  <2>1. w.togo \in Nat
    BY <1>7 DEF Walks
  <2>2. 0 \in S
    BY <1>1, <1>4, <2>1
  <2>3. ASSUME NEW n \in 0 .. MaxTurns, n \in S, n < MaxTurns
        PROVE  n + 1 \in S
    <3>1. n + 1 \in 0 .. MaxTurns
      BY <1>1, <2>3
    <3>2. Kept(after[n])
      BY <2>3
    <3> DEFINE v == after[n]
    <3>3. Turn(v) \in Walks
      BY <3>2, TurnTyped
    <3>4. /\ Turn(v).togo \in Nat /\ Turn(v).togo <= v.wanted + 1 /\ Turn(v).wanted = v.wanted
          /\ \A x \in Nat : x > v.wanted + 1 => Turn(v).doc.list[x] = v.doc.list[x]
      BY <3>2, TurnBeyond
    <3> HIDE DEF v
    <3>5. Kept(Turn(v))
      BY <3>2, <3>3, <3>4 DEF v
    <3> QED BY <1>5, <2>3, <3>1, <3>5 DEF v
  <2> HIDE DEF S
  <2>4. MaxTurns \in S
    BY <1>1, <2>2, <2>3, UpToBound
  <2> QED BY <1>3, <1>7, <2>4 DEF S
<1> QED BY <1>6, <1>7

LEMMA LookupBeyond ==
    ASSUME NEW d \in DocType, NEW i \in 0 .. Len(d.list) - 1,
           NEW unread \in SUBSET (Branch \cup Page)
    PROVE  \A x \in Nat : x > i + 1 =>
             GetPageDictionary(d, i, unread).doc.list[x] = d.list[x]
<1> DEFINE r == GetPageDictionary(d, i, unread)
           start == IF d.trav = <<>>
                    THEN [ResetTraversal(d) EXCEPT !.trav = <<[node |-> Root, child |-> 1]>>]
                    ELSE d
           w == [doc |-> start, unread |-> unread, wanted |-> i,
                 togo |-> i - start.next + 1, found |-> None]
           walk == TraversePDFPages(w)
<1>1. Len(d.list) \in Nat /\ i \in Nat
  BY DEF DocType
<1>2. start \in DocType /\ start.list = d.list
  <2>1. [node |-> Root, child |-> 1] \in Steps
    BY NodesAssumption DEF Steps
  <2>2. <<[node |-> Root, child |-> 1]>> \in Seq(Steps)
    BY <2>1
  <2> QED BY <2>2 DEF ResetTraversal, DocType, Steps
<1>3. \/ r.doc = d
      \/ r.doc = [walk.doc EXCEPT !.next = i + 1]
  BY DEF GetPageDictionary
<1> HIDE DEF start
<1>4. w \in Walks /\ w.doc = start /\ w.wanted = i /\ w.togo <= i + 1
  <2>1. start.next \in Nat
    BY <1>2 DEF DocType
  <2> QED BY <1>1, <1>2, <2>1 DEF Walks
<1> HIDE DEF w
<1>5. \A x \in Nat : x > i + 1 => walk.doc.list[x] = d.list[x]
  BY <1>2, <1>4, WalkBeyond
<1>6. walk.doc \in DocType
  BY <1>4, WalkTyped DEF Walks
<1> HIDE DEF walk, r
<1>7. [walk.doc EXCEPT !.next = i + 1].list = walk.doc.list
  BY <1>6 DEF DocType
<1>8. \A x \in Nat : x > i + 1 => r.doc.list[x] = d.list[x]
  BY <1>3, <1>5, <1>7
<1> QED BY <1>8 DEF r

-----------------------------------------------------------------------------
(* What of a page is there.                                                *)

(* The nodes CheckPageNode comes to on the way to a page, and the page.    *)
Way == [p \in Pages |-> {Walk[i] : i \in {j \in DOMAIN Walk : j <= PageInWalk(p)}}]

(* The pages all of whose way has arrived, those whose content has, and    *)
(* the page at the beginning of a linearized file.                         *)
Ready == {p \in Pages : \A o \in Way[p] : Where(o) \in arrived}
Shown == {p \in Pages : Content(PagesOf[p + 1]) \in arrived}
First == IF Linear THEN {file.first - 1} ELSE {}

(* The nodes that have arrived, and the pages in page_list_.               *)
Present == {o \in Nodes : Where(o) \in arrived}
Found   == {p \in Pages : doc.list[p + 1] # None}

(* The pages asked for whose way is still missing.                         *)
Waiting == asked \ (loadedPages \cup First \cup Ready)

LEMMA Grows ==
    ASSUME UNCHANGED file, arrived \subseteq arrived'
    PROVE  /\ UNCHANGED <<First, Pages, PagesOf, Linear>>
           /\ Ready \subseteq Ready' /\ Shown \subseteq Shown' /\ Present \subseteq Present'
           /\ WholeFile => WholeFile'
           /\ UNCHANGED arrived => UNCHANGED <<Ready, Shown, Present>>
<1>1. UNCHANGED <<Pages, PagesOf, Linear, Pieces, Walk>> /\ \A o : Where(o)' = Where(o)
  BY SameFile DEF Walk
<1>2. First' = First
  BY <1>1 DEF First
<1>3. Way' = Way
  BY <1>1 DEF Way, PageInWalk
<1>4. Ready \subseteq Ready' /\ (UNCHANGED arrived => Ready' = Ready)
  BY <1>1, <1>3 DEF Ready
<1>5. Shown \subseteq Shown' /\ (UNCHANGED arrived => Shown' = Shown)
  BY <1>1 DEF Shown
<1>6. Present \subseteq Present' /\ (UNCHANGED arrived => Present' = Present)
  BY <1>1 DEF Present
<1>7. WholeFile => WholeFile'
  BY <1>1 DEF WholeFile
<1> QED BY <1>1, <1>2, <1>4, <1>5, <1>6, <1>7

LEMMA FirstFacts ==
    ASSUME TypeOK
    PROVE  /\ First \subseteq Pages
           /\ Linear => file.first \in 1 .. Len(PagesOf) /\ First = {file.first - 1}
<1>1. file \in Files /\ file.first \in Nat
  BY DataAvailAssumption DEF TypeOK, File
<1>2. file.first <= Len(PagesOf)
  BY <1>1, TreesFacts DEF PagesOf
<1>3. Len(PagesOf) \in Nat
  BY FileFacts
<1>4. Linear => file.first # 0
  BY DEF Linear, IsLinear
<1> QED BY <1>1, <1>2, <1>3, <1>4 DEF First, Pages

(* The walk is along pieces of the file.                                   *)
LEMMA WalkFacts ==
    ASSUME TypeOK
    PROVE  /\ Walk \in Seq(Nodes) /\ Walk = PreOrder(file.kids, Root)
           /\ DOMAIN Walk = 1 .. Len(Walk) /\ Len(Walk) \in Nat
           /\ \A x \in DOMAIN Walk : Where(Walk[x]) \in Pieces
           /\ Len(Walk) > 0 /\ Walk[1] = Root
<1>1. /\ file \in Files /\ IsTree(file.kids) /\ Descends(file.kids)
      /\ Walk = PreOrder(file.kids, Root) /\ Passes(Walk, PagesOf)
  BY TreesFacts DEF TypeOK, Walk, PagesOf
<1>2. /\ Walk \in Seq(Nodes) /\ DOMAIN Walk = 1 .. Len(Walk) /\ Len(Walk) \in Nat
      /\ PagesOf \in Seq(Page) /\ Counted(Walk, Len(Walk)) = Len(PagesOf)
      /\ \A x \in 1 .. Len(Walk) : Walk[x] \in Page => Walk[x] = PagesOf[Counted(Walk, x)]
  BY <1>1 DEF Passes
<1>3. ASSUME NEW x \in DOMAIN Walk
      PROVE  Where(Walk[x]) \in Pieces
  <2>1. Walk[x] \in Branch \cup ToSet(PagesOf)
    <3>1. CASE Walk[x] \in Page
      <4>1. x \in 1 .. Len(Walk) /\ x \in 0 .. Len(Walk) /\ x - 1 \in Nat /\ (x - 1) + 1 = x
        BY <1>2
      <4>2. Counted(Walk, x) \in Nat /\ Counted(Walk, x) <= Len(PagesOf)
        BY <1>2, <4>1, CountFacts
      <4>3. Counted(Walk, x) = Counted(Walk, x - 1) + 1 /\ Counted(Walk, x - 1) \in Nat
        BY <3>1, <4>1, CountFacts
      <4>4. Counted(Walk, x) \in 1 .. Len(PagesOf) /\ Walk[x] = PagesOf[Counted(Walk, x)]
        <5>1. Len(PagesOf) \in Nat
          BY <1>2
        <5> QED BY <1>2, <3>1, <4>1, <4>2, <4>3, <5>1
      <4>5. DOMAIN PagesOf = 1 .. Len(PagesOf)
        BY <1>2
      <4> QED BY <4>4, <4>5 DEF ToSet
    <3>2. CASE Walk[x] \notin Page
      BY <1>2, <3>2 DEF Nodes
    <3> QED BY <3>1, <3>2
  <2>2. Pieces = PieceSets[file] /\ PagesOf = PageOrder[file]
    BY DEF Pieces, PagesOf
  <2> QED BY <1>1, <2>1, <2>2 DEF PieceSets, Where
<1>4. Len(Walk) > 0 /\ Walk[1] = Root
  <2>1. Lies(file.kids, Root, 0, 0)
    BY <1>1, RootLies
  <2> DEFINE n == Len(file.kids[Root])
             G == KidWalks(file.kids, Root)
  <2>2. Walk = <<Root>> \o Flat(G, n)
    BY <1>1, WalkUnfold, NodesAssumption
  <2>3. n \in Nat /\ \A j \in 1 .. n : j \in DOMAIN file.kids[Root] /\ file.kids[Root][j] \in Nodes
    BY <1>1, TreeFacts, NodesAssumption
  <2>4. \A j \in 1 .. n : G[j] \in Seq(Nodes)
    BY <1>1, <2>3, WalkPasses DEF Passes, KidWalks
  <2>5. n \in Nat
    BY <2>3
  <2> HIDE DEF n, G
  <2>6. n \in 0 .. n
    BY <2>5
  <2>7. \A j \in 0 .. n : Flat(G, j) \in Seq(Nodes)
    BY <2>4, <2>5, FlatTyped
  <2>8. Flat(G, n) \in Seq(Nodes)
    BY <2>6, <2>7
  <2>9. <<Root>> \in Seq(Nodes) /\ Len(<<Root>>) = 1
    BY NodesAssumption DEF Nodes
  <2> QED BY <2>2, <2>8, <2>9
<1> QED BY <1>1, <1>2, <1>3, <1>4

LEMMA WholeReady ==
    ASSUME TypeOK, WholeFile
    PROVE  Ready = Pages /\ Shown = Pages /\ Waiting = {}
<1>1. ASSUME NEW p \in Pages, NEW o \in Way[p]
      PROVE  Where(o) \in arrived
  <2>1. Where(o) \in Pieces
    BY <1>1, WalkFacts DEF Way
  <2> QED BY <2>1 DEF WholeFile
<1>2. Ready = Pages
  BY <1>1 DEF Ready
<1>3. ASSUME NEW p \in Pages
      PROVE  Content(PagesOf[p + 1]) \in arrived
  <2>1. PagesOf \in Seq(Page) /\ Len(PagesOf) \in Nat /\ p + 1 \in 1 .. Len(PagesOf)
    BY FileFacts DEF Pages
  <2>2. PagesOf[p + 1] \in ToSet(PagesOf)
    BY <2>1 DEF ToSet
  <2>3. Pieces = PieceSets[file] /\ PagesOf = PageOrder[file] /\ file \in Files
    BY DEF Pieces, PagesOf, TypeOK
  <2>4. Content(PagesOf[p + 1]) \in Pieces
    BY <2>2, <2>3 DEF PieceSets
  <2> QED BY <2>4 DEF WholeFile
<1>4. Shown = Pages
  BY <1>3 DEF Shown
<1>5. Waiting = {}
  BY <1>2 DEF Waiting, TypeOK
<1> QED BY <1>2, <1>4, <1>5

(* The way to a page passes those before it.                               *)
LEMMA WayGrows ==
    ASSUME TypeOK, NEW p \in Pages, NEW x \in DOMAIN Walk, Counted(Walk, x - 1) <= p
    PROVE  Walk[x] \in Way[p]
<1> DEFINE place == PageInWalk(p)
<1>1. place \in DOMAIN Walk /\ Counted(Walk, place) = p + 1
  BY PlaceFound
<1>2. DOMAIN Walk = 1 .. Len(Walk) /\ Len(Walk) \in Nat
  BY WalkFacts
<1>3. p \in Nat
  BY FileFacts DEF Pages
<1>4. x <= place
  <2> SUFFICES ASSUME ~(x <= place)
               PROVE  FALSE
    OBVIOUS
  <2> HIDE DEF place
  <2>1. x - 1 \in Nat /\ place \in 0 .. (x - 1)
    BY <1>1, <1>2
  <2>2. Counted(Walk, place) <= Counted(Walk, x - 1) /\ Counted(Walk, x - 1) \in Nat
    BY <2>1, CountFacts
  <2> QED BY <1>1, <1>3, <2>2
<1> QED BY <1>4 DEF Way

LEMMA ReadyBefore ==
    ASSUME TypeOK, NEW p \in Ready, NEW q \in Pages, q <= p
    PROVE  q \in Ready
<1>1. p \in Pages /\ \A o \in Way[p] : Where(o) \in arrived
  BY DEF Ready
<1> DEFINE place == PageInWalk(q)
<1>2. /\ place \in DOMAIN Walk /\ Counted(Walk, place) = q + 1 /\ Walk[place] \in Page
      /\ DOMAIN Walk = 1 .. Len(Walk) /\ Len(Walk) \in Nat /\ q \in Nat /\ p \in Nat
  BY <1>1, PlaceFound, WalkFacts, FileFacts DEF Pages
<1> HIDE DEF place
<1>3. place - 1 \in Nat /\ (place - 1) + 1 = place
  BY <1>2
<1>4. Counted(Walk, place) = Counted(Walk, place - 1) + 1 /\ Counted(Walk, place - 1) \in Nat
  BY <1>2, <1>3, CountFacts
<1>5. ASSUME NEW x \in DOMAIN Walk, x <= place
      PROVE  Walk[x] \in Way[p]
  <2>1. x - 1 \in 0 .. (place - 1)
    BY <1>2, <1>5
  <2>2. Counted(Walk, x - 1) \in Nat /\ Counted(Walk, x - 1) <= Counted(Walk, place - 1)
    BY <1>3, <2>1, CountFacts
  <2>3. Counted(Walk, x - 1) <= p
    BY <1>2, <1>4, <2>2
  <2> QED BY <1>1, <2>3, WayGrows
<1>6. \A o \in Way[q] : o \in Way[p]
  BY <1>5 DEF Way, place
<1> QED BY <1>1, <1>6 DEF Ready

(* What the document can read, and a lookup of a page comes to.            *)
LEMMA ReadyCanRead ==
    ASSUME TypeOK, NEW p \in Ready, ~Linear \/ ~open \/ mainIn
    PROVE  /\ CanRead(file.kids, Unread, p) /\ Root \notin Unread
           /\ PagesOf[p + 1] \notin Unread
<1>1. p \in Pages /\ (\A o \in Way[p] : Where(o) \in arrived) /\ p \in Nat
  BY FileFacts DEF Ready, Pages
<1>2. \A o \in Way[p] : o \notin Unread
  BY <1>1 DEF Unread, Exists, Known
<1>3. IsTree(file.kids) /\ Descends(file.kids)
  BY TreesFacts DEF TypeOK
<1>4. /\ Walk = PreOrder(file.kids, Root) /\ DOMAIN Walk = 1 .. Len(Walk)
      /\ Len(Walk) \in Nat /\ Len(Walk) > 0 /\ Walk[1] = Root
  BY WalkFacts
<1>5. CanRead(file.kids, Unread, p)
  <2> SUFFICES ASSUME NEW trav, NEW at, Stands(file.kids, trav, at),
                      Here(file.kids, trav, at) <= p,
                      Last(trav).child <= Len(file.kids[Last(trav).node])
               PROVE  file.kids[Last(trav).node][Last(trav).child] \notin Unread
    BY DEF CanRead
  <2>1. PICK x \in 1 .. Len(Walk) :
           /\ Walk[x] = file.kids[Last(trav).node][Last(trav).child]
           /\ Counted(Walk, x - 1) = Here(file.kids, trav, at)
    BY <1>3, <1>4, KidOnTheWay
  <2>2. Walk[x] \in Way[p]
    BY <1>1, <1>4, <2>1, WayGrows
  <2> QED BY <1>2, <2>1, <2>2
<1>6. Root \in Way[p]
  <2>1. 1 \in DOMAIN Walk
    BY <1>4
  <2>2. Counted(Walk, 1 - 1) <= p
    <3>1. Counted(Walk, 0) = 0
      BY CountFacts
    <3> QED BY <1>1, <3>1
  <2>3. Walk[1] \in Way[p]
    BY <1>1, <2>1, <2>2, WayGrows
  <2> QED BY <1>4, <2>3
<1>7. PagesOf[p + 1] \in Way[p]
  <2>1. PageInWalk(p) \in DOMAIN Walk /\ Walk[PageInWalk(p)] = PagesOf[p + 1]
    BY <1>1, PlaceFound
  <2>2. PageInWalk(p) <= PageInWalk(p)
    BY <1>4, <2>1
  <2>3. Walk[PageInWalk(p)] \in Way[p]
    BY <1>1, <2>1, <2>2 DEF Way
  <2> QED BY <2>1, <2>3
<1> QED BY <1>2, <1>5, <1>6, <1>7

-----------------------------------------------------------------------------
(* What holds of the pages when each page is asked for until it is there.  *)

(* The root's /Count is there, so the tree is never loaded as a whole; a   *)
(* node known to CheckPageNode has arrived.                                *)
Arrivals == ~totalLoad /\ nodes \subseteq Present

(* What internal_status_ tells: behind "done" is the whole file, or the    *)
(* page that is being checked.                                             *)
Statuses ==
    /\ docAvail => status \in {"pageTree", "page", "error", "done"}
    /\ mainXRef # "untried" => docAvail
    /\ (~Linear \/ mainXRef = "ok") /\ status = "done" =>
         WholeFile \/ (call.at = "check" /\ call.page \in Ready)
    /\ Linear /\ status \notin {"header", "firstPage"} => Stretch("firstPage") \in arrived

(* The document that is open has the main table once it was read.          *)
MainTable ==
    /\ mainIn => mainXRef = "ok" \/ file.mainXRef = "none"
    /\ open => opens > 0
    /\ Linear => /\ opens <= 1
                 /\ opens = 0 => mainXRef = "untried"
                 /\ open /\ mainXRef = "ok" => mainIn
                 /\ loadedPages # {} => mainXRef = "ok"
                 /\ call.op = "page" => mainXRef = "ok" /\ call.page \notin First

(* page_list_ and the walk that fills it are right, and the way to what    *)
(* was found has arrived.                                                  *)
FirstPlace == IF Linear THEN {file.first} ELSE {}
ListRight ==
    /\ doc.kids = file.kids
    /\ Cached(doc.list, PagesOf, FirstPlace)
    /\ InStep(doc)
    /\ Found \subseteq First \cup Ready

(* No page waits when the last check is taken to hold for the next page,   *)
(* and none but the page of the call while there is no error.              *)
AskedRight ==
    /\ curOk => Waiting = {}
    /\ ~Linear /\ status # "error" =>
         Waiting \subseteq (IF call.at = "check" THEN {call.page} ELSE {})
    /\ Linear /\ call.op = "page" => Waiting \subseteq {call.page}
    /\ call.at \in {"form", "page"} => call.page \in Ready

(* What was said to be available is.                                       *)
Available ==
    /\ loadedPages \subseteq Ready \cap Shown
    /\ answer.op = "page" => answer.page \in Pages
    /\ open /\ answer.op = "page" /\ answer.result = "available" =>
         /\ answer.page \in Shown
         /\ answer.page \in First \/ (answer.page \in Ready /\ (~Linear \/ mainIn))

PInv ==
    /\ Arrivals /\ Statuses /\ MainTable /\ ListRight /\ AskedRight /\ Available
    /\ PageErrorHasReason

-----------------------------------------------------------------------------
(* The parts kept by what leaves them alone.                               *)

LEMMA ListKept ==
    ASSUME ListRight, UNCHANGED <<file, doc>>, arrived \subseteq arrived'
    PROVE  ListRight'
<1>1. /\ UNCHANGED <<First, Pages, PagesOf, Linear>> /\ Ready \subseteq Ready'
  BY Grows
<1>2. Found' = Found /\ FirstPlace' = FirstPlace
  BY <1>1 DEF Found, FirstPlace
<1>3. InStep(doc)'
  BY DEF ListRight, InStep
<1> QED BY <1>1, <1>2, <1>3 DEF ListRight, Cached

LEMMA ReasonKept ==
    ASSUME TypeOK, PageErrorHasReason, UNCHANGED file, errors' \in Nat, errors' >= errors,
           \/ UNCHANGED answer
           \/ answer'.op # "page" \/ answer'.result # "error"
    PROVE  PageErrorHasReason'
BY DEF PageErrorHasReason, TypeOK

(* The document as it is opened.                                           *)
LEMMA FreshFacts ==
    ASSUME TypeOK
    PROVE  LET d == LoadPages(file.kids, file.first)
           IN  /\ d.kids = file.kids /\ d.trav = <<>>
               /\ Cached(d.list, PagesOf, FirstPlace)
               /\ \A p \in Pages : d.list[p + 1] # None => p \in First
<1> DEFINE d == LoadPages(file.kids, file.first)
           n == Len(PagesOf)
           list == [i \in 1 .. n |-> IF i = file.first THEN PagesOf[i] ELSE None]
<1>1. PagesOf = Leaves(file.kids, Root) /\ PagesOf \in Seq(Page) /\ n \in Nat
  BY TreesFacts DEF TypeOK, PagesOf
<1>2. d.kids = file.kids /\ d.trav = <<>> /\ d.list = list
  BY <1>1 DEF LoadPages
<1>3. \A p \in Pages : p \in Nat /\ p + 1 \in 1 .. n
  BY <1>1 DEF Pages
<1> HIDE DEF d, n
<1>4. Cached(list, PagesOf, FirstPlace)
  <2>1. Len(list) = n
    BY <1>1
  <2>2. \A x \in 1 .. n : /\ list[x] \in {None, PagesOf[x]}
                          /\ x \in FirstPlace => list[x] = PagesOf[x]
    BY DEF FirstPlace
  <2> HIDE DEF list
  <2> QED BY <2>1, <2>2 DEF Cached, n
<1>5. ASSUME NEW p \in Pages, list[p + 1] # None
      PROVE  p \in First
  <2>1. p \in Nat /\ p + 1 = file.first
    BY <1>3, <1>5
  <2>2. Linear
    BY <2>1 DEF Linear, IsLinear
  <2> QED BY <2>1, <2>2 DEF First
<1> HIDE DEF list
<1> QED BY <1>2, <1>4, <1>5 DEF d

LEMMA FreshList ==
    ASSUME TypeOK, doc' = LoadPages(file.kids, file.first), UNCHANGED <<file, arrived>>
    PROVE  ListRight'
<1>1. UNCHANGED <<First, Pages, PagesOf, Linear, Ready>>
  BY Grows
<1>2. FirstPlace' = FirstPlace
  BY <1>1 DEF FirstPlace
<1>3. /\ doc'.kids = file.kids /\ doc'.trav = <<>>
      /\ Cached(doc'.list, PagesOf, FirstPlace)
      /\ \A p \in Pages : doc'.list[p + 1] # None => p \in First
  BY FreshFacts
<1>4. InStep(doc)'
  BY <1>3 DEF InStep
<1>5. Found' \subseteq First
  BY <1>1, <1>3 DEF Found
<1> QED BY <1>1, <1>2, <1>3, <1>4, <1>5 DEF ListRight

(* A step that only goes on, or begins or ends a call.                     *)
LEMMA QuietKeeps ==
    ASSUME DInv, PInv, UNCHANGED <<file, docAvail, treeVars, pageVars, docVars>>,
           arrived \subseteq arrived', errors' \in Nat, errors' >= errors,
           \/ UNCHANGED <<call, answer>>
           \/ /\ call.at # "check" /\ call'.at \notin {"check", "form", "page"}
              /\ call'.op # "page"
              /\ UNCHANGED answer \/ answer'.op # "page"
    PROVE  PInv'
<1>1. TypeOK
  BY DEF DInv
<1>2. /\ UNCHANGED <<First, Pages, PagesOf, Linear>>
      /\ Ready \subseteq Ready' /\ Shown \subseteq Shown' /\ Present \subseteq Present'
      /\ WholeFile => WholeFile'
  BY Grows
<1>3. /\ UNCHANGED <<status, nodes, totalLoad, curOk, asked, loadedPages, mainXRef>>
      /\ UNCHANGED <<opens, open, mainIn, doc>>
  BY DEF treeVars, pageVars, docVars
<1>4. Waiting' \subseteq Waiting
  BY <1>2, <1>3 DEF Waiting
<1>5. Arrivals'
  BY <1>2, <1>3 DEF PInv, Arrivals
<1>6. Statuses'
  BY <1>2, <1>3 DEF PInv, Statuses
<1>7. MainTable'
  BY <1>2, <1>3 DEF PInv, MainTable
<1>8. ListRight'
  BY <1>3, ListKept DEF PInv
<1>9. AskedRight'
  BY <1>2, <1>3, <1>4 DEF PInv, AskedRight
<1>10. Available'
  BY <1>2, <1>3 DEF PInv, Available
<1>11. PageErrorHasReason'
  BY <1>1, ReasonKept DEF PInv
<1> QED BY <1>5, <1>6, <1>7, <1>8, <1>9, <1>10, <1>11 DEF PInv

LEMMA InitPInv == Init => PInv
<1> SUFFICES ASSUME Init
             PROVE  PInv
  OBVIOUS
<1>1. TypeOK
  BY InitDInv DEF DInv
<1>2. /\ call = Idle /\ answer = [op |-> "none", result |-> "none", page |-> 0]
      /\ docAvail = FALSE /\ status = "header" /\ nodes = {} /\ totalLoad = FALSE
      /\ curOk = FALSE /\ asked = {} /\ loadedPages = {} /\ mainXRef = "untried"
      /\ opens = 0 /\ open = FALSE /\ mainIn = FALSE
      /\ doc = LoadPages(file.kids, file.first)
  BY DEF Init
<1>3. ListRight
  <2>1. /\ doc.kids = file.kids /\ doc.trav = <<>>
        /\ Cached(doc.list, PagesOf, FirstPlace)
        /\ \A p \in Pages : doc.list[p + 1] # None => p \in First
    BY <1>1, <1>2, FreshFacts
  <2>2. InStep(doc)
    BY <2>1 DEF InStep
  <2>3. Found \subseteq First
    BY <2>1 DEF Found
  <2> QED BY <2>1, <2>2, <2>3 DEF ListRight
<1>4. Arrivals /\ Statuses
  BY <1>2 DEF Arrivals, Statuses
<1>7. MainTable
  <2>1. ~mainIn /\ ~open
    BY <1>2
  <2>2. call.op # "page"
    BY <1>2 DEF Idle
  <2>3. opens <= 1 /\ mainXRef = "untried" /\ loadedPages = {}
    BY <1>2
  <2> QED BY <2>1, <2>2, <2>3 DEF MainTable
<1>5. AskedRight
  BY <1>2 DEF AskedRight, Waiting, Idle
<1>6. Available /\ PageErrorHasReason
  BY <1>2 DEF Available, PageErrorHasReason
<1> QED BY <1>3, <1>4, <1>5, <1>6, <1>7 DEF PInv

-----------------------------------------------------------------------------
(* The steps of a call that asks for the document.                         *)

LEMMA FaultCounted ==
    ASSUME TypeOK, NEW bad \in ReadFaults, CountError(bad)
    PROVE  errors' \in Nat /\ errors' >= errors /\ (bad # {} => errors' > 0)
<1>1. errors \in Nat
  BY DEF TypeOK
<1> QED BY <1>1 DEF CountError

(* LoadDocPages comes to the root, whose /Count is there.                  *)
LEMMA RootRead ==
    ASSUME DInv, PInv, file.counted, NEW ok \in BOOLEAN, status = "pageTree",
           LoadDocPages(ok), UNCHANGED <<file, arrived>>
    PROVE  /\ Arrivals' /\ errors' \in Nat /\ errors' >= errors
           /\ status' = IF ok THEN "page" ELSE "error"
<1>1. TypeOK /\ Arrivals /\ Present' = Present
  BY Grows DEF DInv, PInv
<1>2. PICK bad \in ReadFaults :
        /\ CountError(bad)
        /\ IF Exists(Root, bad)
           THEN /\ ok = file.counted
                /\ nodes' = nodes \cup {Root}
                /\ status' = IF ok THEN "page" ELSE status
                /\ totalLoad' = ~ok
           ELSE /\ ok = FALSE
                /\ nodes' \in {nodes} \cup
                     (IF Exists(Root, {}) THEN {nodes \cup {Root}} ELSE {})
                /\ status' = "error"
                /\ UNCHANGED totalLoad
  BY DEF LoadDocPages
<1>3. errors' \in Nat /\ errors' >= errors
  BY <1>1, <1>2, FaultCounted
<1>4. Exists(Root, bad) \/ Exists(Root, {}) => Root \in Present
  BY NodesAssumption DEF Exists, Present, Nodes
<1>5. nodes' \subseteq Present /\ ~totalLoad' /\ status' = IF ok THEN "page" ELSE "error"
  <2>1. CASE Exists(Root, bad)
    <3>1. ok = TRUE
      BY <1>2, <2>1
    <3> QED BY <1>1, <1>2, <1>4, <2>1, <3>1 DEF Arrivals
  <2>2. CASE ~Exists(Root, bad)
    <3>1. nodes' = nodes \/ (Exists(Root, {}) /\ nodes' = nodes \cup {Root})
      BY <1>2, <2>2
    <3> QED BY <1>1, <1>2, <1>4, <2>2, <3>1 DEF Arrivals
  <2> QED BY <2>1, <2>2
<1> QED BY <1>1, <1>3, <1>5 DEF Arrivals

(* A call about the document only changes what it knows of the page tree.  *)
LEMMA DocCallKeeps ==
    ASSUME DInv, PInv, UNCHANGED <<file, arrived, pageVars, docVars>>,
           Arrivals', Statuses', errors' \in Nat, errors' >= errors,
           ~Linear /\ status' # "error" => status # "error" \/ WholeFile,
           call.at # "check", call'.at \notin {"check", "form", "page"}, call'.op # "page",
           UNCHANGED answer \/ answer'.op # "page"
    PROVE  PInv'
<1>1. TypeOK
  BY DEF DInv
<1>2. UNCHANGED <<First, Pages, PagesOf, Linear, Ready, Shown>>
  BY Grows
<1>3. /\ UNCHANGED <<curOk, asked, loadedPages, mainXRef>>
      /\ UNCHANGED <<opens, open, mainIn, doc>>
  BY DEF pageVars, docVars
<1>4. Waiting' = Waiting
  BY <1>2, <1>3 DEF Waiting
<1>5. MainTable'
  BY <1>2, <1>3 DEF PInv, MainTable
<1>6. ListRight'
  BY <1>3, ListKept DEF PInv
<1>7. AskedRight'
  <2>1. WholeFile => Waiting = {}
    BY <1>1, WholeReady
  <2>2. ~Linear /\ status' # "error" => Waiting = {}
    BY <2>1 DEF PInv, AskedRight
  <2> QED BY <1>2, <1>3, <1>4, <2>2 DEF PInv, AskedRight
<1>8. Available'
  BY <1>2, <1>3 DEF PInv, Available
<1>9. PageErrorHasReason'
  BY <1>1, ReasonKept DEF PInv
<1> QED BY <1>5, <1>6, <1>7, <1>8, <1>9 DEF PInv

LEMMA DocStepPages == DInv /\ PInv /\ file.counted /\ DocStep => PInv'
<1> SUFFICES ASSUME DInv, PInv, file.counted, DocStep
             PROVE  PInv'
  OBVIOUS
<1>1. TypeOK /\ CallInv /\ LinearInv /\ Arrivals /\ Statuses
  BY DEF DInv, PInv, TreeInv
<1>2. /\ call.op = "doc"
      /\ UNCHANGED <<arrived, file, docAvail, pageVars, docVars>>
  BY DEF DocStep
<1>3. PICK ok \in BOOLEAN : CheckDocStatus(ok) /\ Unless(ok)
  BY DEF DocStep
<1>4. ~docAvail /\ mainXRef = "untried" /\ mainXRef' = "untried" /\ call.at = "status"
  BY <1>1, <1>2, CallKinds DEF CallInv, Statuses, pageVars
<1>5. UNCHANGED <<Linear, Present, WholeFile>> /\ \A o : Where(o)' = Where(o)
  BY <1>2, Grows, SameFile DEF WholeFile
<1> DEFINE Told == /\ ~Linear /\ status' = "done" => WholeFile
                   /\ Linear /\ status' \notin {"header", "firstPage"} =>
                        Stretch("firstPage") \in arrived
                   /\ ~Linear /\ status' # "error" => status # "error" \/ WholeFile
           Grown == errors' \in Nat /\ errors' >= errors
<1>6. Arrivals' /\ Told /\ Grown
  <2>1. errors \in Nat
    BY <1>1 DEF TypeOK
  <2>2. UNCHANGED <<nodes, totalLoad>> => Arrivals'
    BY <1>1, <1>5 DEF Arrivals
  <2>3. CASE CheckHeader(ok)
    <3>1. Grown
      <4>1. CASE header
        BY <2>1, <2>3, <4>1 DEF CheckHeader, ReadHeader
      <4>2. CASE ~header
        BY <1>1, <2>3, <4>2, FaultCounted DEF CheckHeader, ReadHeader
      <4> QED BY <4>1, <4>2
    <3>2. Told
      BY <2>3 DEF CheckHeader
    <3> HIDE DEF Told, Grown
    <3> QED BY <2>2, <2>3, <3>1, <3>2 DEF CheckHeader
  <2>4. CASE CheckFirstPage(ok)
    <3>1. Told
      BY <1>1, <2>4 DEF CheckFirstPage, LinearInv
    <3> QED BY <2>1, <2>2, <2>4, <3>1 DEF CheckFirstPage
  <2>5. CASE CheckHintTables(ok)
    <3>1. PICK bad \in ReadFaults :
            CountError(bad) /\ status' \in {"error", "done", "hintTable"}
      BY <2>5 DEF CheckHintTables
    <3>2. status = "hintTable" /\ Linear
      BY <1>1, <2>5 DEF CheckHintTables, LinearInv
    <3>3. Told
      BY <1>1, <3>1, <3>2 DEF Statuses
    <3>4. Grown
      BY <1>1, <3>1, FaultCounted
    <3> HIDE DEF Told, Grown
    <3> QED BY <2>2, <2>5, <3>3, <3>4 DEF CheckHintTables
  <2>6. CASE CheckAndLoadAllXref(ok)
    <3>1. PICK bad \in ReadFaults :
            CountError(bad) /\ status' \in {"loadAllCrossRef", "error", "loadAllFile", "root"}
      BY <2>6 DEF CheckAndLoadAllXref
    <3>2. status = "loadAllCrossRef" /\ ~Linear
      BY <1>1, <2>6 DEF CheckAndLoadAllXref, LinearInv
    <3>3. Told
      BY <3>1, <3>2
    <3>4. Grown
      BY <1>1, <3>1, FaultCounted
    <3> HIDE DEF Told, Grown
    <3> QED BY <2>2, <2>6, <3>3, <3>4 DEF CheckAndLoadAllXref
  <2>7. ASSUME NEW name \in {"root", "info"}, NEW next \in {"info", "pageTree"},
               CheckRootOrInfo(name, next, ok)
        PROVE  Arrivals' /\ Told /\ Grown
    <3>1. PICK bad \in ReadFaults : CountError(bad)
      BY <2>7 DEF CheckRootOrInfo
    <3>2. status = name /\ ~Linear /\ status' \in {name, next}
      BY <1>1, <2>7 DEF CheckRootOrInfo, LinearInv
    <3>3. Told
      BY <3>2
    <3>4. Grown
      BY <1>1, <3>1, FaultCounted
    <3> HIDE DEF Told, Grown
    <3> QED BY <2>2, <2>7, <3>3, <3>4 DEF CheckRootOrInfo
  <2>8. CASE PageTreeStatus(ok)
    <3>1. CASE status = "pageTree" /\ LoadDocPages(ok)
      <4>1. Arrivals' /\ Grown /\ status' \in {"page", "error"}
        BY <1>2, <3>1, RootRead
      <4> QED BY <1>1, <3>1, <4>1 DEF Statuses
    <3>2. CASE /\ status = "page" /\ status' = "pageLaterLoad"
               /\ UNCHANGED <<errors, nodes, totalLoad, treeLoaded, pageObjs, seen>>
      BY <1>1, <2>1, <2>2, <3>2 DEF Statuses
    <3>3. CASE status \in {"error", "loadAllFile"} /\ LoadAllFile(ok)
      <4>1. /\ status' = IF WholeFile THEN "done" ELSE status
            /\ UNCHANGED <<errors, nodes, totalLoad>>
        BY <3>3 DEF LoadAllFile
      <4> QED BY <1>1, <2>1, <2>2, <3>3, <4>1 DEF Statuses
    <3>4. ~totalLoad
      BY <1>1 DEF Arrivals
    <3> QED BY <2>8, <3>1, <3>2, <3>3, <3>4 DEF PageTreeStatus
  <2> QED BY <1>3, <2>3, <2>4, <2>5, <2>6, <2>7, <2>8 DEF CheckDocStatus
<1>7. Statuses'
  BY <1>2, <1>4, <1>5, <1>6 DEF Statuses
<1>8. call'.at \notin {"check", "form", "page"} /\ call'.op # "page"
  <2>1. call' \in {call, Idle}
    BY <1>1, <1>3, UnlessTyped
  <2>2. Idle.op = "idle" /\ Idle.at = ""
    BY DEF Idle
  <2> QED BY <1>2, <1>4, <2>1, <2>2
<1>9. UNCHANGED answer \/ answer'.op # "page"
  BY <1>2, <1>3 DEF Unless, GoOn, Return
<1> QED BY <1>2, <1>4, <1>6, <1>7, <1>8, <1>9, DocCallKeeps

LEMMA DocIsAvailablePages == DInv /\ PInv /\ DocIsAvailable => PInv'
<1> SUFFICES ASSUME DInv, PInv, DocIsAvailable
             PROVE  PInv'
  OBVIOUS
<1>1. TypeOK /\ CallInv /\ Arrivals /\ Statuses
  BY DEF DInv, PInv
<1>2. /\ call.op = "doc" /\ status \in {"done", "pageLaterLoad"}
      /\ status' \in {"done", "page"} /\ (status' = "done" => status = "done")
      /\ call' = Idle /\ answer'.op = "doc"
      /\ UNCHANGED <<arrived, errors, file, nodes, totalLoad, pageVars, docVars>>
  BY DEF DocIsAvailable, Return
<1>3. docAvail'
  BY DEF DocIsAvailable
<1>4. call.at = "status" /\ ~docAvail /\ mainXRef = "untried" /\ mainXRef' = "untried"
  BY <1>1, <1>2, CallKinds DEF CallInv, Statuses, pageVars
<1>5. UNCHANGED <<Linear, Present, WholeFile>>
  BY <1>2, Grows, SameFile DEF WholeFile
<1>6. Arrivals'
  BY <1>1, <1>2, <1>5 DEF Arrivals
<1>7. Statuses'
  BY <1>1, <1>2, <1>3, <1>4, <1>5 DEF Statuses
<1>8. errors' \in Nat /\ errors' >= errors
  BY <1>1, <1>2 DEF TypeOK
<1>9. call'.at \notin {"check", "form", "page"} /\ call'.op # "page"
  BY <1>2 DEF Idle
<1> QED BY <1>2, <1>4, <1>6, <1>7, <1>8, <1>9, DocCallKeeps

-----------------------------------------------------------------------------
(* The steps of a call that asks for a page.                               *)

(* What is known in such a call: any object the file has can be read.      *)
LEMMA PageCall ==
    ASSUME DInv, PInv, call.at \in {"check", "form", "page"}
    PROVE  /\ call.op = "page" /\ call.page \in Pages /\ call.page \notin First
           /\ open /\ docAvail /\ opens > 0
           /\ Linear => mainXRef = "ok" /\ mainIn /\ opens <= 1
           /\ status \in {"pageTree", "page", "error", "done"}
           /\ \A o : Known(o)
<1>1. TypeOK /\ CallInv /\ Statuses /\ MainTable
  BY DEF DInv, PInv
<1>2. call.op = "page" /\ call.page \in Pages
  BY <1>1, CallKinds
<1>3. open /\ docAvail /\ opens > 0
  BY <1>1, <1>2 DEF CallInv, TypeOK, MainTable
<1>4. Linear => mainXRef = "ok" /\ mainIn /\ opens <= 1 /\ call.page \notin First
  BY <1>1, <1>2, <1>3 DEF MainTable
<1>5. ~Linear => call.page \notin First
  BY DEF First
<1>6. \A o : Known(o)
  BY <1>4 DEF Known
<1> QED BY <1>1, <1>2, <1>3, <1>4, <1>5, <1>6 DEF Statuses

(* A page put in page_list_.                                               *)
LEMMA ListFilled ==
    ASSUME TypeOK, ListRight, UNCHANGED <<file, arrived>>, NEW p \in Ready,
           doc' = [doc EXCEPT !.list[p + 1] = PagesOf[p + 1]]
    PROVE  ListRight'
<1>1. /\ UNCHANGED <<First, Pages, PagesOf, Linear, Ready>> /\ FirstPlace' = FirstPlace
  BY Grows DEF FirstPlace
<1>2. /\ p \in Pages /\ p \in Nat /\ p + 1 \in 1 .. Len(PagesOf) /\ Len(PagesOf) \in Nat
      /\ PagesOf \in Seq(Page) /\ PagesOf = Leaves(file.kids, Root)
  BY FileFacts, TreesFacts DEF Ready, Pages, PagesOf, TypeOK
<1>3. doc \in DocType /\ doc.list \in Seq(Page \cup {None}) /\ Len(doc.list) = Len(PagesOf)
  BY DEF TypeOK, DocType
<1> DEFINE S == Page \cup {None}
           old == doc.list
           y == p + 1
           page == PagesOf[y]
           new == [old EXCEPT ![y] = page]
<1>4. doc' = [doc EXCEPT !.list = new]
  OBVIOUS
<1>5. page \in S /\ y \in 1 .. Len(old)
  BY <1>2, <1>3
<1>6. /\ Len(new) = Len(old) /\ DOMAIN old = 1 .. Len(old)
      /\ \A x \in 1 .. Len(old) : new[x] = IF x = y THEN page ELSE old[x]
  <2>1. Len(new) = Len(old)
    <3>1. old \in Seq(S)
      BY <1>3
    <3> HIDE DEF S, old, page, y
    <3> QED BY <1>5, <3>1, ReplacedAt
  <2>2. DOMAIN old = 1 .. Len(old)
    BY <1>3
  <2> HIDE DEF old, y, page
  <2> QED BY <2>1, <2>2
<1>7. /\ doc'.list = new /\ doc'.kids = doc.kids /\ doc'.trav = doc.trav /\ doc'.next = doc.next
  <2> HIDE DEF new
  <2> QED BY <1>3, <1>4 DEF DocType
<1> HIDE DEF new
<1>8. Cached(doc'.list, PagesOf, FirstPlace)
  BY <1>3, <1>6, <1>7 DEF ListRight, Cached
<1>9. doc'.kids = file.kids /\ Found' \subseteq First \cup Ready
  <2>1. \A q \in Pages : q + 1 \in 1 .. Len(old) /\ q \in Nat
    BY <1>2, <1>3 DEF Pages
  <2>2. ASSUME NEW q \in Pages, doc'.list[q + 1] # None
        PROVE  q \in First \cup Ready
    <3>1. CASE q = p
      BY <3>1
    <3>2. CASE q # p
      <4>1. doc'.list[q + 1] = doc.list[q + 1]
        BY <1>2, <1>6, <1>7, <2>1, <3>2
      <4> QED BY <2>2, <4>1 DEF ListRight, Found
    <3> QED BY <3>1, <3>2
  <2> QED BY <1>1, <1>7, <2>2 DEF Found, ListRight
<1>10. InStep(doc)'
  <2>1. ASSUME doc.trav # <<>>
        PROVE  \E at : /\ Stands(doc'.kids, doc'.trav, at)
                       /\ Here(doc'.kids, doc'.trav, at) = doc'.next
                       /\ \A x \in 1 .. doc'.next : doc'.list[x] = Leaves(doc'.kids, Root)[x]
    <3>1. PICK at : /\ Stands(doc.kids, doc.trav, at) /\ Here(doc.kids, doc.trav, at) = doc.next
                    /\ \A x \in 1 .. doc.next : doc.list[x] = Leaves(doc.kids, Root)[x]
      BY <2>1 DEF ListRight, InStep
    <3>2. doc.next \in 0 .. Len(old)
      BY <1>3 DEF TypeOK
    <3>3. \A x \in 1 .. doc.next : doc'.list[x] = Leaves(doc.kids, Root)[x]
      <4> SUFFICES ASSUME NEW x \in 1 .. doc.next
                   PROVE  doc'.list[x] = Leaves(doc.kids, Root)[x]
        OBVIOUS
      <4>1. x \in 1 .. Len(old)
        BY <1>2, <1>3, <3>2
      <4>2. doc'.list[x] = IF x = y THEN page ELSE old[x]
        BY <1>6, <1>7, <4>1
      <4>3. doc.kids = file.kids
        BY DEF ListRight
      <4> QED BY <1>2, <3>1, <4>2, <4>3
    <3> QED BY <1>7, <3>1, <3>3
  <2> QED BY <1>7, <2>1 DEF InStep
<1> QED BY <1>1, <1>8, <1>9, <1>10 DEF ListRight

(* LoadDocPage, of a page on the way to which everything can be read or is *)
(* known, fills in that page.                                              *)
LEMMA LoadDocPageRight ==
    ASSUME DInv, PInv, call.at = "check", NEW ok \in BOOLEAN, LoadDocPage(call.page, ok),
           UNCHANGED <<file, arrived, totalLoad>>
    PROVE  /\ Arrivals' /\ ListRight' /\ errors' \in Nat /\ errors' >= errors
           /\ status' = IF ok THEN "done" ELSE "error"
           /\ ok => call.page \in Ready
<1> DEFINE p == call.page
<1>1. TypeOK /\ Arrivals /\ ListRight /\ Present' = Present
  BY Grows DEF DInv, PInv
<1>2. p \in Pages /\ p \notin First
  BY PageCall
<1> HIDE DEF p
<1>3. CASE doc.list[p + 1] # None
  <2>1. ok = TRUE /\ status' = "done" /\ UNCHANGED <<errors, nodes, doc>>
    BY <1>3 DEF LoadDocPage, p
  <2>2. p \in Ready
    BY <1>1, <1>2, <1>3 DEF ListRight, Found
  <2>3. Arrivals' /\ errors' \in Nat /\ errors' >= errors
    BY <1>1, <2>1 DEF Arrivals, TypeOK
  <2>4. ListRight'
    BY <1>1, <2>1, ListKept
  <2> QED BY <2>1, <2>2, <2>3, <2>4 DEF p
<1>4. CASE doc.list[p + 1] = None
  <2> DEFINE place == PageInWalk(p)
             upTo == {i \in DOMAIN Walk : i <= place}
             Stops(bad) == {i \in upTo :
                              CannotKnow(Walk[i], bad) \/ TooNarrow(Walk[i], p)}
             Read(bad) == {i \in upTo : /\ ~CannotKnow(Walk[i], bad)
                                        /\ \A j \in Stops(bad) : i <= j}
  <2>1. PICK bad \in ReadFaults :
          /\ CountError(bad)
          /\ ok = (Stops(bad) = {})
          /\ status' = IF ok THEN "done" ELSE "error"
          /\ nodes' = nodes \cup {Walk[i] : i \in Read(bad)}
          /\ doc' = IF ok THEN [doc EXCEPT !.list[p + 1] = Walk[place]] ELSE doc
    BY <1>4 DEF LoadDocPage, p
  <2>2. errors' \in Nat /\ errors' >= errors
    BY <1>1, <2>1, FaultCounted
  <2>3. \A i \in DOMAIN Walk : Walk[i] \in Nodes
    BY <1>1, WalkFacts
  <2>4. \A i \in DOMAIN Walk : ~CannotKnow(Walk[i], bad) => Walk[i] \in Present
    BY <1>1, <2>3 DEF CannotKnow, Exists, Present, Arrivals
  <2>5. \A i \in Read(bad) : i \in DOMAIN Walk /\ ~CannotKnow(Walk[i], bad)
    OBVIOUS
  <2>6. ok => \A i \in DOMAIN Walk : i <= place => ~CannotKnow(Walk[i], bad)
    BY <2>1
  <2> HIDE DEF Read, Stops
  <2>7. Arrivals'
    BY <1>1, <2>1, <2>4, <2>5 DEF Arrivals
  <2>8. ok => p \in Ready
    BY <1>2, <2>4, <2>6 DEF Ready, Way, Present
  <2>9. Walk[place] = PagesOf[p + 1]
    BY <1>1, <1>2, PlaceFound
  <2>10. ListRight'
    BY <1>1, <2>1, <2>8, <2>9, ListFilled, ListKept
  <2> QED BY <2>1, <2>2, <2>7, <2>8, <2>10 DEF p
<1> QED BY <1>3, <1>4

LEMMA CheckPagePages == DInv /\ PInv /\ file.counted /\ CheckPage => PInv'
<1> SUFFICES ASSUME DInv, PInv, file.counted, CheckPage
             PROVE  PInv'
  OBVIOUS
<1>1. /\ TypeOK /\ Arrivals /\ Statuses /\ MainTable /\ ListRight /\ AskedRight /\ Available
      /\ PageErrorHasReason /\ errors \in Nat
  BY DEF DInv, PInv, TypeOK
<1>2. /\ call.at = "check"
      /\ UNCHANGED <<arrived, startVars, asked, loadedPages, mainXRef, opens, open, mainIn>>
  BY DEF CheckPage
<1>3. UNCHANGED <<file, docAvail>>
  BY <1>2 DEF startVars
<1>4. /\ call.op = "page" /\ call.page \in Pages /\ call.page \notin First
      /\ open /\ docAvail /\ opens > 0
      /\ Linear => mainXRef = "ok" /\ mainIn /\ opens <= 1
      /\ status \in {"pageTree", "page", "error", "done"}
  BY <1>2, PageCall
<1>5. UNCHANGED <<First, Pages, PagesOf, Linear, Ready, Shown, Present, WholeFile>>
  BY <1>2, <1>3, Grows, SameFile DEF WholeFile
<1>6. Waiting' = Waiting
  BY <1>2, <1>5 DEF Waiting
<1>7. Linear => Stretch("firstPage") \in arrived
  BY <1>1, <1>4 DEF Statuses
<1>8. PICK ok \in BOOLEAN :
         \/ /\ status = "pageTree" /\ LoadDocPages(ok) /\ Unless(ok)
            /\ UNCHANGED <<curOk, doc>>
         \/ /\ status = "page" /\ LoadDocPage(call.page, ok) /\ Unless(ok)
            /\ UNCHANGED <<totalLoad, treeLoaded, pageObjs, seen, curOk>>
         \/ /\ status = "error" /\ LoadAllFile(ok)
            /\ IF ok THEN GoOnTo("form") ELSE Unless(ok)
            /\ UNCHANGED <<curOk, doc>>
         \/ /\ status \notin {"pageTree", "page", "error"} /\ ok = TRUE
            /\ treeLoaded' = TRUE /\ curOk' = TRUE /\ status' = "page"
            /\ GoOnTo("form")
            /\ UNCHANGED <<errors, nodes, totalLoad, pageObjs, seen, doc>>
  BY DEF CheckPage
<1>9. Unless(ok) => IF ok THEN UNCHANGED <<call, answer>>
                    ELSE /\ call'.op = "idle" /\ call'.at = ""
                         /\ answer'.op = "page" /\ answer'.result = "notAvailable"
                         /\ answer'.page = call.page
  <2>1. ok => (Unless(ok) => UNCHANGED <<call, answer>>)
    BY DEF Unless, GoOn
  <2>2. ~ok => (Unless(ok) =>
                  /\ call' = Idle
                  /\ answer'.op = "page" /\ answer'.result = "notAvailable"
                  /\ answer'.page = call.page)
    BY <1>4 DEF Unless, Return
  <2>3. Idle.op = "idle" /\ Idle.at = ""
    BY DEF Idle
  <2> QED BY <2>1, <2>2, <2>3
<1>10. GoOnTo("form") => /\ call'.op = "page" /\ call'.at = "form"
                         /\ call'.page = call.page /\ UNCHANGED answer
  <2>1. GoOnTo("form") => call' = [call EXCEPT !.at = "form"] /\ UNCHANGED answer
    BY DEF GoOnTo
  <2>2. call \in [op : {"page"}, at : {"check", "tree", "form", "page"}, page : Pages]
    <3>1. Idle.op # "page" /\ DocCall.op # "page"
      BY DEF Idle, DocCall
    <3>2. call # Idle /\ call # DocCall
      BY <1>4, <3>1
    <3> QED BY <1>1, <3>2 DEF TypeOK, Calls
  <2> QED BY <2>1, <2>2
<1> DEFINE Ended == /\ call'.op = "idle" /\ call'.at = ""
                    /\ answer'.op = "page" /\ answer'.result = "notAvailable"
                    /\ answer'.page = call.page
           Gone == /\ call'.op = "page" /\ call'.at = "form"
                   /\ call'.page = call.page /\ UNCHANGED answer
           Stayed == UNCHANGED <<call, answer>>
           Outcome ==
             \/ /\ Stayed /\ UNCHANGED curOk /\ status # "error"
                /\ status' = "page" \/ (status' = "done" /\ call.page \in Ready)
             \/ Ended /\ UNCHANGED curOk /\ status' = "error"
             \/ Gone /\ Waiting = {} /\ call.page \in Ready /\ curOk' \in {curOk, TRUE}
                /\ (status' = "page" \/ (status' = "done" /\ WholeFile))
<1>11. /\ Arrivals' /\ ListRight' /\ errors' \in Nat /\ errors' >= errors
       /\ Outcome
  <2>1. CASE /\ status = "pageTree" /\ LoadDocPages(ok) /\ Unless(ok)
             /\ UNCHANGED <<curOk, doc>>
    <3>1. /\ Arrivals' /\ errors' \in Nat /\ errors' >= errors
          /\ status' = IF ok THEN "page" ELSE "error"
      BY <1>2, <1>3, <2>1, RootRead
    <3>2. ListRight'
      BY <1>1, <1>2, <1>3, <2>1, ListKept
    <3>3. Outcome
      <4>1. CASE ok
        BY <1>9, <2>1, <3>1, <4>1
      <4>2. CASE ~ok
        BY <1>9, <2>1, <3>1, <4>2
      <4> QED BY <4>1, <4>2
    <3> HIDE DEF Outcome
    <3> QED BY <3>1, <3>2, <3>3
  <2>2. CASE /\ status = "page" /\ LoadDocPage(call.page, ok) /\ Unless(ok)
             /\ UNCHANGED <<totalLoad, treeLoaded, pageObjs, seen, curOk>>
    <3>1. /\ Arrivals' /\ ListRight' /\ errors' \in Nat /\ errors' >= errors
          /\ status' = IF ok THEN "done" ELSE "error"
          /\ ok => call.page \in Ready
      BY <1>2, <1>3, <2>2, LoadDocPageRight
    <3>2. Outcome
      <4>1. CASE ok
        BY <1>9, <2>2, <3>1, <4>1
      <4>2. CASE ~ok
        BY <1>9, <2>2, <3>1, <4>2
      <4> QED BY <4>1, <4>2
    <3> HIDE DEF Outcome
    <3> QED BY <3>1, <3>2
  <2>3. CASE /\ status = "error" /\ LoadAllFile(ok)
             /\ IF ok THEN GoOnTo("form") ELSE Unless(ok)
             /\ UNCHANGED <<curOk, doc>>
    <3>1. /\ ok = WholeFile /\ status' = IF ok THEN "done" ELSE status
          /\ UNCHANGED <<errors, nodes, totalLoad>>
      BY <2>3 DEF LoadAllFile
    <3>2. Arrivals' /\ ListRight' /\ errors' \in Nat /\ errors' >= errors
      BY <1>1, <1>2, <1>3, <1>5, <2>3, <3>1, ListKept DEF Arrivals
    <3>3. Outcome
      <4>1. CASE ok
        <5>1. Waiting = {} /\ call.page \in Ready
          BY <1>1, <1>4, <3>1, <4>1, WholeReady
        <5> QED BY <1>10, <2>3, <3>1, <4>1, <5>1
      <4>2. CASE ~ok
        BY <1>9, <2>3, <3>1, <4>2
      <4> QED BY <4>1, <4>2
    <3> HIDE DEF Outcome
    <3> QED BY <3>2, <3>3
  <2>4. CASE /\ status \notin {"pageTree", "page", "error"} /\ ok = TRUE
             /\ treeLoaded' = TRUE /\ curOk' = TRUE /\ status' = "page"
             /\ GoOnTo("form")
             /\ UNCHANGED <<errors, nodes, totalLoad, pageObjs, seen, doc>>
    <3>1. Arrivals' /\ ListRight' /\ errors' \in Nat /\ errors' >= errors
      BY <1>1, <1>2, <1>3, <1>5, <2>4, ListKept DEF Arrivals
    <3>2. status = "done"
      BY <1>4, <2>4
    <3>3. WholeFile \/ call.page \in Ready
      BY <1>1, <1>4, <3>2 DEF Statuses
    <3>4. call.page \in Ready
      BY <1>1, <1>4, <3>3, WholeReady
    <3>5. Waiting \subseteq {call.page}
      BY <1>1, <1>2, <1>4, <3>2 DEF AskedRight
    <3>6. Waiting = {}
      BY <3>4, <3>5 DEF Waiting
    <3>7. Outcome
      BY <1>10, <2>4, <3>4, <3>6
    <3> HIDE DEF Outcome
    <3> QED BY <3>1, <3>7
  <2> QED BY <1>8, <2>1, <2>2, <2>3, <2>4
<1>12. Statuses'
  <2>1. status' \in {"page", "done", "error"}
    BY <1>11
  <2>2. status' = "done" => WholeFile \/ (call'.at = "check" /\ call'.page \in Ready)
    BY <1>2, <1>11
  <2> QED BY <1>2, <1>3, <1>4, <1>5, <1>7, <2>1, <2>2 DEF Statuses
<1>13. MainTable'
  <2>1. call'.op = "page" => call'.page = call.page
    BY <1>11
  <2> QED BY <1>1, <1>2, <1>3, <1>4, <1>5, <2>1 DEF MainTable
<1>14. AskedRight'
  <2>1. curOk' => Waiting = {}
    BY <1>1, <1>11 DEF AskedRight
  <2>2. ~Linear /\ status' # "error" =>
           Waiting \subseteq (IF call'.at = "check" THEN {call'.page} ELSE {})
    BY <1>1, <1>2, <1>11 DEF AskedRight
  <2>3. Linear /\ call'.op = "page" => Waiting \subseteq {call'.page}
    BY <1>1, <1>4, <1>11 DEF AskedRight
  <2>4. call'.at \in {"form", "page"} => call'.page \in Ready
    BY <1>2, <1>11
  <2> QED BY <1>5, <1>6, <2>1, <2>2, <2>3, <2>4 DEF AskedRight
<1>15. Available'
  <2>1. \/ UNCHANGED answer
        \/ answer'.op = "page" /\ answer'.result = "notAvailable" /\ answer'.page = call.page
    BY <1>11
  <2> QED BY <1>1, <1>2, <1>4, <1>5, <2>1 DEF Available
<1>16. PageErrorHasReason'
  <2>1. UNCHANGED answer \/ answer'.result # "error"
    BY <1>11
  <2> QED BY <1>1, <1>3, <1>11, <2>1, ReasonKept
<1> QED BY <1>11, <1>12, <1>13, <1>14, <1>15, <1>16 DEF PInv

(* Reading the main cross-reference table: the document is open, and what  *)
(* is known of the page tree is kept.                                      *)
LEMMA MainTableRead ==
    ASSUME DInv, PInv, Linear, open, call.at # "check", NEW result,
           CheckLinearizedData(result),
           UNCHANGED <<file, arrived, docAvail, loadedPages, opens, open>>,
           call'.op = "page" => mainXRef' = "ok" /\ call'.page \notin First
    PROVE  /\ Statuses' /\ MainTable' /\ (mainIn => mainIn')
           /\ errors' \in Nat /\ errors' >= errors
           /\ result = "error" => errors' > 0 \/ file.mainXRef = "bad"
<1>1. /\ TypeOK /\ Statuses /\ MainTable /\ docAvail /\ opens > 0 /\ errors \in Nat
      /\ file.mainXRef \in {"good", "bad", "none"}
  BY FileFacts DEF DInv, PInv, TypeOK, MainTable
<1>2. UNCHANGED <<First, Linear, WholeFile>>
  BY Grows, SameFile DEF WholeFile
<1>3. CASE UNCHANGED <<errors, mainXRef, mainIn, status>> /\ result # "error"
  <2>1. Statuses'
    BY <1>1, <1>2, <1>3 DEF Statuses
  <2>2. MainTable'
    BY <1>1, <1>2, <1>3 DEF MainTable
  <2> QED BY <1>1, <1>3, <2>1, <2>2
<1>4. CASE /\ mainXRef = "untried" /\ file.mainXRef # "none"
           /\ \E bad \in ReadFaults :
                LET good == file.mainXRef = "good" /\ Stretch("mainXRef") \notin bad
                IN  /\ CountError(bad)
                    /\ result = IF good THEN "available" ELSE "error"
                    /\ mainXRef' = IF good THEN "ok" ELSE "failed"
                    /\ mainIn' = good
                    /\ status' = IF good THEN "pageTree" ELSE status
  <2>1. PICK bad \in ReadFaults, good \in BOOLEAN :
          /\ good = (file.mainXRef = "good" /\ Stretch("mainXRef") \notin bad)
          /\ CountError(bad)
          /\ result = IF good THEN "available" ELSE "error"
          /\ mainXRef' = IF good THEN "ok" ELSE "failed"
          /\ mainIn' = good
          /\ status' = IF good THEN "pageTree" ELSE status
    BY <1>4
  <2>2. ~mainIn /\ loadedPages = {}
    BY <1>1, <1>4 DEF MainTable
  <2>3. errors' \in Nat /\ errors' >= errors /\ (bad # {} => errors' > 0)
    BY <1>1, <2>1, FaultCounted
  <2>4. Stretch("firstPage") \in arrived
    BY <1>1 DEF Statuses
  <2>5. Statuses'
    <3>1. status' \in {"pageTree", "page", "error", "done"}
      BY <1>1, <2>1 DEF Statuses
    <3>2. mainXRef' = "ok" => status' # "done"
      BY <2>1
    <3> QED BY <1>1, <1>2, <2>4, <3>1, <3>2 DEF Statuses
  <2>6. MainTable'
    <3>1. mainIn' <=> mainXRef' = "ok"
      BY <2>1
    <3> QED BY <1>1, <1>2, <2>2, <3>1 DEF MainTable
  <2>7. result = "error" => errors' > 0 \/ file.mainXRef = "bad"
    BY <1>1, <1>4, <2>1, <2>3
  <2> QED BY <2>2, <2>3, <2>5, <2>6, <2>7
<1> QED BY <1>3, <1>4 DEF CheckLinearizedData

LEMMA AcroFormRead ==
    ASSUME DInv, PInv, open, call.at # "check", NEW result, CheckAcroForm(result),
           UNCHANGED <<file, arrived, docAvail, loadedPages, opens, open>>,
           Linear /\ call'.op = "page" => mainXRef = "ok" /\ call'.page \notin First
    PROVE  /\ Statuses' /\ MainTable' /\ (mainIn => mainIn')
           /\ errors' \in Nat /\ errors' >= errors
           /\ ~Linear => UNCHANGED status
<1>1. TypeOK /\ Statuses /\ MainTable /\ errors \in Nat
  BY DEF DInv, PInv, TypeOK
<1>2. CASE Linear
  <2>1. PICK data : CheckLinearizedData(data)
    BY <1>2 DEF CheckAcroForm
  <2>2. mainXRef = "ok" => mainXRef' = "ok"
    BY <2>1 DEF CheckLinearizedData
  <2> QED BY <1>2, <2>1, <2>2, MainTableRead
<1>3. CASE ~Linear
  <2>1. UNCHANGED <<errors, mainXRef, mainIn, status>>
    BY <1>3 DEF CheckAcroForm
  <2>2. UNCHANGED <<First, Linear, WholeFile>>
    BY Grows, SameFile DEF WholeFile
  <2>3. Statuses'
    BY <1>1, <2>1, <2>2, <1>3 DEF Statuses
  <2>4. MainTable'
    BY <1>1, <2>1, <2>2, <1>3 DEF MainTable
  <2> QED BY <1>1, <2>1, <2>3, <2>4
<1> QED BY <1>2, <1>3

LEMMA CheckFormOfPagePages == DInv /\ PInv /\ CheckFormOfPage => PInv'
<1> SUFFICES ASSUME DInv, PInv, CheckFormOfPage
             PROVE  PInv'
  OBVIOUS
<1>1. /\ TypeOK /\ Arrivals /\ Statuses /\ MainTable /\ ListRight /\ AskedRight /\ Available
      /\ PageErrorHasReason
  BY DEF DInv, PInv
<1>2. PICK result : /\ CheckAcroForm(result)
                    /\ IF result = "notAvailable" THEN Return("page", call.page, result)
                       ELSE GoOnTo("page")
  BY DEF CheckFormOfPage
<1>3. /\ call.at = "form"
      /\ UNCHANGED <<arrived, startVars, nodes, totalLoad, treeLoaded, pageObjs, seen,
                     curOk, asked, loadedPages, opens, open, doc>>
  BY DEF CheckFormOfPage
<1>4. UNCHANGED <<file, docAvail>>
  BY <1>3 DEF startVars
<1>5. /\ call.op = "page" /\ call.page \in Pages /\ call.page \notin First /\ open
      /\ Linear => mainXRef = "ok"
  BY <1>3, PageCall
<1>6. UNCHANGED <<First, Pages, PagesOf, Linear, Ready, Shown, Present>>
  BY <1>3, <1>4, Grows
<1>7. Waiting' = Waiting
  BY <1>3, <1>6 DEF Waiting
<1>8. /\ call'.at \notin {"check", "form"}
      /\ \/ /\ call'.op = "page" /\ call'.page = call.page /\ UNCHANGED answer
         \/ /\ call'.op = "idle" /\ call'.at = ""
            /\ answer'.op = "page" /\ answer'.result = "notAvailable"
            /\ answer'.page = call.page
  <2>1. CASE result = "notAvailable"
    <3>1. /\ call' = Idle /\ answer'.op = "page" /\ answer'.result = "notAvailable"
          /\ answer'.page = call.page
      BY <1>2, <2>1 DEF Return
    <3> QED BY <3>1 DEF Idle
  <2>2. CASE result # "notAvailable"
    <3>1. call' = [call EXCEPT !.at = "page"] /\ UNCHANGED answer
      BY <1>2, <2>2 DEF GoOnTo
    <3>2. call \in [op : {"page"}, at : {"check", "tree", "form", "page"}, page : Pages]
      <4>1. Idle.op # "page" /\ DocCall.op # "page"
        BY DEF Idle, DocCall
      <4>2. call # Idle /\ call # DocCall
        BY <1>5, <4>1
      <4> QED BY <1>1, <4>2 DEF TypeOK, Calls
    <3> QED BY <3>1, <3>2
  <2> QED BY <2>1, <2>2
<1>9. /\ Statuses' /\ MainTable' /\ (mainIn => mainIn')
      /\ errors' \in Nat /\ errors' >= errors
      /\ ~Linear => UNCHANGED status
  BY <1>2, <1>3, <1>4, <1>5, <1>8, AcroFormRead
<1>10. Arrivals'
  BY <1>1, <1>3, <1>6 DEF Arrivals
<1>11. ListRight'
  BY <1>1, <1>3, <1>4, ListKept
<1>12. AskedRight'
  <2>1. curOk' => Waiting = {}
    BY <1>1, <1>3 DEF AskedRight
  <2>2. ~Linear /\ status' # "error" => Waiting = {}
    BY <1>1, <1>3, <1>9 DEF AskedRight
  <2>3. Linear /\ call'.op = "page" => Waiting \subseteq {call'.page}
    BY <1>1, <1>5, <1>8 DEF AskedRight
  <2>4. call'.at \in {"form", "page"} => call'.page \in Ready
    BY <1>1, <1>3, <1>8 DEF AskedRight
  <2> QED BY <1>6, <1>7, <2>1, <2>2, <2>3, <2>4 DEF AskedRight
<1>13. Available'
  BY <1>1, <1>3, <1>5, <1>6, <1>8, <1>9 DEF Available
<1>14. PageErrorHasReason'
  <2>1. UNCHANGED answer \/ answer'.result # "error"
    BY <1>8
  <2> QED BY <1>1, <1>4, <1>9, <2>1, ReasonKept
<1> QED BY <1>9, <1>10, <1>11, <1>12, <1>13, <1>14 DEF PInv

LEMMA IsFormAvailPages == DInv /\ PInv /\ IsFormAvail => PInv'
<1> SUFFICES ASSUME DInv, PInv, IsFormAvail
             PROVE  PInv'
  OBVIOUS
<1>1. /\ TypeOK /\ Arrivals /\ Statuses /\ MainTable /\ ListRight /\ AskedRight /\ Available
      /\ PageErrorHasReason /\ errors \in Nat
  BY DEF DInv, PInv, TypeOK
<1>2. /\ call = Idle
      /\ UNCHANGED <<arrived, startVars, nodes, totalLoad, treeLoaded, pageObjs, seen,
                     curOk, asked, loadedPages, opens, open, doc>>
  BY DEF IsFormAvail
<1>3. call.at # "check" /\ call'.op = "idle" /\ call'.at = "" /\ answer'.op = "form"
  <2>1. call' = Idle /\ answer'.op = "form"
    BY DEF IsFormAvail, Return
  <2> QED BY <1>2, <2>1 DEF Idle
<1>4. UNCHANGED <<file, docAvail>>
  BY <1>2 DEF startVars
<1>5. CASE ~open
  <2>1. UNCHANGED <<errors, mainXRef, mainIn, status>>
    BY <1>5 DEF IsFormAvail
  <2>2. UNCHANGED <<treeVars, pageVars, docVars>>
    BY <1>2, <2>1 DEF treeVars, pageVars, docVars
  <2>3. errors' \in Nat /\ errors' >= errors /\ arrived \subseteq arrived'
    BY <1>1, <1>2, <2>1
  <2>4. /\ call'.at \notin {"check", "form", "page"} /\ call'.op # "page"
        /\ answer'.op # "page"
    BY <1>3
  <2> QED BY <1>3, <1>4, <2>2, <2>3, <2>4, QuietKeeps
<1>6. CASE open
  <2>1. PICK result : CheckAcroForm(result)
    BY <1>6 DEF IsFormAvail
  <2>2. /\ Statuses' /\ MainTable' /\ (mainIn => mainIn')
        /\ errors' \in Nat /\ errors' >= errors
        /\ ~Linear => UNCHANGED status
    BY <1>2, <1>3, <1>4, <1>6, <2>1, AcroFormRead
  <2>3. UNCHANGED <<First, Pages, PagesOf, Linear, Ready, Shown, Present>>
    BY <1>2, <1>4, Grows
  <2>4. Waiting' = Waiting
    BY <1>2, <2>3 DEF Waiting
  <2>5. Arrivals'
    BY <1>1, <1>2, <2>3 DEF Arrivals
  <2>6. ListRight'
    BY <1>1, <1>2, <1>4, ListKept
  <2>7. AskedRight'
    <3>1. ~Linear /\ status' # "error" => Waiting = {}
      BY <1>1, <1>3, <2>2 DEF AskedRight
    <3> QED BY <1>1, <1>2, <1>3, <2>3, <2>4, <3>1 DEF AskedRight
  <2>8. Available'
    BY <1>1, <1>2, <1>3, <2>3 DEF Available
  <2>9. PageErrorHasReason'
    BY <1>1, <1>3, <1>4, <2>2, ReasonKept
  <2> QED BY <2>2, <2>5, <2>6, <2>7, <2>8, <2>9 DEF PInv
<1> QED BY <1>5, <1>6

(* A page all of whose way has arrived is found.                           *)
LEMMA ReadyLookup ==
    ASSUME TypeOK, ListRight, NEW p \in Ready, ~Linear \/ ~open \/ mainIn
    PROVE  LET r == GetPageDictionary(doc, p, Unread)
           IN  /\ r.found = PagesOf[p + 1] /\ r.doc \in DocType
               /\ r.doc.kids = file.kids
               /\ Cached(r.doc.list, PagesOf, FirstPlace \cup {p + 1})
               /\ InStep(r.doc)
               /\ \A x \in Nat : x > p + 1 => r.doc.list[x] = doc.list[x]
<1>1. /\ p \in Pages /\ p \in Nat /\ p + 1 \in 1 .. Len(PagesOf) /\ Len(PagesOf) \in Nat
      /\ p < Len(PagesOf) /\ PagesOf = Leaves(file.kids, Root)
  BY FileFacts, TreesFacts DEF Ready, Pages, PagesOf, TypeOK
<1>2. doc \in DocType /\ doc.kids = file.kids /\ IsTree(file.kids) /\ Len(doc.list) = Len(PagesOf)
  BY TreesFacts DEF TypeOK, ListRight
<1>3. Unread \in SUBSET Nodes /\ Unread \in SUBSET (Branch \cup Page)
  BY DEF Unread, Nodes
<1>4. /\ CanRead(file.kids, Unread, p) /\ Root \notin Unread
      /\ PagesOf[p + 1] \notin Unread
  BY ReadyCanRead
<1>5. Cached(doc.list, PagesOf, FirstPlace) /\ InStep(doc)
  BY DEF ListRight
<1> DEFINE r == GetPageDictionary(doc, p, Unread)
<1>6. p \in 0 .. Len(doc.list) - 1
  BY <1>1, <1>2
<1>7. \A x \in Nat : x > p + 1 => r.doc.list[x] = doc.list[x]
  BY <1>2, <1>3, <1>6, LookupBeyond
<1>8. /\ r.found = PagesOf[p + 1] /\ r.doc \in DocType /\ r.doc.kids = file.kids
      /\ Cached(r.doc.list, PagesOf, FirstPlace \cup {p + 1})
      /\ InStep(r.doc)
  <2>1. PagesOf = Leaves(doc.kids, Root)
    BY <1>1, <1>2
  <2>2. /\ IsTree(doc.kids) /\ CanRead(doc.kids, Unread, p)
        /\ Cached(doc.list, Leaves(doc.kids, Root), FirstPlace)
        /\ p < Len(Leaves(doc.kids, Root)) /\ Leaves(doc.kids, Root)[p + 1] \notin Unread
    BY <1>1, <1>2, <1>4, <1>5, <2>1
  <2>3. /\ r.found = Leaves(doc.kids, Root)[p + 1] /\ r.doc \in DocType
        /\ r.doc.kids = doc.kids
        /\ Cached(r.doc.list, Leaves(doc.kids, Root), FirstPlace \cup {p + 1})
        /\ InStep(r.doc)
    <3>1. /\ doc \in DocType /\ p \in Nat /\ Unread \in SUBSET Nodes
          /\ Root \notin Unread /\ InStep(doc)
      BY <1>1, <1>2, <1>3, <1>4, <1>5
    <3>2. PICK d, u, known : d = doc /\ u = Unread /\ known = FirstPlace
      OBVIOUS
    <3>3. /\ IsTree(d.kids) /\ CanRead(d.kids, u, p)
          /\ Cached(d.list, Leaves(d.kids, Root), known)
          /\ p < Len(Leaves(d.kids, Root)) /\ Leaves(d.kids, Root)[p + 1] \notin u
          /\ Root \notin u /\ InStep(d) /\ p \in Nat
          /\ d \in DocType /\ u \in SUBSET Nodes
      BY <2>2, <3>1, <3>2
    <3>4. LET R == GetPageDictionary(d, p, u)
              L == Leaves(d.kids, Root)
          IN  /\ R.found = L[p + 1]
              /\ R.doc \in DocType /\ R.doc.kids = d.kids
              /\ R.doc.count = d.count /\ R.doc.parent = d.parent
              /\ Cached(R.doc.list, L, known \cup {p + 1})
              /\ InStep(R.doc)
      BY <3>3, LookupRight, Zenon
    <3>5. GetPageDictionary(d, p, u) = r
      BY <3>2
    <3> HIDE DEF r
    <3> QED BY <3>2, <3>4, <3>5
  <2> HIDE DEF r
  <2> QED BY <1>2, <2>1, <2>3
<1> QED BY <1>7, <1>8

LEMMA LookUpFinds ==
    ASSUME DInv, PInv, NEW p \in Ready, ~Linear \/ ~open \/ mainIn, LookUp(p),
           UNCHANGED <<file, arrived>>
    PROVE  /\ ListRight' /\ call' = Idle
           /\ answer'.op = "page" /\ answer'.page = p /\ answer'.result # "error"
           /\ answer'.result = "available" => p \in Shown
<1>1. TypeOK /\ ListRight
  BY DEF DInv, PInv
<1>2. p \in Pages /\ p \in Nat /\ Len(PagesOf) \in Nat /\ PagesOf[p + 1] \in Page
  <2>1. PagesOf \in Seq(Page) /\ Len(PagesOf) \in Nat /\ p \in Pages
    BY <1>1, FileFacts DEF Ready
  <2>2. p \in Nat /\ p + 1 \in 1 .. Len(PagesOf)
    BY <2>1 DEF Pages
  <2> QED BY <2>1, <2>2
<1> DEFINE r == GetPageDictionary(doc, p, Unread)
<1>3. /\ r.found = PagesOf[p + 1] /\ r.doc \in DocType /\ r.doc.kids = file.kids
      /\ Cached(r.doc.list, PagesOf, FirstPlace \cup {p + 1})
      /\ InStep(r.doc)
      /\ \A x \in Nat : x > p + 1 => r.doc.list[x] = doc.list[x]
  BY <1>1, ReadyLookup
<1>4. /\ doc' = r.doc
      /\ Return("page", p, CASE r.found = None -> "error"
                             [] Content(r.found) \in arrived -> "available"
                             [] OTHER -> "notAvailable")
  BY DEF LookUp
<1> HIDE DEF r
<1>5. r.found # None
  BY <1>2, <1>3, NodesAssumption
<1>6. /\ call' = Idle /\ answer'.op = "page" /\ answer'.page = p /\ answer'.result # "error"
      /\ answer'.result = "available" => p \in Shown
  <2>1. \/ Content(r.found) \in arrived /\ Return("page", p, "available")
        \/ Return("page", p, "notAvailable")
    BY <1>4, <1>5
  <2>2. CASE Content(r.found) \in arrived /\ Return("page", p, "available")
    BY <1>2, <1>3, <2>2 DEF Return, Shown
  <2>3. CASE Return("page", p, "notAvailable")
    BY <2>3 DEF Return
  <2> QED BY <2>1, <2>2, <2>3
<1>7. ListRight'
  <2>1. UNCHANGED <<First, Pages, PagesOf, Linear, Ready>> /\ FirstPlace' = FirstPlace
    BY Grows DEF FirstPlace
  <2>2. Cached(doc'.list, PagesOf, FirstPlace)
    BY <1>3, <1>4 DEF Cached
  <2>3. InStep(doc)'
    BY <1>3, <1>4 DEF InStep
  <2>4. ASSUME NEW q \in Pages, doc'.list[q + 1] # None
        PROVE  q \in First \cup Ready
    <3>1. q \in Nat
      BY <1>2 DEF Pages
    <3>2. CASE q <= p
      BY <1>1, <3>2, ReadyBefore
    <3>3. CASE q > p
      <4>1. q + 1 \in Nat /\ q + 1 > p + 1
        BY <1>2, <3>1, <3>3
      <4>2. doc'.list[q + 1] = doc.list[q + 1]
        BY <1>3, <1>4, <4>1
      <4> QED BY <1>1, <2>4, <4>2 DEF ListRight, Found
    <3> QED BY <1>2, <3>1, <3>2, <3>3
  <2>5. Found' \subseteq First \cup Ready
    BY <2>1, <2>4 DEF Found
  <2> QED BY <1>3, <1>4, <2>1, <2>2, <2>3, <2>5 DEF ListRight
<1> QED BY <1>6, <1>7

LEMMA CheckFoundPagePages == DInv /\ PInv /\ CheckFoundPage => PInv'
<1> SUFFICES ASSUME DInv, PInv, CheckFoundPage
             PROVE  PInv'
  OBVIOUS
<1>1. /\ TypeOK /\ Arrivals /\ Statuses /\ MainTable /\ ListRight /\ AskedRight /\ Available
      /\ PageErrorHasReason /\ errors \in Nat
  BY DEF DInv, PInv, TypeOK
<1> DEFINE p == call.page
<1>2. /\ call.at = "page" /\ LookUp(p)
      /\ UNCHANGED <<arrived, errors, startVars, treeVars, mainXRef, opens, open, mainIn>>
  BY DEF CheckFoundPage
<1>3. UNCHANGED <<file, docAvail, status, nodes, totalLoad>>
  BY <1>2 DEF startVars, treeVars
<1>4. /\ call.op = "page" /\ p \in Pages /\ p \notin First /\ open
      /\ Linear => mainXRef = "ok" /\ mainIn
  BY <1>2, PageCall
<1>5. p \in Ready
  BY <1>1, <1>2 DEF AskedRight
<1>6. /\ ListRight' /\ call' = Idle
      /\ answer'.op = "page" /\ answer'.page = p /\ answer'.result # "error"
      /\ answer'.result = "available" => p \in Shown
  BY <1>2, <1>3, <1>4, <1>5, LookUpFinds
<1> HIDE DEF p
<1>7. \/ /\ answer'.result = "available" /\ curOk' = FALSE
         /\ asked' = asked \ {p} /\ loadedPages' = loadedPages \cup {p}
      \/ UNCHANGED <<curOk, asked, loadedPages>>
  BY DEF CheckFoundPage, p
<1>8. call'.op = "idle" /\ call'.at = ""
  BY <1>6 DEF Idle
<1>9. UNCHANGED <<First, Pages, PagesOf, Linear, Ready, Shown, Present, WholeFile>>
  BY <1>2, <1>3, Grows, SameFile DEF WholeFile
<1>10. Waiting' \subseteq Waiting
  BY <1>7, <1>9 DEF Waiting
<1>11. Arrivals'
  BY <1>1, <1>3, <1>9 DEF Arrivals
<1>12. Statuses'
  BY <1>1, <1>2, <1>3, <1>8, <1>9 DEF Statuses
<1>13. MainTable'
  BY <1>1, <1>2, <1>3, <1>4, <1>7, <1>8, <1>9 DEF MainTable
<1>14. AskedRight'
  <2>1. curOk' => Waiting = {}
    BY <1>1, <1>7 DEF AskedRight
  <2>2. ~Linear /\ status # "error" => Waiting = {}
    BY <1>1, <1>2 DEF AskedRight
  <2> QED BY <1>3, <1>8, <1>9, <1>10, <2>1, <2>2 DEF AskedRight
<1>15. Available'
  <2>1. loadedPages' \subseteq Ready \cap Shown
    BY <1>1, <1>5, <1>6, <1>7 DEF Available
  <2> QED BY <1>2, <1>4, <1>5, <1>6, <1>9, <2>1 DEF Available
<1>16. PageErrorHasReason'
  BY <1>6 DEF PageErrorHasReason
<1> QED BY <1>6, <1>11, <1>12, <1>13, <1>14, <1>15, <1>16 DEF PInv

-----------------------------------------------------------------------------
(* The document opened and closed.                                         *)

LEMMA GetDocumentPages ==
    DInv /\ PInv /\ GetDocument /\ (Linear => opens' <= 1) => PInv'
<1> SUFFICES ASSUME DInv, PInv, GetDocument, Linear => opens' <= 1
             PROVE  PInv'
  OBVIOUS
<1>1. /\ TypeOK /\ Arrivals /\ Statuses /\ MainTable /\ ListRight /\ AskedRight /\ Available
      /\ PageErrorHasReason /\ errors \in Nat /\ opens \in Nat
  BY DEF DInv, PInv, TypeOK
<1>2. /\ call = Idle /\ docAvail /\ open' \in BOOLEAN
      /\ opens' = (IF open' THEN opens + 1 ELSE opens)
      /\ doc' = LoadPages(file.kids, file.first) /\ mainIn' = FALSE
      /\ call' = Idle /\ answer'.op = "document"
      /\ UNCHANGED <<arrived, errors, startVars, treeVars, pageVars>>
  BY DEF GetDocument, Return
<1>3. /\ UNCHANGED <<file, docAvail, status, nodes, totalLoad>>
      /\ UNCHANGED <<curOk, asked, loadedPages, mainXRef>>
  BY <1>2 DEF startVars, treeVars, pageVars
<1>4. UNCHANGED <<First, Pages, PagesOf, Linear, Ready, Shown, Present, WholeFile>>
  BY <1>2, <1>3, Grows, SameFile DEF WholeFile
<1>5. Waiting' = Waiting
  BY <1>3, <1>4 DEF Waiting
<1>6. Arrivals'
  BY <1>1, <1>3, <1>4 DEF Arrivals
<1>7. Statuses'
  BY <1>1, <1>2, <1>3, <1>4 DEF Statuses
<1>8. MainTable'
  <2>1. open' => opens' > 0
    BY <1>1, <1>2
  <2>2. Linear /\ opens' = 0 => mainXRef = "untried"
    BY <1>1, <1>2 DEF MainTable
  <2>3. Linear /\ open' => mainXRef = "untried"
    <3>1. Linear /\ open' => opens = 0
      BY <1>1, <1>2
    <3> QED BY <1>1, <3>1 DEF MainTable
  <2>4. call'.op = "idle"
    BY <1>2 DEF Idle
  <2> QED BY <1>1, <1>2, <1>3, <1>4, <2>1, <2>2, <2>3, <2>4 DEF MainTable
<1>9. ListRight'
  BY <1>1, <1>2, <1>3, FreshList
<1>10. AskedRight'
  BY <1>1, <1>2, <1>3, <1>4, <1>5 DEF AskedRight, Idle
<1>11. Available'
  BY <1>1, <1>2, <1>3, <1>4 DEF Available
<1>12. PageErrorHasReason'
  BY <1>2 DEF PageErrorHasReason
<1> QED BY <1>6, <1>7, <1>8, <1>9, <1>10, <1>11, <1>12 DEF PInv

LEMMA CloseDocumentPages == DInv /\ PInv /\ CloseDocument => PInv'
<1> SUFFICES ASSUME DInv, PInv, CloseDocument
             PROVE  PInv'
  OBVIOUS
<1>1. /\ TypeOK /\ Arrivals /\ Statuses /\ MainTable /\ ListRight /\ AskedRight /\ Available
      /\ PageErrorHasReason
  BY DEF DInv, PInv
<1>2. /\ open' = FALSE /\ mainIn' = FALSE /\ doc' = LoadPages(file.kids, file.first)
      /\ UNCHANGED <<arrived, errors, call, answer, startVars, treeVars, pageVars, opens>>
  BY DEF CloseDocument
<1>3. /\ UNCHANGED <<file, docAvail, status, nodes, totalLoad>>
      /\ UNCHANGED <<curOk, asked, loadedPages, mainXRef>>
  BY <1>2 DEF startVars, treeVars, pageVars
<1>4. UNCHANGED <<First, Pages, PagesOf, Linear, Ready, Shown, Present, WholeFile>>
  BY <1>2, <1>3, Grows, SameFile DEF WholeFile
<1>5. Waiting' = Waiting
  BY <1>3, <1>4 DEF Waiting
<1>6. Arrivals'
  BY <1>1, <1>3, <1>4 DEF Arrivals
<1>7. Statuses'
  BY <1>1, <1>2, <1>3, <1>4 DEF Statuses
<1>8. MainTable'
  BY <1>1, <1>2, <1>3, <1>4 DEF MainTable
<1>9. ListRight'
  BY <1>1, <1>2, <1>3, FreshList
<1>10. AskedRight'
  BY <1>1, <1>2, <1>3, <1>4, <1>5 DEF AskedRight
<1>11. Available'
  BY <1>1, <1>2, <1>3, <1>4 DEF Available
<1>12. PageErrorHasReason'
  BY <1>1, <1>2, <1>3 DEF PageErrorHasReason
<1> QED BY <1>6, <1>7, <1>8, <1>9, <1>10, <1>11, <1>12 DEF PInv

-----------------------------------------------------------------------------
(* The steps that say nothing of pages.                                    *)

LEMMA QuietPages ==
    DInv /\ PInv
      /\ (IsDocAvail \/ IsLinearizedPDF \/ (\E piece \in Pieces : Download(piece))
            \/ UNCHANGED vars)
    => PInv'
<1> SUFFICES ASSUME DInv, PInv,
                    IsDocAvail \/ IsLinearizedPDF \/ (\E piece \in Pieces : Download(piece))
                      \/ UNCHANGED vars
             PROVE  PInv'
  OBVIOUS
<1>1. TypeOK /\ errors \in Nat
  BY DEF DInv, TypeOK
<1>2. CASE IsDocAvail
  <2>1. /\ call = Idle /\ call' \in {Idle, DocCall} /\ (UNCHANGED answer \/ answer'.op = "doc")
        /\ UNCHANGED <<arrived, errors, startVars, treeVars, pageVars, docVars>>
    BY <1>2 DEF IsDocAvail, Return
  <2>2. /\ call.at # "check" /\ call'.at \notin {"check", "form", "page"}
        /\ call'.op # "page"
    <3>1. Idle.at = "" /\ Idle.op = "idle" /\ DocCall.at = "status" /\ DocCall.op = "doc"
      BY DEF Idle, DocCall
    <3> QED BY <2>1, <3>1
  <2>3. UNCHANGED <<file, docAvail>> /\ errors' \in Nat /\ errors' >= errors
    BY <1>1, <2>1 DEF startVars
  <2> QED BY <2>1, <2>2, <2>3, QuietKeeps
<1>3. CASE IsLinearizedPDF
  <2>1. PICK ok \in BOOLEAN : ReadHeader(ok)
    BY <1>3 DEF IsLinearizedPDF
  <2>2. /\ call = Idle /\ call' = Idle /\ answer'.op = "linearized"
        /\ UNCHANGED <<arrived, file, xrefFound, docAvail, treeVars, pageVars, docVars>>
    BY <1>3 DEF IsLinearizedPDF, Return
  <2>3. /\ call.at # "check" /\ call'.at \notin {"check", "form", "page"}
        /\ call'.op # "page"
    BY <2>2 DEF Idle
  <2>4. errors' \in Nat /\ errors' >= errors
    <3>1. CASE header
      BY <1>1, <2>1, <3>1 DEF ReadHeader
    <3>2. CASE ~header
      BY <1>1, <2>1, <3>2, FaultCounted DEF ReadHeader
    <3> QED BY <3>1, <3>2
  <2> QED BY <2>2, <2>3, <2>4, QuietKeeps
<1>4. CASE \E piece \in Pieces : Download(piece)
  <2>1. /\ arrived \subseteq arrived'
        /\ UNCHANGED <<errors, call, answer, startVars, treeVars, pageVars, docVars>>
    BY <1>4 DEF Download
  <2>2. UNCHANGED <<file, docAvail>> /\ errors' \in Nat /\ errors' >= errors
    BY <1>1, <2>1 DEF startVars
  <2> QED BY <2>1, <2>2, QuietKeeps
<1>5. CASE UNCHANGED vars
  <2>1. UNCHANGED <<arrived, errors, call, answer, startVars, treeVars, pageVars, docVars>>
    BY <1>5 DEF vars
  <2>2. UNCHANGED <<file, docAvail>> /\ errors' \in Nat /\ errors' >= errors
    BY <1>1, <2>1 DEF startVars
  <2> QED BY <2>1, <2>2, QuietKeeps
<1> QED BY <1>2, <1>3, <1>4, <1>5

-----------------------------------------------------------------------------
(* A page asked for.                                                       *)

LEMMA AskFacts ==
    ASSUME PInv, NEW p, Ask(p), UNCHANGED <<file, arrived, loadedPages>>
    PROVE  /\ Waiting' \subseteq Waiting \cup {p}
           /\ p \in loadedPages \cup First \cup Ready => Waiting' \subseteq Waiting
           /\ curOk' => Waiting' = {} /\ p \in loadedPages \cup First \cup Ready
<1>1. UNCHANGED <<First, Ready>>
  BY Grows
<1>2. asked' = asked \cup {p} /\ (curOk' => curOk /\ p \in asked)
  BY DEF Ask, IsFirstCheck
<1>3. curOk => Waiting = {}
  BY DEF PInv, AskedRight
<1> QED BY <1>1, <1>2, <1>3 DEF Waiting

(* A call that answers at once, and one that goes on.                      *)
LEMMA PageAnswered ==
    ASSUME DInv, PInv, call = Idle, open, NEW p \in Pages,
           UNCHANGED <<file, arrived, docAvail, nodes, totalLoad, loadedPages, opens, open>>,
           call' = Idle, Statuses', MainTable', ListRight', mainIn => mainIn',
           curOk' => Waiting' = {},
           ~Linear => UNCHANGED status /\ Waiting' \subseteq Waiting,
           errors' \in Nat, errors' >= errors, answer'.op = "page", answer'.page = p,
           answer'.result = "available" =>
             p \in Shown /\ (p \in First \/ (p \in Ready /\ (~Linear \/ mainIn'))),
           answer'.result = "error" => errors' > 0 \/ file.mainXRef = "bad"
    PROVE  PInv'
<1>1. /\ TypeOK /\ Arrivals /\ AskedRight /\ Available
  BY DEF DInv, PInv
<1>2. UNCHANGED <<First, Pages, PagesOf, Linear, Ready, Shown, Present>>
  BY Grows
<1>3. call.at = "" /\ call'.at = "" /\ call'.op = "idle"
  BY DEF Idle
<1>4. Arrivals'
  BY <1>1, <1>2 DEF Arrivals
<1>5. AskedRight'
  <2>1. ~Linear /\ status' # "error" => Waiting' = {}
    BY <1>1, <1>3 DEF AskedRight
  <2> QED BY <1>2, <1>3, <2>1 DEF AskedRight
<1>6. Available'
  BY <1>1, <1>2 DEF Available
<1>7. PageErrorHasReason'
  BY DEF PageErrorHasReason
<1> QED BY <1>4, <1>5, <1>6, <1>7 DEF PInv

LEMMA PageCalled ==
    ASSUME DInv, PInv, call = Idle, open, NEW p \in Pages, p \notin loadedPages, p \notin First,
           UNCHANGED <<file, arrived, docAvail, nodes, totalLoad, loadedPages, opens, open>>,
           UNCHANGED <<answer, doc>>, Ask(p), NEW at \in {"form", "check"},
           call' = [op |-> "page", page |-> p, at |-> at], at = "form" => curOk',
           Statuses', MainTable', mainIn => mainIn',
           IF Linear THEN Waiting \subseteq {p} ELSE UNCHANGED status,
           errors' \in Nat, errors' >= errors
    PROVE  PInv'
<1>1. /\ TypeOK /\ Arrivals /\ ListRight /\ AskedRight /\ Available /\ PageErrorHasReason
  BY DEF DInv, PInv
<1>2. UNCHANGED <<First, Pages, PagesOf, Linear, Ready, Shown, Present>>
  BY Grows
<1>3. call.at = ""
  BY DEF Idle
<1>4. call'.op = "page" /\ call'.page = p /\ call'.at = at
  OBVIOUS
<1>5. /\ Waiting' \subseteq Waiting \cup {p}
      /\ curOk' => Waiting' = {} /\ p \in Ready
  BY AskFacts
<1>6. Arrivals'
  BY <1>1, <1>2 DEF Arrivals
<1>7. ListRight'
  BY <1>1, ListKept
<1>8. AskedRight'
  <2>1. ~Linear /\ status' # "error" => Waiting' \subseteq (IF at = "check" THEN {p} ELSE {})
    <3>1. ~Linear /\ status' # "error" => Waiting = {}
      BY <1>1, <1>3 DEF AskedRight
    <3> QED BY <1>5, <3>1
  <2>2. Linear => Waiting' \subseteq {p}
    BY <1>5
  <2> QED BY <1>2, <1>4, <1>5, <2>1, <2>2 DEF AskedRight
<1>9. Available'
  BY <1>1, <1>2 DEF Available
<1>10. PageErrorHasReason'
  BY <1>1, ReasonKept
<1> QED BY <1>6, <1>7, <1>8, <1>9, <1>10 DEF PInv

(* The page at the beginning of the file is in page_list_ from the start.  *)
LEMMA FirstLookup ==
    ASSUME TypeOK, ListRight, NEW p \in First, Stretch("firstPage") \in arrived
    PROVE  GetPageDictionary(doc, p, Unread) = [doc |-> doc, found |-> PagesOf[p + 1]]
<1>1. /\ Linear /\ file.first \in 1 .. Len(PagesOf) /\ p = file.first - 1
      /\ p + 1 = file.first
  <2>1. Linear /\ p = file.first - 1
    BY DEF First
  <2>2. file.first \in 1 .. Len(PagesOf) /\ Len(PagesOf) \in Nat
    BY <2>1, FirstFacts, FileFacts
  <2> QED BY <2>1, <2>2
<1>2. doc.list[p + 1] = PagesOf[p + 1]
  BY <1>1 DEF ListRight, Cached, FirstPlace
<1>3. PagesOf[p + 1] \in Page
  BY <1>1, FileFacts
<1>4. PagesOf[p + 1] \notin Unread
  <2>1. Known(PagesOf[p + 1])
    BY <1>1 DEF Known
  <2>2. Where(PagesOf[p + 1]) = Stretch("firstPage")
    BY <1>1 DEF Where, PieceOf, PagesOf, Linear
  <2> QED BY <2>1, <2>2 DEF Unread, Exists
<1>5. doc.list[p + 1] \notin {None} \cup Unread
  BY <1>2, <1>3, <1>4, NodesAssumption
<1> QED BY <1>2, <1>5 DEF GetPageDictionary

LEMMA LoadedAgain ==
    ASSUME DInv, PInv, call = Idle, open, NEW p \in loadedPages,
           Ask(p), Return("page", p, "available"),
           UNCHANGED <<errors, mainXRef, mainIn, status, doc>>,
           UNCHANGED <<arrived, file, docAvail, nodes, totalLoad, loadedPages, opens, open>>
    PROVE  PInv'
<1>1. /\ TypeOK /\ Statuses /\ MainTable /\ ListRight /\ Available /\ errors \in Nat
  BY DEF DInv, PInv, TypeOK
<1>2. UNCHANGED <<First, Pages, PagesOf, Linear, Ready, Shown, Present, WholeFile>>
  BY Grows, SameFile DEF WholeFile
<1>3. p \in Pages /\ p \in Ready /\ p \in Shown
  BY <1>1 DEF TypeOK, Available
<1>4. Linear => mainIn
  BY <1>1 DEF MainTable
<1>5. call' = Idle /\ answer'.op = "page" /\ answer'.page = p /\ answer'.result = "available"
  BY DEF Return
<1>6. Statuses' /\ MainTable'
  BY <1>1, <1>2, <1>5 DEF Statuses, MainTable, Idle
<1>7. ListRight'
  BY <1>1, ListKept
<1>8. Waiting' \subseteq Waiting /\ (curOk' => Waiting' = {})
  BY AskFacts
<1>9. errors' \in Nat /\ errors' >= errors
  BY <1>1
<1> QED BY <1>3, <1>4, <1>5, <1>6, <1>7, <1>8, <1>9, PageAnswered

LEMMA FirstAsked ==
    ASSUME DInv, PInv, call = Idle, open, NEW p \in First, Ask(p), LookUp(p),
           UNCHANGED <<errors, mainXRef, mainIn, status>>,
           UNCHANGED <<arrived, file, docAvail, nodes, totalLoad, loadedPages, opens, open>>
    PROVE  PInv'
<1>1. /\ TypeOK /\ Statuses /\ MainTable /\ ListRight /\ errors \in Nat /\ docAvail
  BY DEF DInv, PInv, TypeOK
<1>2. UNCHANGED <<First, Pages, PagesOf, Linear, Ready, Shown, Present, WholeFile>>
  BY Grows, SameFile DEF WholeFile
<1>3. Linear /\ p \in Pages /\ p + 1 \in 1 .. Len(PagesOf) /\ PagesOf[p + 1] \in Page
  <2>1. Linear /\ p \in Pages /\ Len(PagesOf) \in Nat /\ PagesOf \in Seq(Page)
    BY <1>1, FirstFacts, FileFacts DEF First
  <2>2. p + 1 \in 1 .. Len(PagesOf)
    BY <2>1 DEF Pages
  <2> QED BY <2>1, <2>2
<1>4. Stretch("firstPage") \in arrived
  BY <1>1, <1>3 DEF Statuses
<1>5. GetPageDictionary(doc, p, Unread) = [doc |-> doc, found |-> PagesOf[p + 1]]
  BY <1>1, <1>4, FirstLookup
<1>6. /\ UNCHANGED doc /\ call' = Idle /\ answer'.op = "page" /\ answer'.page = p
      /\ answer'.result # "error" /\ (answer'.result = "available" => p \in Shown)
  <2>1. PICK looked : /\ looked = [doc |-> doc, found |-> PagesOf[p + 1]]
                      /\ doc' = looked.doc
                      /\ Return("page", p, CASE looked.found = None -> "error"
                                             [] Content(looked.found) \in arrived -> "available"
                                             [] OTHER -> "notAvailable")
    BY <1>5 DEF LookUp
  <2>2. looked.doc = doc /\ looked.found = PagesOf[p + 1] /\ looked.found # None
    BY <1>3, <2>1, NodesAssumption
  <2>3. \/ Content(looked.found) \in arrived /\ Return("page", p, "available")
        \/ Return("page", p, "notAvailable")
    BY <2>1, <2>2
  <2>4. CASE Content(looked.found) \in arrived /\ Return("page", p, "available")
    BY <1>3, <2>1, <2>2, <2>4 DEF Return, Shown
  <2>5. CASE Return("page", p, "notAvailable")
    BY <2>1, <2>2, <2>5 DEF Return
  <2> QED BY <2>3, <2>4, <2>5
<1>7. Statuses' /\ MainTable'
  BY <1>1, <1>2, <1>6 DEF Statuses, MainTable, Idle
<1>8. ListRight'
  BY <1>1, <1>6, ListKept
<1>9. Waiting' \subseteq Waiting /\ (curOk' => Waiting' = {})
  BY AskFacts
<1>10. errors' \in Nat /\ errors' >= errors
  BY <1>1
<1> QED BY <1>3, <1>6, <1>7, <1>8, <1>9, <1>10, PageAnswered

(* Pages of a linearized file are behind the main table.                   *)
LEMMA BehindMainTable ==
    ASSUME DInv, PInv, call = Idle, open, Linear, NEW p \in Pages, PageByPage(p),
           p \notin loadedPages, p # file.first - 1, CheckBeforePage(p), UNCHANGED doc,
           UNCHANGED <<arrived, file, docAvail, nodes, totalLoad, loadedPages, opens, open>>
    PROVE  PInv'
<1>1. /\ TypeOK /\ Arrivals /\ ListRight /\ errors \in Nat
  BY DEF DInv, PInv, TypeOK
<1>2. PICK result \in {"available", "notAvailable", "error"} :
        /\ CheckLinearizedData(result)
        /\ \/ /\ result # "available"
              /\ Ask(p) /\ Return("page", p, result)
           \/ /\ result = "available" /\ mainXRef' = "ok"
              /\ Ask(p)
              /\ call' = [op |-> "page", page |-> p,
                          at |-> CASE totalLoad -> "tree" [] curOk' -> "form"
                                   [] OTHER -> "check"]
              /\ UNCHANGED answer
  BY DEF CheckBeforePage
<1>3. p \notin First
  BY DEF First
<1>4. call.at # "check"
  BY DEF Idle
<1>5. CASE result # "available" /\ Ask(p) /\ Return("page", p, result)
  <2>1. /\ call' = Idle /\ call'.op = "idle" /\ answer'.op = "page" /\ answer'.page = p
        /\ answer'.result = result
    BY <1>5 DEF Return, Idle
  <2>2. /\ Statuses' /\ MainTable' /\ (mainIn => mainIn')
        /\ errors' \in Nat /\ errors' >= errors
        /\ result = "error" => errors' > 0 \/ file.mainXRef = "bad"
    BY <1>2, <1>4, <2>1, MainTableRead
  <2>3. ListRight'
    BY <1>1, ListKept
  <2>4. curOk' => Waiting' = {}
    BY <1>5, AskFacts
  <2> QED BY <1>5, <2>1, <2>2, <2>3, <2>4, PageAnswered
<1>6. CASE /\ result = "available" /\ mainXRef' = "ok"
           /\ Ask(p)
           /\ call' = [op |-> "page", page |-> p,
                       at |-> CASE totalLoad -> "tree" [] curOk' -> "form"
                                [] OTHER -> "check"]
           /\ UNCHANGED answer
  <2>1. PICK at \in {"form", "check"} :
          /\ call' = [op |-> "page", page |-> p, at |-> at] /\ (at = "form" => curOk')
    <3>1. ~totalLoad
      BY <1>1 DEF Arrivals
    <3>2. CASE curOk'
      BY <1>6, <3>1, <3>2
    <3>3. CASE ~curOk'
      BY <1>6, <3>1, <3>3
    <3> QED BY <3>2, <3>3
  <2>2. call'.op = "page" => mainXRef' = "ok" /\ call'.page \notin First
    BY <1>3, <1>6, <2>1
  <2>3. /\ Statuses' /\ MainTable' /\ (mainIn => mainIn')
        /\ errors' \in Nat /\ errors' >= errors
    BY <1>2, <1>4, <2>2, MainTableRead
  <2>4. Waiting \subseteq {p}
    BY DEF PageByPage, Waiting, First
  <2> QED BY <1>3, <1>6, <2>1, <2>3, <2>4, PageCalled
<1> QED BY <1>2, <1>5, <1>6

LEMMA RebuiltPages ==
    ASSUME DInv, PInv, call = Idle, open, Linear, NEW p \in Pages,
           p \notin loadedPages, p # file.first - 1, RebuildInstead(p), UNCHANGED doc,
           UNCHANGED <<arrived, file, docAvail, nodes, totalLoad, loadedPages, opens, open>>
    PROVE  PInv'
<1>1. /\ TypeOK /\ Statuses /\ MainTable /\ ListRight /\ AskedRight /\ errors \in Nat /\ docAvail
  BY DEF DInv, PInv, TypeOK
<1>2. UNCHANGED <<First, Pages, PagesOf, Linear, Ready, Shown, Present, WholeFile>>
  BY Grows, SameFile DEF WholeFile
<1>3. /\ mainXRef = "untried" /\ mainXRef' = "untried" /\ file.mainXRef = "none"
      /\ mainIn' = (mainIn \/ WholeFile)
      /\ status' = (IF WholeFile THEN "done" ELSE status)
      /\ asked' = (IF WholeFile THEN asked \ {p} ELSE asked \cup {p})
      /\ curOk' => curOk /\ p \in asked
      /\ errors' = errors
  BY DEF RebuildInstead, IsFirstCheck
<1>4. /\ call' = Idle /\ answer'.op = "page" /\ answer'.page = p
      /\ answer'.result = IF WholeFile THEN "available" ELSE "notAvailable"
  BY DEF RebuildInstead, Return
<1>5. call'.op = "idle" /\ call'.at = ""
  BY <1>4 DEF Idle
<1>6. WholeFile => Ready = Pages /\ Shown = Pages /\ Waiting = {}
  BY <1>1, WholeReady
<1>7. curOk' => Waiting' = {}
  <2>1. curOk' => asked' \subseteq asked /\ Waiting = {}
    BY <1>1, <1>3 DEF AskedRight
  <2> QED BY <1>2, <2>1 DEF Waiting
<1>8. Statuses'
  BY <1>1, <1>2, <1>3 DEF Statuses
<1>9. MainTable'
  BY <1>1, <1>2, <1>3, <1>5 DEF MainTable
<1>10. ListRight'
  BY <1>1, ListKept
<1>11. /\ errors' \in Nat /\ errors' >= errors
       /\ answer'.result = "available" => p \in Shown /\ p \in Ready /\ mainIn'
       /\ answer'.result # "error" /\ (mainIn => mainIn')
  <2>1. errors' \in Nat /\ errors' >= errors
    BY <1>1, <1>3
  <2>2. CASE WholeFile
    BY <1>3, <1>4, <1>6, <2>1, <2>2
  <2>3. CASE ~WholeFile
    BY <1>3, <1>4, <2>1, <2>3
  <2> QED BY <2>2, <2>3
<1> QED BY <1>4, <1>7, <1>8, <1>9, <1>10, <1>11, PageAnswered

LEMMA OrdinaryAsked ==
    ASSUME DInv, PInv, call = Idle, open, ~Linear, NEW p \in Pages, p \notin loadedPages, Ask(p),
           call' = [op |-> "page", page |-> p,
                    at |-> IF totalLoad \/ curOk' THEN "form" ELSE "check"],
           UNCHANGED <<errors, answer, mainXRef, mainIn, status, doc>>,
           UNCHANGED <<arrived, file, docAvail, nodes, totalLoad, loadedPages, opens, open>>
    PROVE  PInv'
<1>1. /\ TypeOK /\ Arrivals /\ Statuses /\ MainTable /\ errors \in Nat
  BY DEF DInv, PInv, TypeOK
<1>2. UNCHANGED <<First, Pages, PagesOf, Linear, Ready, Shown, Present, WholeFile>>
  BY Grows, SameFile DEF WholeFile
<1>3. p \notin First
  BY DEF First
<1>4. PICK at \in {"form", "check"} :
        /\ call' = [op |-> "page", page |-> p, at |-> at] /\ (at = "form" => curOk')
  <2>1. ~totalLoad
    BY <1>1 DEF Arrivals
  <2>2. CASE curOk'
    BY <2>1, <2>2
  <2>3. CASE ~curOk'
    BY <2>1, <2>3
  <2> QED BY <2>2, <2>3
<1>5. call.at = ""
  BY DEF Idle
<1>6. Statuses'
  BY <1>1, <1>2, <1>5 DEF Statuses
<1>7. MainTable'
  BY <1>1, <1>2 DEF MainTable
<1>8. errors' \in Nat /\ errors' >= errors
  BY <1>1
<1> QED BY <1>3, <1>4, <1>6, <1>7, <1>8, PageCalled

LEMMA IsPageAvailPages ==
    ASSUME DInv, PInv, NEW p \in Pages, PageByPage(p), IsPageAvail(p)
    PROVE  PInv'
<1>1. /\ call = Idle /\ open
      /\ UNCHANGED <<arrived, startVars, nodes, totalLoad, loadedPages, opens, open>>
  BY DEF IsPageAvail
<1>2. UNCHANGED <<file, docAvail>>
  BY <1>1 DEF startVars
<1>3. CASE /\ p \in loadedPages
           /\ Ask(p) /\ Return("page", p, "available")
           /\ UNCHANGED <<errors, mainXRef, mainIn, status, doc>>
  BY <1>1, <1>2, <1>3, LoadedAgain
<1>4. CASE /\ p \notin loadedPages /\ Linear /\ p = file.first - 1
           /\ Ask(p) /\ LookUp(p)
           /\ UNCHANGED <<errors, mainXRef, mainIn, status>>
  <2>1. p \in First
    BY <1>4 DEF First
  <2> QED BY <1>1, <1>2, <1>4, <2>1, FirstAsked
<1>5. CASE /\ p \notin loadedPages /\ Linear /\ p # file.first - 1
           /\ CheckBeforePage(p) /\ UNCHANGED doc
  BY <1>1, <1>2, <1>5, BehindMainTable
<1>6. CASE /\ p \notin loadedPages /\ Linear /\ p # file.first - 1
           /\ RebuildInstead(p) /\ UNCHANGED doc
  BY <1>1, <1>2, <1>6, RebuiltPages
<1>7. CASE /\ p \notin loadedPages /\ ~Linear
           /\ Ask(p)
           /\ call' = [op |-> "page", page |-> p,
                       at |-> IF totalLoad \/ curOk' THEN "form" ELSE "check"]
           /\ UNCHANGED <<errors, answer, mainXRef, mainIn, status, doc>>
  BY <1>1, <1>2, <1>7, OrdinaryAsked
<1> QED BY <1>3, <1>4, <1>5, <1>6, <1>7 DEF IsPageAvail

LEMMA InTurnKeepsPInv ==
    DInv /\ PInv /\ file.counted /\ [InTurnNext]_vars => PInv'
<1> SUFFICES ASSUME DInv, PInv, file.counted, [InTurnNext]_vars
             PROVE  PInv'
  OBVIOUS
<1>1. CASE LoadAllPages
  <2>1. call.at = "tree" => totalLoad
    BY DEF DInv, CallInv
  <2>2. ~totalLoad
    BY DEF PInv, Arrivals
  <2> QED BY <1>1, <2>1, <2>2 DEF LoadAllPages
<1>2. CASE GetDocument /\ (Linear => opens' <= 1)
  BY <1>2, GetDocumentPages
<1>3. CASE DocStep \/ DocIsAvailable \/ CheckPage \/ CheckFormOfPage \/ CheckFoundPage
  BY <1>3, DocStepPages, DocIsAvailablePages, CheckPagePages, CheckFormOfPagePages,
     CheckFoundPagePages
<1>4. CASE IsDocAvail \/ IsLinearizedPDF \/ (\E piece \in Pieces : Download(piece))
             \/ UNCHANGED vars
  BY <1>4, QuietPages
<1>5. CASE IsFormAvail \/ CloseDocument
  BY <1>5, IsFormAvailPages, CloseDocumentPages
<1>6. CASE \E p \in Pages : PageByPage(p) /\ IsPageAvail(p)
  BY <1>6, IsPageAvailPages
<1> QED BY <1>1, <1>2, <1>3, <1>4, <1>5, <1>6
        DEF InTurnNext, NextButPages, CallStep, StepBeforeLookUp

LEMMA PInvAlways ==
    ASSUME \A f \in Files : f.counted
    PROVE  InTurnSpec => [](DInv /\ PInv)
<1>1. Init => DInv /\ PInv
  BY InitDInv, InitPInv
<1>2. DInv /\ PInv /\ [InTurnNext]_vars => (DInv /\ PInv)'
  <2> SUFFICES ASSUME DInv, PInv, [InTurnNext]_vars
               PROVE  DInv' /\ PInv'
    OBVIOUS
  <2>1. [Next]_vars
    BY DEF InTurnNext, Next
  <2>2. file.counted
    BY DEF DInv, TypeOK
  <2> QED BY <2>1, <2>2, NextKeepsDInv, InTurnKeepsPInv
<1> QED BY <1>1, <1>2, PTL DEF InTurnSpec

-----------------------------------------------------------------------------
(* The theorems about pages.                                               *)

(* When the root of the page tree has a /Count and each page is asked for  *)
(* until it is there, a page number never leads to another page, in        *)
(* whatever order the data arrives and whatever reads fail: what           *)
(* CheckPageNode and the lookups put in page_list_ agrees.                 *)
THEOREM PageListIsRightAlways ==
    ASSUME \A f \in Files : f.counted
    PROVE  InTurnSpec => []PageListIsRight
<1>1. DInv /\ PInv => PageListIsRight
  BY DEF PInv, ListRight, Cached, PageListIsRight
<1> QED BY <1>1, PInvAlways, PTL

(* Under the same conditions a page said to be available can be loaded at  *)
(* once: the document finds the page itself with the data it has, and all  *)
(* the page refers to has arrived.                                         *)
THEOREM PageAvailableIsCompleteAlways ==
    ASSUME \A f \in Files : f.counted
    PROVE  InTurnSpec => []PageAvailableIsComplete
<1>1. DInv /\ PInv => PageAvailableIsComplete
  <2> SUFFICES ASSUME DInv, PInv, open, answer.op = "page", answer.result = "available"
               PROVE  /\ GetPageDictionary(doc, answer.page, Unread).found
                           = PagesOf[answer.page + 1]
                      /\ Content(PagesOf[answer.page + 1]) \in arrived
    BY DEF PageAvailableIsComplete
  <2>1. /\ TypeOK /\ ListRight /\ docAvail /\ Statuses
        /\ answer.page \in Shown
        /\ answer.page \in First \/ (answer.page \in Ready /\ (~Linear \/ mainIn))
    BY DEF DInv, PInv, Available, TypeOK
  <2>2. CASE answer.page \in First
    <3>1. Stretch("firstPage") \in arrived
      BY <2>1, <2>2 DEF Statuses, First
    <3> QED BY <2>1, <2>2, <3>1, FirstLookup DEF Shown
  <2>3. CASE answer.page \in Ready /\ (~Linear \/ mainIn)
    BY <2>1, <2>3, ReadyLookup DEF Shown
  <2> QED BY <2>1, <2>2, <2>3
<1> QED BY <1>1, PInvAlways, PTL

(* And a page whose data is merely missing is never called an error: there *)
(* is an error only where a read failed although the data was there, or    *)
(* the main cross-reference table is damaged.                              *)
THEOREM PageErrorHasReasonAlways ==
    ASSUME \A f \in Files : f.counted
    PROVE  InTurnSpec => []PageErrorHasReason
<1>1. DInv /\ PInv => PageErrorHasReason
  BY DEF PInv
<1> QED BY <1>1, PInvAlways, PTL
=============================================================================
