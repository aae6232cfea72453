------------------------ MODULE PageTraversalProofs ------------------------
(***************************************************************************)
(* The page tree and the walk through it: what the leaves of a tree are,   *)
(* what each turn of the walk does to its stack and to page_list_, and     *)
(* that a lookup finds the page, whatever the tree and wherever the last   *)
(* lookup stopped.                                                         *)
(***************************************************************************)
EXTENDS PageTraversal, FiniteSetTheorems, WellFoundedInduction, TLAPS

-----------------------------------------------------------------------------
(* A set of natural numbers that is not empty has a least element.         *)
LEMMA LeastElement ==
    ASSUME NEW T \in SUBSET Nat, T # {}
    PROVE  \E x \in T : \A y \in T : x <= y
<1> DEFINE F == {0 .. x : x \in T}
<1>1. F \in SUBSET FiniteSubsetsOf(Nat) /\ F # {}
  <2> SUFFICES ASSUME NEW x \in T
               PROVE  IsFiniteSet(0 .. x) /\ 0 .. x \in SUBSET Nat
    BY DEF FiniteSubsetsOf
  <2> QED BY FS_Interval
<1> HIDE DEF F
<1>2. PICK X \in F : \A Y \in F : ~(<<Y, X>> \in StrictSubsetOrdering(Nat))
  BY <1>1, FS_StrictSubsetOrderingWellFounded, WFMin
<1>3. PICK x \in T : X = 0 .. x
  BY DEF F
<1>4. \A y \in T : x <= y
  <2> SUFFICES ASSUME NEW y \in T, y < x
               PROVE  FALSE
    OBVIOUS
  <2>1. 0 .. y \in F
    BY DEF F
  <2>2. x \in 0 .. x /\ x \notin 0 .. y
    OBVIOUS
  <2>3. /\ 0 .. y \in SUBSET Nat /\ 0 .. x \in SUBSET Nat
        /\ 0 .. y \subseteq 0 .. x /\ 0 .. y # 0 .. x
    BY <2>2
  <2> QED BY <2>1, <2>3, <1>2, <1>3 DEF StrictSubsetOrdering
<1> QED BY <1>4

(* So a set of numbers that has 0, and with a number the next one up to a  *)
(* bound, has them all up to there.                                        *)
LEMMA UpToBound ==
    ASSUME NEW m \in Nat, NEW S, 0 \in S,
           \A n \in 0 .. m : n \in S /\ n < m => n + 1 \in S
    PROVE  0 .. m \subseteq S
<1> DEFINE T == (0 .. m) \ S
<1> SUFFICES ASSUME T # {}
             PROVE  FALSE
  OBVIOUS
<1>1. T \in SUBSET Nat
  OBVIOUS
<1>2. PICK x \in T : \A y \in T : x <= y
  BY <1>1, LeastElement
<1>3. x \in 0 .. m /\ x \notin S /\ x # 0
  OBVIOUS
<1>4. x - 1 \in 0 .. m /\ x - 1 < m /\ x - 1 \notin T
  BY <1>2, <1>3
<1>5. (x - 1) + 1 \in S
  BY <1>4
<1> QED BY <1>3, <1>5

-----------------------------------------------------------------------------
(* The walk through the page tree.                                         *)

Steps == [node : Branch, child : Nat \ {0}]
Walks == [ doc : DocType, unread : SUBSET (Branch \cup Page), wanted : Nat,
           togo : Int, found : Page \cup {None} ]

(* A sequence with another element at a place, if it has that place.       *)
LEMMA ReplacedAt ==
    ASSUME NEW S, NEW s \in Seq(S), NEW x, NEW e \in S
    PROVE  /\ [s EXCEPT ![x] = e] \in Seq(S)
           /\ Len([s EXCEPT ![x] = e]) = Len(s)
<1> DEFINE n == Len(s)
           t == [s EXCEPT ![x] = e]
<1>1. n \in Nat /\ s \in [1 .. n -> S]
  OBVIOUS
<1> HIDE DEF n
<1>2. t \in [1 .. n -> S]
  BY <1>1
<1> HIDE DEF t
<1>3. t \in Seq(S) /\ Len(t) = n
  BY <1>1, <1>2
<1> QED BY <1>3 DEF n, t

(* What a walk may change.                                                 *)
Stacked(w, trav, togo) == [w EXCEPT !.doc.trav = trav, !.togo = togo]
Listed(w, trav, list, togo, found) ==
    [w EXCEPT !.doc.trav = trav, !.doc.list = list, !.togo = togo, !.found = found]

LEMMA StackChanged ==
    ASSUME NEW w \in Walks, NEW trav \in Seq(Steps), NEW togo \in Int
    PROVE  /\ Stacked(w, trav, togo) \in Walks
           /\ Stacked(w, trav, togo).doc.list = w.doc.list
<1>1. w.doc \in DocType
  BY DEF Walks
<1>2. [w.doc EXCEPT !.trav = trav] \in DocType
  BY <1>1 DEF DocType, Steps
<1> QED BY <1>1, <1>2 DEF Walks, DocType, Stacked

LEMMA ListChanged ==
    ASSUME NEW w \in Walks, NEW trav \in Seq(Steps), NEW togo \in Int,
           NEW list \in Seq(Page \cup {None}), NEW found \in Page \cup {None}
    PROVE  /\ Listed(w, trav, list, togo, found) \in Walks
           /\ Listed(w, trav, list, togo, found).doc.list = list
<1>1. w.doc \in DocType
  BY DEF Walks
<1>2. [w.doc EXCEPT !.trav = trav, !.list = list] \in DocType
  BY <1>1 DEF DocType, Steps
<1> QED BY <1>1, <1>2 DEF Walks, DocType, Listed

LEMMA AdvanceTyped ==
    ASSUME NEW trav \in Seq(Steps), NEW level \in 1 .. Len(trav)
    PROVE  AdvanceAt(trav, level) \in Seq(Steps)
<1>1. trav[level] \in Steps
  OBVIOUS
<1>2. [trav[level] EXCEPT !.child = @ + 1] \in Steps
  BY <1>1 DEF Steps
<1>3. AdvanceAt(trav, level) = [trav EXCEPT ![level] = [trav[level] EXCEPT !.child = @ + 1]]
  BY DEF AdvanceAt
<1> QED BY <1>2, <1>3

(* One turn.                                                               *)
LEMMA TurnTyped ==
    ASSUME NEW w \in Walks
    PROVE  Turn(w) \in Walks /\ Len(Turn(w).doc.list) = Len(w.doc.list)
<1> DEFINE trav == w.doc.trav
           top == Last(trav)
           list == w.doc.kids[top.node]
           kid == list[top.child]
           advanced == AdvanceAt(trav, Len(trav))
<1> SUFFICES ASSUME trav # <<>>
             PROVE  Turn(w) \in Walks /\ Len(Turn(w).doc.list) = Len(w.doc.list)
  BY DEF Turn
<1>1. trav \in Seq(Steps) /\ Len(trav) \in Nat /\ Len(trav) > 0 /\ w.togo \in Int
  BY DEF Walks, DocType, Steps
<1>2. top \in Steps
  BY <1>1 DEF Last
<1>3. top.child \in Nat /\ top.child > 0 /\ list \in Seq(Branch \cup Page)
  BY <1>2 DEF Steps, Walks, DocType
<1>4. advanced \in Seq(Steps)
  BY <1>1, AdvanceTyped
<1>5. CASE top.child > Len(list)
  <2> DEFINE rest == IF Len(trav) = 1 THEN <<>> ELSE AdvanceAt(Front(trav), Len(trav) - 1)
  <2>1. Front(trav) \in Seq(Steps) /\ Len(Front(trav)) = Len(trav) - 1
    BY <1>1 DEF Front
  <2>2. rest \in Seq(Steps)
    <3> DEFINE front == Front(trav)
               last == Len(trav) - 1
    <3>1. CASE Len(trav) # 1
      <4>1. front \in Seq(Steps)
        BY <2>1
      <4>2. last \in 1 .. Len(front)
        <5>1. Len(front) = Len(trav) - 1
          BY <2>1
        <5> DEFINE n == Len(trav)
        <5>2. n \in Nat /\ n > 0 /\ n # 1 /\ Len(front) = n - 1 /\ last = n - 1
          BY <1>1, <3>1, <5>1
        <5> HIDE DEF front, last, n
        <5> QED BY <5>2
      <4> HIDE DEF front, last
      <4>3. AdvanceAt(front, last) \in Seq(Steps)
        BY <4>1, <4>2, AdvanceTyped
      <4> QED BY <3>1, <4>3 DEF front, last
    <3> QED BY <3>1
  <2>3. Turn(w) = Stacked(w, rest, w.togo)
    BY <1>5 DEF Turn, Leave, Walks, DocType, Stacked
  <2> HIDE DEF rest
  <2>4. Stacked(w, rest, w.togo) \in Walks /\ Stacked(w, rest, w.togo).doc.list = w.doc.list
    BY <1>1, <2>2, StackChanged, Zenon
  <2> QED BY <2>3, <2>4
<1>6. CASE ~(top.child > Len(list)) /\ w.togo = 0
  BY <1>6 DEF Turn
<1>7. CASE ~(top.child > Len(list)) /\ w.togo # 0
  <2>1. kid \in Branch \cup Page
    BY <1>3, <1>7
  <2>2. Turn(w) = CASE kid \in w.unread -> PassNull(w)
                    [] kid \in Page \ w.unread -> CountLeaf(w, kid)
                    [] OTHER -> Enter(w, kid)
    BY <1>7 DEF Turn
  <2>3. CASE kid \in w.unread
    <3>1. Turn(w) = Stacked(w, advanced, w.togo - 1)
      <4>1. Turn(w) = PassNull(w)
        BY <2>2, <2>3
      <4> QED BY <4>1 DEF PassNull, NextChild, Walks, DocType, Stacked
    <3> HIDE DEF advanced
    <3>2. w.togo - 1 \in Int
      BY <1>1
    <3>3. /\ Stacked(w, advanced, w.togo - 1) \in Walks
          /\ Stacked(w, advanced, w.togo - 1).doc.list = w.doc.list
      BY <1>4, <3>2, StackChanged, Zenon
    <3> QED BY <3>1, <3>3
  <2>4. CASE kid \in Page \ w.unread
    <3> DEFINE found == IF w.togo = 1 THEN kid ELSE None
               x == w.wanted - w.togo + 2
               changed == [w.doc.list EXCEPT ![x] = kid]
    <3>1. Turn(w) = Listed(w, advanced, changed, w.togo - 1, found)
      <4>1. Turn(w) = CountLeaf(w, kid)
        BY <2>2, <2>4
      <4> DEFINE v == [w EXCEPT !.doc.list[x] = kid, !.togo = @ - 1, !.found = found]
      <4>2. Turn(w) = [v EXCEPT !.doc.trav = AdvanceAt(@, Len(@))]
        BY <4>1 DEF CountLeaf, NextChild
      <4>3. v = [w EXCEPT !.doc = [w.doc EXCEPT !.list = changed],
                          !.togo = w.togo - 1, !.found = found]
        BY DEF Walks, DocType
      <4> HIDE DEF changed, found, x, kid
      <4>4. v.doc = [w.doc EXCEPT !.list = changed] /\ v.doc.trav = trav
        BY <4>3 DEF Walks, DocType
      <4>5. Turn(w) = [v EXCEPT !.doc = [v.doc EXCEPT !.trav = advanced]]
        BY <4>2, <4>3, <4>4 DEF Walks, DocType
      <4>6. [v.doc EXCEPT !.trav = advanced]
              = [w.doc EXCEPT !.trav = advanced, !.list = changed]
        BY <4>4 DEF Walks, DocType
      <4>7. Listed(w, advanced, changed, w.togo - 1, found)
              = [w EXCEPT !.doc = [w.doc EXCEPT !.trav = advanced, !.list = changed],
                          !.togo = w.togo - 1, !.found = found]
        BY DEF Walks, DocType, Listed
      <4> HIDE DEF advanced
      <4> QED BY <4>3, <4>5, <4>6, <4>7 DEF Walks
    <3>2. found \in Page \cup {None} /\ kid \in Page \cup {None}
      BY <2>4
    <3>3. w.doc.list \in Seq(Page \cup {None})
      BY DEF Walks, DocType
    <3> HIDE DEF found, x, kid
    <3>4. changed \in Seq(Page \cup {None}) /\ Len(changed) = Len(w.doc.list)
      <4> DEFINE S == Page \cup {None}
                 old == w.doc.list
      <4>1. old \in Seq(S) /\ kid \in S
        BY <3>2, <3>3
      <4> HIDE DEF S, old
      <4>2. [old EXCEPT ![x] = kid] \in Seq(S) /\ Len([old EXCEPT ![x] = kid]) = Len(old)
        BY <4>1, ReplacedAt
      <4> QED BY <4>2 DEF S, old
    <3> HIDE DEF advanced, changed
    <3>5. w.togo - 1 \in Int
      BY <1>1
    <3>6. /\ Listed(w, advanced, changed, w.togo - 1, found) \in Walks
          /\ Listed(w, advanced, changed, w.togo - 1, found).doc.list = changed
      BY <1>4, <3>2, <3>4, <3>5, ListChanged, Zenon
    <3> QED BY <3>1, <3>4, <3>6
  <2>5. CASE kid \notin w.unread /\ kid \notin Page
    <3> DEFINE entered == Append(trav, [node |-> kid, child |-> 1])
    <3>1. Turn(w) = Stacked(w, entered, w.togo)
      <4>1. Turn(w) = Enter(w, kid)
        BY <2>2, <2>5
      <4> QED BY <4>1 DEF Enter, Walks, DocType, Stacked
    <3>2. [node |-> kid, child |-> 1] \in Steps
      BY <2>1, <2>5 DEF Steps
    <3>3. entered \in Seq(Steps)
      BY <1>1, <3>2
    <3> HIDE DEF entered
    <3>4. /\ Stacked(w, entered, w.togo) \in Walks
          /\ Stacked(w, entered, w.togo).doc.list = w.doc.list
      BY <1>1, <3>3, StackChanged, Zenon
    <3> QED BY <3>1, <3>4
  <2> QED BY <2>3, <2>4, <2>5
<1> QED BY <1>5, <1>6, <1>7

(* Each turn does what Turn says: there is such a sequence of turns.       *)
TurnsOf(w, after, m) ==
    after = [n \in 0 .. m |-> IF n = 0 THEN w ELSE Turn(after[n - 1])]

LEMMA TurnsTaken ==
    ASSUME NEW w, NEW M \in Nat
    PROVE  \E after : TurnsOf(w, after, M)
<1> DEFINE S == {m \in 0 .. M : \E after : TurnsOf(w, after, m)}
<1>1. 0 \in S
  <2> DEFINE h == [n \in 0 .. 0 |-> w]
  <2>1. h = [n \in 0 .. 0 |-> IF n = 0 THEN w ELSE Turn(h[n - 1])]
    OBVIOUS
  <2> HIDE DEF h
  <2> QED BY <2>1 DEF TurnsOf
<1>2. ASSUME NEW m \in 0 .. M, m \in S, m < M
      PROVE  m + 1 \in S
  <2>1. PICK after : TurnsOf(w, after, m)
    BY <1>2
  <2> DEFINE h == [n \in 0 .. (m + 1) |-> IF n = m + 1 THEN Turn(after[m]) ELSE after[n]]
  <2>2. ASSUME NEW n \in 0 .. (m + 1)
        PROVE  h[n] = IF n = 0 THEN w ELSE Turn(h[n - 1])
    <3>1. CASE n = m + 1
      <4>1. n # 0 /\ n - 1 = m /\ h[n - 1] = after[m] /\ h[n] = Turn(after[m])
        BY <3>1
      <4> QED BY <4>1
    <3>2. CASE n # m + 1
      <4>1. n \in 0 .. m /\ h[n] = after[n]
        BY <3>2
      <4>2. after[n] = IF n = 0 THEN w ELSE Turn(after[n - 1])
        BY <2>1, <4>1 DEF TurnsOf
      <4>3. n # 0 => h[n - 1] = after[n - 1]
        BY <4>1
      <4> QED BY <4>1, <4>2, <4>3
    <3> QED BY <3>1, <3>2
  <2>3. h = [n \in 0 .. (m + 1) |-> h[n]]
    OBVIOUS
  <2> HIDE DEF h
  <2>4. TurnsOf(w, h, m + 1)
    BY <2>2, <2>3 DEF TurnsOf
  <2> QED BY <1>2, <2>4
<1>3. 0 .. M \subseteq S
  <2> HIDE DEF S
  <2> QED BY <1>1, <1>2, UpToBound
<1> QED BY <1>3

(* A walk stays one, and page_list_ keeps its length.                      *)
LEMMA WalkTyped ==
    ASSUME NEW w \in Walks
    PROVE  /\ TraversePDFPages(w) \in Walks
           /\ Len(TraversePDFPages(w).doc.list) = Len(w.doc.list)
<1> DEFINE after == CHOOSE g : TurnsOf(w, g, MaxTurns)
           Kept(v) == v \in Walks /\ Len(v.doc.list) = Len(w.doc.list)
           S == {n \in 0 .. MaxTurns : Kept(after[n])}
<1>1. MaxTurns \in Nat
  BY NodesAssumption, FS_CardinalityType DEF MaxTurns
<1>2. TurnsOf(w, after, MaxTurns)
  BY <1>1, TurnsTaken
<1>3. TraversePDFPages(w) = IF w.togo < 0 THEN w ELSE after[MaxTurns]
  BY DEF TraversePDFPages, TurnsOf
<1> HIDE DEF after
<1>4. after[0] = w
  BY <1>1, <1>2 DEF TurnsOf
<1>5. \A n \in 0 .. MaxTurns : n < MaxTurns => after[n + 1] = Turn(after[n])
  <2> SUFFICES ASSUME NEW n \in 0 .. MaxTurns, n < MaxTurns
               PROVE  after[n + 1] = Turn(after[n])
    OBVIOUS
  <2>1. n + 1 \in 0 .. MaxTurns /\ n + 1 # 0 /\ (n + 1) - 1 = n
    BY <1>1
  <2> QED BY <1>2, <2>1 DEF TurnsOf
<1>6. 0 \in S
  BY <1>1, <1>4
<1>7. ASSUME NEW n \in 0 .. MaxTurns, n \in S, n < MaxTurns
      PROVE  n + 1 \in S
  <2>1. n + 1 \in 0 .. MaxTurns
    BY <1>1, <1>7
  <2>2. Kept(Turn(after[n]))
    BY <1>7, TurnTyped
  <2> QED BY <1>5, <1>7, <2>1, <2>2
<1> HIDE DEF S
<1>8. MaxTurns \in S
  BY <1>1, <1>6, <1>7, UpToBound
<1> QED BY <1>3, <1>8 DEF S

(* Looking a page up.                                                      *)
LEMMA LookupTyped ==
    ASSUME NEW d \in DocType, NEW i \in 0 .. Len(d.list) - 1,
           NEW unread \in SUBSET (Branch \cup Page)
    PROVE  LET r == GetPageDictionary(d, i, unread)
           IN  /\ r.doc \in DocType /\ Len(r.doc.list) = Len(d.list)
               /\ r.doc.next \in {d.next} \cup 0 .. Len(d.list)
<1> DEFINE r == GetPageDictionary(d, i, unread)
           start == IF d.trav = <<>>
                    THEN [ResetTraversal(d) EXCEPT !.trav = <<[node |-> Root, child |-> 1]>>]
                    ELSE d
           w == [doc |-> start, unread |-> unread, wanted |-> i,
                 togo |-> i - start.next + 1, found |-> None]
           walk == TraversePDFPages(w)
<1>1. Len(d.list) \in Nat /\ i \in Nat /\ i + 1 \in 0 .. Len(d.list)
  BY DEF DocType
<1>2. start \in DocType /\ start.list = d.list
  <2>1. [node |-> Root, child |-> 1] \in Steps
    BY NodesAssumption DEF Steps
  <2>2. <<[node |-> Root, child |-> 1]>> \in Seq(Steps)
    BY <2>1
  <2> QED BY <2>2 DEF ResetTraversal, DocType, Steps
<1>3. r = CASE d.list[i + 1] \notin {None} \cup unread ->
                 [doc |-> d, found |-> d.list[i + 1]]
            [] d.list[i + 1] \in {None} \cup unread /\ Root \in unread ->
                 [doc |-> d, found |-> None]
            [] OTHER -> [doc |-> [walk.doc EXCEPT !.next = i + 1], found |-> walk.found]
  BY DEF GetPageDictionary
<1> HIDE DEF start
<1>4. w \in Walks /\ w.doc = start
  <2>1. start.next \in Nat
    BY <1>2 DEF DocType
  <2> QED BY <1>1, <1>2, <2>1 DEF Walks
<1> HIDE DEF w
<1>5. walk \in Walks /\ Len(walk.doc.list) = Len(d.list)
  BY <1>2, <1>4, WalkTyped
<1> HIDE DEF walk, r
<1>6. CASE r = [doc |-> [walk.doc EXCEPT !.next = i + 1], found |-> walk.found]
  <2>1. walk.doc \in DocType
    BY <1>5 DEF Walks
  <2> DEFINE e == walk.doc
             n == i + 1
             f == [e EXCEPT !.next = n]
  <2>2. n \in Nat /\ n \in 0 .. Len(d.list) /\ e \in DocType /\ Len(e.list) = Len(d.list)
    BY <1>1, <1>5, <2>1
  <2>3. r.doc = f
    BY <1>6
  <2> HIDE DEF e, n
  <2>4. f \in DocType /\ f.list = e.list /\ f.next = n
    BY <2>2 DEF DocType
  <2> HIDE DEF f
  <2> QED BY <2>2, <2>3, <2>4 DEF r
<1>7. CASE r.doc = d
  BY <1>7 DEF r, DocType
<1> QED BY <1>3, <1>6, <1>7
-----------------------------------------------------------------------------
(* Sequences put one after the other.                                      *)

Flat(G, n) == FlattenSeq([k \in 1 .. n |-> G[k]])
FlatOf(seqs, n, f) ==
    f = [i \in 1 .. n |-> IF i = 1 THEN seqs[i] ELSE f[i - 1] \o seqs[i]]

LEMMA FlatThere ==
    ASSUME NEW seqs, NEW n \in Nat
    PROVE  \E f : FlatOf(seqs, n, f)
<1> DEFINE S == {m \in 0 .. n : \E f : FlatOf(seqs, m, f)}
<1>1. 0 \in S
  <2> DEFINE h == [i \in 1 .. 0 |-> <<>>]
  <2>1. FlatOf(seqs, 0, h)
    BY DEF FlatOf
  <2> QED BY <2>1
<1>2. ASSUME NEW m \in 0 .. n, m \in S, m < n
      PROVE  m + 1 \in S
  <2>1. PICK f : FlatOf(seqs, m, f)
    BY <1>2
  <2> DEFINE last == IF m = 0 THEN seqs[1] ELSE f[m] \o seqs[m + 1]
             h == [i \in 1 .. (m + 1) |-> IF i = m + 1 THEN last ELSE f[i]]
  <2>2. ASSUME NEW i \in 1 .. (m + 1)
        PROVE  h[i] = IF i = 1 THEN seqs[i] ELSE h[i - 1] \o seqs[i]
    <3>1. CASE i = m + 1
      <4>1. h[i] = last /\ (i # 1 => i - 1 = m /\ m # 0 /\ h[i - 1] = f[m])
        BY <3>1
      <4>2. i = 1 => m = 0
        BY <3>1
      <4> HIDE DEF h
      <4> QED BY <3>1, <4>1, <4>2
    <3>2. CASE i # m + 1
      <4>1. i \in 1 .. m /\ h[i] = f[i] /\ (i # 1 => h[i - 1] = f[i - 1])
        BY <3>2
      <4>2. f[i] = IF i = 1 THEN seqs[i] ELSE f[i - 1] \o seqs[i]
        BY <2>1, <4>1 DEF FlatOf
      <4> HIDE DEF h
      <4> QED BY <4>1, <4>2
    <3> QED BY <3>1, <3>2
  <2>3. h = [i \in 1 .. (m + 1) |-> h[i]]
    OBVIOUS
  <2> HIDE DEF h
  <2>4. FlatOf(seqs, m + 1, h)
    BY <2>2, <2>3 DEF FlatOf
  <2> QED BY <1>2, <2>4
<1>3. 0 .. n \subseteq S
  <2> HIDE DEF S
  <2> QED BY <1>1, <1>2, UpToBound
<1> QED BY <1>3

LEMMA FlatSame ==
    ASSUME NEW a, NEW b, NEW k \in Nat, NEW n \in Nat, k <= n,
           NEW f, FlatOf(a, k, f), NEW g, FlatOf(b, n, g),
           \A i \in 1 .. k : a[i] = b[i]
    PROVE  \A i \in 1 .. k : f[i] = g[i]
<1> DEFINE S == {j \in 0 .. k : \A i \in 1 .. j : f[i] = g[i]}
<1>1. 0 \in S
  OBVIOUS
<1>2. ASSUME NEW j \in 0 .. k, j \in S, j < k
      PROVE  j + 1 \in S
  <2>1. /\ j + 1 \in 1 .. n /\ j + 1 \in 1 .. k /\ (j + 1) - 1 = j
        /\ j + 1 = 1 <=> j = 0
    BY <1>2
  <2>2. f[j + 1] = IF j = 0 THEN a[j + 1] ELSE f[j] \o a[j + 1]
    BY <2>1 DEF FlatOf
  <2>3. g[j + 1] = IF j = 0 THEN b[j + 1] ELSE g[j] \o b[j + 1]
    BY <2>1 DEF FlatOf
  <2>4. j # 0 => f[j] = g[j]
    BY <1>2
  <2>5. f[j + 1] = g[j + 1]
    BY <2>1, <2>2, <2>3, <2>4
  <2>6. \A i \in 1 .. (j + 1) : i = j + 1 \/ i \in 1 .. j
    OBVIOUS
  <2> QED BY <1>2, <2>1, <2>5, <2>6
<1>3. 0 .. k \subseteq S
  <2> HIDE DEF S
  <2> QED BY <1>1, <1>2, UpToBound
<1> QED BY <1>3

(* One more sequence at the end.                                           *)
LEMMA FlatNone ==
    ASSUME NEW G
    PROVE  Flat(G, 0) = <<>>
<1>1. [k \in 1 .. 0 |-> G[k]] = <<>>
  OBVIOUS
<1> QED BY <1>1 DEF Flat, FlattenSeq

LEMMA FlatNext ==
    ASSUME NEW G, NEW n \in Nat, NEW S, \A k \in 1 .. (n + 1) : G[k] \in Seq(S)
    PROVE  Flat(G, n + 1) = Flat(G, n) \o G[n + 1]
<1> DEFINE s == [k \in 1 .. n |-> G[k]]
           t == [k \in 1 .. (n + 1) |-> G[k]]
           f == CHOOSE h : FlatOf(s, n, h)
           g == CHOOSE h : FlatOf(t, n + 1, h)
<1>1. Len(s) = n /\ Len(t) = n + 1 /\ n + 1 # 0
  OBVIOUS
<1>2. FlatOf(s, n, f) /\ FlatOf(t, n + 1, g)
  <2> HIDE DEF s, t
  <2>1. n + 1 \in Nat
    OBVIOUS
  <2>2. (\E h : FlatOf(s, n, h)) /\ (\E h : FlatOf(t, n + 1, h))
    BY <2>1, FlatThere
  <2> QED BY <2>2
<1>3. FlattenSeq(t) = g[n + 1]
  <2> HIDE DEF t
  <2> QED BY <1>1 DEF FlattenSeq, FlatOf
<1>4. CASE n = 0
  <2>1. g[1] = t[1] /\ t[1] = G[1]
    <3>1. t[1] = G[1]
      BY <1>4
    <3> HIDE DEF s, t, f, g
    <3>2. g[1] = t[1]
      BY <1>2, <1>4 DEF FlatOf
    <3> QED BY <3>1, <3>2
  <2>2. G[1] \in Seq(S)
    BY <1>4
  <2>3. <<>> \o G[1] = G[1]
    BY <2>2
  <2> HIDE DEF s, t, f, g
  <2>4. FlattenSeq(t) = G[1]
    BY <1>3, <1>4, <2>1
  <2> QED BY <1>4, <2>3, <2>4, FlatNone DEF Flat, t
<1>5. CASE n # 0
  <2>1. \A i \in 1 .. n : s[i] = t[i]
    OBVIOUS
  <2>2. FlattenSeq(s) = f[n]
    <3> HIDE DEF s
    <3> QED BY <1>1, <1>5 DEF FlattenSeq, FlatOf
  <2>3. t[n + 1] = G[n + 1]
    OBVIOUS
  <2> HIDE DEF s, t, f, g
  <2>4. f[n] = g[n]
    <3> DEFINE m == n + 1
    <3>1. m \in Nat /\ n <= m /\ n \in 1 .. n
      BY <1>5
    <3>2. FlatOf(s, n, f) /\ FlatOf(t, m, g)
      BY <1>2
    <3> HIDE DEF m
    <3>3. \A i \in 1 .. n : f[i] = g[i]
      BY <2>1, <3>1, <3>2, FlatSame
    <3> QED BY <3>1, <3>3
  <2>5. g[n + 1] = g[n] \o t[n + 1]
    <3>1. n + 1 \in 1 .. (n + 1) /\ n + 1 # 1 /\ (n + 1) - 1 = n
      BY <1>5
    <3> QED BY <1>2, <3>1 DEF FlatOf
  <2> QED BY <1>3, <2>2, <2>3, <2>4, <2>5 DEF Flat, s, t
<1> QED BY <1>4, <1>5

LEMMA FlatTyped ==
    ASSUME NEW G, NEW n \in Nat, NEW S, \A k \in 1 .. n : G[k] \in Seq(S)
    PROVE  \A k \in 0 .. n : Flat(G, k) \in Seq(S)
<1> DEFINE T == {k \in 0 .. n : Flat(G, k) \in Seq(S)}
<1>1. 0 \in T
  <2>1. Flat(G, 0) = <<>> /\ <<>> \in Seq(S)
    BY FlatNone
  <2>2. Flat(G, 0) \in Seq(S)
    BY <2>1, Zenon
  <2> QED BY <2>2
<1>2. ASSUME NEW k \in 0 .. n, k \in T, k < n
      PROVE  k + 1 \in T
  <2>1. Flat(G, k + 1) = Flat(G, k) \o G[k + 1]
    BY <1>2, FlatNext
  <2>2. G[k + 1] \in Seq(S) /\ Flat(G, k) \in Seq(S)
    BY <1>2
  <2>3. Flat(G, k) \o G[k + 1] \in Seq(S)
    BY <2>2
  <2>4. Flat(G, k + 1) \in Seq(S)
    BY <2>1, <2>3, Zenon
  <2>5. k + 1 \in 0 .. n
    BY <1>2
  <2> QED BY <2>4, <2>5
<1>3. 0 .. n \subseteq T
  <2> HIDE DEF T
  <2> QED BY <1>1, <1>2, UpToBound
<1> QED BY <1>3

(* What is flattened depends on the sequences there are.                   *)
LEMMA FlatDepends ==
    ASSUME NEW G, NEW H, NEW n \in Nat, \A k \in 1 .. n : G[k] = H[k]
    PROVE  Flat(G, n) = Flat(H, n)
<1>1. [k \in 1 .. n |-> G[k]] = [k \in 1 .. n |-> H[k]]
  OBVIOUS
<1> QED BY <1>1 DEF Flat

(* The n-th sequence follows those before it.                              *)
LEMMA FlatAt ==
    ASSUME NEW G, NEW n \in Nat, NEW S, \A k \in 1 .. n : G[k] \in Seq(S)
    PROVE  \A k \in 1 .. n :
             /\ Len(Flat(G, k)) = Len(Flat(G, k - 1)) + Len(G[k])
             /\ Len(Flat(G, k)) <= Len(Flat(G, n))
             /\ \A x \in 1 .. Len(Flat(G, k)) : Flat(G, n)[x] = Flat(G, k)[x]
             /\ \A x \in 1 .. Len(G[k]) : Flat(G, n)[Len(Flat(G, k - 1)) + x] = G[k][x]
<1> DEFINE Prefix(k, m) ==
             /\ Len(Flat(G, k)) <= Len(Flat(G, m))
             /\ \A x \in 1 .. Len(Flat(G, k)) : Flat(G, m)[x] = Flat(G, k)[x]
<1> SUFFICES ASSUME NEW k \in 1 .. n
             PROVE  /\ Len(Flat(G, k)) = Len(Flat(G, k - 1)) + Len(G[k])
                    /\ Prefix(k, n)
                    /\ \A x \in 1 .. Len(G[k]) :
                         Flat(G, n)[Len(Flat(G, k - 1)) + x] = G[k][x]
  OBVIOUS
<1>1. \A m \in 0 .. n : Flat(G, m) \in Seq(S)
  BY FlatTyped
<1>2. \A m \in 0 .. n : m < n => Flat(G, m + 1) = Flat(G, m) \o G[m + 1] /\ G[m + 1] \in Seq(S)
  BY FlatNext
<1> DEFINE T == {m \in 0 .. n : k <= m => Prefix(k, m)}
<1>3. 0 \in T
  OBVIOUS
<1>4. ASSUME NEW m \in 0 .. n, m \in T, m < n
      PROVE  m + 1 \in T
  <2>1. CASE k <= m
    <3> DEFINE a == Flat(G, m)
               b == G[m + 1]
               c == Flat(G, k)
    <3>1. a \in Seq(S) /\ b \in Seq(S) /\ Flat(G, m + 1) = a \o b /\ c \in Seq(S)
      BY <1>1, <1>2, <1>4
    <3>2. Prefix(k, m)
      BY <1>4, <2>1
    <3>3. Len(c) <= Len(a) /\ \A x \in 1 .. Len(c) : a[x] = c[x]
      BY <3>2
    <3> HIDE DEF a, b, c
    <3>4. Len(c) <= Len(a \o b) /\ \A x \in 1 .. Len(c) : (a \o b)[x] = c[x]
      BY <3>1, <3>3
    <3>5. Prefix(k, m + 1)
      BY <3>1, <3>4 DEF c
    <3> HIDE DEF Prefix
    <3> QED BY <1>4, <3>5
  <2>2. CASE k = m + 1
    <3>1. Flat(G, k) \in Seq(S)
      BY <1>1
    <3>2. Prefix(k, m + 1)
      BY <2>2, <3>1
    <3> HIDE DEF Prefix
    <3> QED BY <1>4, <3>2
  <2>3. CASE m + 1 < k
    BY <1>4, <2>3
  <2> QED BY <2>1, <2>2, <2>3
<1>5. 0 .. n \subseteq T
  <2> HIDE DEF T
  <2> QED BY <1>3, <1>4, UpToBound
<1>6. Prefix(k, n)
  <2>1. n \in T
    BY <1>5
  <2> HIDE DEF Prefix
  <2> QED BY <2>1
<1> DEFINE a == Flat(G, k - 1)
           b == G[k]
<1>7. a \in Seq(S) /\ b \in Seq(S) /\ Flat(G, k) = a \o b
  <2>1. k - 1 \in 0 .. n /\ k - 1 < n /\ (k - 1) + 1 = k
    OBVIOUS
  <2> QED BY <1>1, <1>2, <2>1
<1>8. Len(Flat(G, k)) = Len(a) + Len(b)
  BY <1>7
<1>9. \A x \in 1 .. Len(b) : Flat(G, n)[Len(a) + x] = b[x]
  <2> HIDE DEF a, b
  <2> SUFFICES ASSUME NEW x \in 1 .. Len(b)
               PROVE  Flat(G, n)[Len(a) + x] = b[x]
    OBVIOUS
  <2>1. Len(a) + x \in 1 .. Len(Flat(G, k)) /\ (a \o b)[Len(a) + x] = b[x]
    BY <1>7, <1>8
  <2> QED BY <1>6, <1>7, <2>1
<1> QED BY <1>6, <1>8, <1>9

-----------------------------------------------------------------------------
(* Trees.                                                                  *)

Nodes == Branch \cup Page
Kids  == [Branch -> Seq(Nodes)]

(* What holds of a node if it holds of those below it holds of all nodes.  *)
Sinks(kids, height) ==
    /\ height \in [Branch -> 0 .. Cardinality(Branch)]
    /\ \A b \in Branch : \A kid \in ToSet(kids[b]) \cap Branch : height[kid] < height[b]

LEMMA TreeFacts ==
    ASSUME NEW kids, Descends(kids)
    PROVE  /\ kids \in Kids /\ \E height : Sinks(kids, height)
           /\ \A b \in Branch : /\ Len(kids[b]) \in Nat /\ DOMAIN kids[b] = 1 .. Len(kids[b])
                                /\ \A k \in DOMAIN kids[b] : kids[b][k] \in Nodes
<1>1. kids \in Kids
  BY DEF Descends, Kids, Nodes
<1>2. PICK depth \in [Branch -> 0 .. Cardinality(Branch)] :
        \A b \in Branch : \A kid \in ToSet(kids[b]) \cap Branch : depth[b] < depth[kid]
  BY DEF Descends
<1> DEFINE n == Cardinality(Branch)
           height == [b \in Branch |-> n - depth[b]]
<1>3. n \in Nat
  BY NodesAssumption, FS_CardinalityType
<1>4. Sinks(kids, height)
  <2> HIDE DEF n
  <2>1. \A b \in Branch : depth[b] \in 0 .. n
    BY <1>2 DEF n
  <2>2. height \in [Branch -> 0 .. n]
    BY <1>3, <2>1
  <2>3. \A b \in Branch : \A kid \in ToSet(kids[b]) \cap Branch : height[kid] < height[b]
    BY <1>2, <1>3, <2>1
  <2> HIDE DEF height
  <2> QED BY <2>2, <2>3 DEF Sinks, n
<1>5. \A b \in Branch : kids[b] \in Seq(Nodes)
  BY <1>1 DEF Kids
<1> QED BY <1>1, <1>4, <1>5

LEMMA TreeInduction ==
    ASSUME NEW kids \in Kids, NEW height, Sinks(kids, height), NEW T,
           \A b \in Branch : (\A kid \in ToSet(kids[b]) \cap Branch : kid \in T) => b \in T
    PROVE  Branch \subseteq T
<1> DEFINE H == {height[b] : b \in Branch \ T}
<1> SUFFICES ASSUME H # {}
             PROVE  FALSE
  OBVIOUS
<1>1. H \in SUBSET Nat
  BY DEF Sinks
<1>2. PICK h \in H : \A g \in H : h <= g
  BY <1>1, LeastElement
<1>3. PICK b \in Branch \ T : h = height[b]
  OBVIOUS
<1>4. \A kid \in ToSet(kids[b]) \cap Branch : kid \in T
  <2> SUFFICES ASSUME NEW kid \in ToSet(kids[b]) \cap Branch, kid \notin T
               PROVE  FALSE
    OBVIOUS
  <2>1. height[kid] < height[b] /\ height[kid] \in Nat /\ height[b] \in Nat
    BY DEF Sinks
  <2>2. height[kid] \in H
    OBVIOUS
  <2>3. h <= height[kid]
    BY <1>2, <2>2
  <2> HIDE DEF H
  <2> QED BY <1>3, <2>1, <2>3
<1> QED BY <1>3, <1>4

(* The leaves of a node are those of its kids.                             *)
LeavesIn(kids, f) ==
    [n \in Nodes |-> IF n \in Page THEN <<n>>
                     ELSE FlattenSeq([k \in DOMAIN kids[n] |-> f[kids[n][k]]])]

LEMMA LeavesThere ==
    ASSUME NEW kids, Descends(kids)
    PROVE  \E f : f = LeavesIn(kids, f)
<1>1. PICK height : Sinks(kids, height)
  BY TreeFacts
<1> DEFINE N == Cardinality(Branch) + 1
           Settled(f, m) ==
             \A n \in Nodes : n \in Page \/ height[n] < m => f[n] = LeavesIn(kids, f)[n]
           S == {m \in 0 .. N : \E f : Settled(f, m)}
<1>2. N \in Nat /\ \A b \in Branch : height[b] \in Nat /\ height[b] < N
  <2>1. Cardinality(Branch) \in Nat
    BY NodesAssumption, FS_CardinalityType
  <2>2. \A b \in Branch : height[b] \in 0 .. Cardinality(Branch)
    BY <1>1 DEF Sinks
  <2> QED BY <2>1, <2>2
<1> HIDE DEF N
<1>3. 0 \in S
  <2> DEFINE f == [n \in Nodes |-> <<n>>]
  <2>1. \A n \in Nodes : n \in Page => f[n] = LeavesIn(kids, f)[n]
    BY DEF LeavesIn
  <2>2. \A n \in Nodes : n \in Page \/ ~(height[n] < 0)
    BY <1>2 DEF Nodes
  <2> HIDE DEF f
  <2>3. Settled(f, 0)
    BY <2>1, <2>2
  <2> QED BY <1>2, <2>3
<1>4. ASSUME NEW m \in 0 .. N, m \in S, m < N
      PROVE  m + 1 \in S
  <2>1. PICK f : Settled(f, m)
    BY <1>4
  <2> DEFINE g == LeavesIn(kids, f)
  <2>2. ASSUME NEW n \in Nodes, n \in Page \/ height[n] < m + 1
        PROVE  g[n] = LeavesIn(kids, g)[n]
    <3>1. CASE n \in Page
      BY <3>1 DEF LeavesIn
    <3>2. CASE n \notin Page
      <4>1. n \in Branch /\ height[n] <= m
        BY <1>2, <2>2, <3>2 DEF Nodes
      <4>2. ASSUME NEW k \in DOMAIN kids[n]
            PROVE  f[kids[n][k]] = g[kids[n][k]]
        <5> DEFINE kid == kids[n][k]
        <5>1. kid \in Nodes
          BY <4>1, TreeFacts
        <5>2. kid \in Branch => height[kid] < height[n]
          BY <1>1, <4>1 DEF Sinks, ToSet
        <5>3. kid \in Branch => height[kid] < m
          BY <1>2, <4>1, <5>2
        <5> HIDE DEF kid
        <5> QED BY <2>1, <5>1, <5>3 DEF Nodes, kid
      <4>3. [k \in DOMAIN kids[n] |-> f[kids[n][k]]] = [k \in DOMAIN kids[n] |-> g[kids[n][k]]]
        BY <4>2
      <4> HIDE DEF g
      <4>4. LeavesIn(kids, f)[n] = LeavesIn(kids, g)[n]
        BY <3>2, <4>3 DEF LeavesIn
      <4> QED BY <4>4 DEF g
    <3> QED BY <3>1, <3>2
  <2> HIDE DEF g
  <2>3. Settled(g, m + 1)
    BY <2>2
  <2>4. m + 1 \in 0 .. N
    BY <1>2, <1>4
  <2> HIDE DEF Settled
  <2> QED BY <2>3, <2>4
<1>5. 0 .. N \subseteq S
  <2> HIDE DEF S
  <2> QED BY <1>2, <1>3, <1>4, UpToBound
<1>6. N \in S
  BY <1>2, <1>5
<1>7. PICK f : Settled(f, N)
  BY <1>6
<1> DEFINE g == LeavesIn(kids, f)
<1>8. \A n \in Nodes : f[n] = g[n]
  BY <1>2, <1>7 DEF Nodes
<1>9. g = LeavesIn(kids, g)
  <2>1. ASSUME NEW n \in Nodes
        PROVE  LeavesIn(kids, f)[n] = LeavesIn(kids, g)[n]
    <3>1. CASE n \in Page
      BY <3>1 DEF LeavesIn
    <3>2. CASE n \notin Page
      <4>1. n \in Branch
        BY <3>2 DEF Nodes
      <4>2. \A k \in DOMAIN kids[n] : kids[n][k] \in Nodes
        BY <4>1, TreeFacts
      <4> HIDE DEF g
      <4>3. [k \in DOMAIN kids[n] |-> f[kids[n][k]]] = [k \in DOMAIN kids[n] |-> g[kids[n][k]]]
        BY <1>8, <4>2
      <4> QED BY <3>2, <4>3 DEF LeavesIn
    <3> QED BY <3>1, <3>2
  <2>2. LeavesIn(kids, g) = [n \in Nodes |-> LeavesIn(kids, g)[n]]
    BY DEF LeavesIn
  <2>3. g = [n \in Nodes |-> LeavesIn(kids, f)[n]]
    BY DEF LeavesIn
  <2> HIDE DEF g
  <2> QED BY <2>1, <2>2, <2>3
<1> QED BY <1>9

(* The first kids of a node, and the leaves below them.                    *)
KidLeaves(kids, b) == [k \in DOMAIN kids[b] |-> Leaves(kids, kids[b][k])]
Before(kids, b, k) == Flat(KidLeaves(kids, b), k - 1)

LEMMA LeavesUnfold ==
    ASSUME NEW kids, Descends(kids)
    PROVE  /\ \A p \in Page : Leaves(kids, p) = <<p>>
           /\ \A b \in Branch : Leaves(kids, b) = Flat(KidLeaves(kids, b), Len(kids[b]))
<1> DEFINE f == CHOOSE g : g = LeavesIn(kids, g)
<1>1. f = LeavesIn(kids, f)
  BY LeavesThere
<1>2. \A n : Leaves(kids, n) = f[n]
  BY DEF Leaves, LeavesIn, Nodes
<1> HIDE DEF f
<1>3. \A p \in Page : f[p] = <<p>>
  BY <1>1 DEF LeavesIn, Nodes
<1>4. ASSUME NEW b \in Branch
      PROVE  Leaves(kids, b) = Flat(KidLeaves(kids, b), Len(kids[b]))
  <2>1. b \in Nodes /\ b \notin Page
    BY NodesAssumption DEF Nodes
  <2>2. f[b] = FlattenSeq([k \in DOMAIN kids[b] |-> f[kids[b][k]]])
    BY <1>1, <2>1 DEF LeavesIn
  <2>3. DOMAIN kids[b] = 1 .. Len(kids[b])
    BY TreeFacts
  <2>4. [k \in DOMAIN kids[b] |-> f[kids[b][k]]] = [k \in 1 .. Len(kids[b]) |-> KidLeaves(kids, b)[k]]
    BY <1>2, <2>3 DEF KidLeaves
  <2> QED BY <1>2, <2>2, <2>4 DEF Flat
<1> QED BY <1>2, <1>3, <1>4

LEMMA LeavesTyped ==
    ASSUME NEW kids, Descends(kids)
    PROVE  \A n \in Nodes : Leaves(kids, n) \in Seq(Page)
<1>1. PICK height : Sinks(kids, height)
  BY TreeFacts
<1> DEFINE T == {b \in Branch : Leaves(kids, b) \in Seq(Page)}
<1>2. \A p \in Page : Leaves(kids, p) \in Seq(Page)
  <2> SUFFICES ASSUME NEW p \in Page
               PROVE  Leaves(kids, p) \in Seq(Page)
    OBVIOUS
  <2>1. Leaves(kids, p) = <<p>> /\ <<p>> \in Seq(Page)
    BY LeavesUnfold
  <2> QED BY <2>1, Zenon
<1>3. ASSUME NEW b \in Branch, \A kid \in ToSet(kids[b]) \cap Branch : kid \in T
      PROVE  b \in T
  <2> DEFINE n == Len(kids[b])
  <2>1. n \in Nat /\ DOMAIN kids[b] = 1 .. n /\ \A k \in DOMAIN kids[b] : kids[b][k] \in Nodes
    BY TreeFacts
  <2>2. \A k \in 1 .. n : KidLeaves(kids, b)[k] \in Seq(Page)
    <3> SUFFICES ASSUME NEW k \in 1 .. n
                 PROVE  Leaves(kids, kids[b][k]) \in Seq(Page)
      BY <2>1 DEF KidLeaves
    <3>1. CASE kids[b][k] \in Page
      BY <1>2, <3>1
    <3>2. CASE kids[b][k] \in Branch
      BY <1>3, <2>1, <3>2 DEF ToSet
    <3> QED BY <2>1, <3>1, <3>2 DEF Nodes
  <2> HIDE DEF n
  <2>3. \A k \in 0 .. n : Flat(KidLeaves(kids, b), k) \in Seq(Page)
    BY <2>1, <2>2, FlatTyped
  <2>4. n \in 0 .. n /\ Leaves(kids, b) = Flat(KidLeaves(kids, b), n)
    BY <2>1, LeavesUnfold DEF n
  <2> QED BY <2>3, <2>4
<1>4. Branch \subseteq T
  <2>1. kids \in Kids
    BY TreeFacts
  <2> HIDE DEF T
  <2> QED BY <1>1, <1>3, <2>1, TreeInduction
<1> QED BY <1>2, <1>4 DEF Nodes

LEMMA KidPlace ==
    ASSUME NEW kids, Descends(kids), NEW b \in Branch
    PROVE  /\ Before(kids, b, 1) = <<>>
           /\ Before(kids, b, Len(kids[b]) + 1) = Leaves(kids, b)
           /\ \A k \in 1 .. Len(kids[b]) + 1 :
                Before(kids, b, k) \in Seq(Page) /\ Len(Before(kids, b, k)) \in Nat
           /\ \A k \in DOMAIN kids[b] :
                LET kid == kids[b][k]
                    at  == Len(Before(kids, b, k))
                IN  /\ Len(Before(kids, b, k + 1)) = at + Len(Leaves(kids, kid))
                    /\ Len(Before(kids, b, k + 1)) <= Len(Leaves(kids, b))
                    /\ \A x \in 1 .. Len(Leaves(kids, kid)) :
                         Leaves(kids, b)[at + x] = Leaves(kids, kid)[x]
<1> DEFINE n == Len(kids[b])
           G == KidLeaves(kids, b)
<1>1. n \in Nat /\ DOMAIN kids[b] = 1 .. n /\ \A k \in 1 .. n : kids[b][k] \in Nodes
  BY TreeFacts
<1>2. \A k \in 1 .. n : G[k] = Leaves(kids, kids[b][k])
  BY <1>1 DEF KidLeaves
<1>3. \A k \in 1 .. n : G[k] \in Seq(Page)
  BY <1>1, <1>2, LeavesTyped
<1>4. Leaves(kids, b) = Flat(G, n)
  BY LeavesUnfold
<1> HIDE DEF n, G
<1>5. \A k \in 0 .. n : Flat(G, k) \in Seq(Page)
  BY <1>1, <1>3, FlatTyped
<1>6. \A k \in 1 .. n :
        /\ Len(Flat(G, k)) = Len(Flat(G, k - 1)) + Len(G[k])
        /\ Len(Flat(G, k)) <= Len(Flat(G, n))
        /\ \A x \in 1 .. Len(G[k]) : Flat(G, n)[Len(Flat(G, k - 1)) + x] = G[k][x]
  BY <1>1, <1>3, FlatAt
<1>7. \A k : Before(kids, b, k) = Flat(G, k - 1)
  BY DEF Before, G
<1>8. (n + 1) - 1 = n /\ 1 - 1 = 0 /\ \A k \in 1 .. n : (k + 1) - 1 = k
  BY <1>1
<1>9. Before(kids, b, 1) = <<>> /\ Before(kids, b, n + 1) = Leaves(kids, b)
  <2>1. Before(kids, b, 1) = Flat(G, 0) /\ Before(kids, b, n + 1) = Flat(G, n)
    BY <1>7, <1>8
  <2> QED BY <1>4, <2>1, FlatNone
<1>10. ASSUME NEW k \in 1 .. n + 1
       PROVE  Before(kids, b, k) \in Seq(Page) /\ Len(Before(kids, b, k)) \in Nat
  <2>1. k - 1 \in 0 .. n
    BY <1>1
  <2>2. Before(kids, b, k) \in Seq(Page)
    BY <1>5, <1>7, <2>1
  <2> QED BY <2>2
<1>11. \A k \in 1 .. n : Before(kids, b, k + 1) = Flat(G, k)
  BY <1>7, <1>8
<1>12. ASSUME NEW k \in 1 .. n
       PROVE  LET kid == kids[b][k]
                  at  == Len(Before(kids, b, k))
              IN  /\ Len(Before(kids, b, k + 1)) = at + Len(Leaves(kids, kid))
                  /\ Len(Before(kids, b, k + 1)) <= Len(Leaves(kids, b))
                  /\ \A x \in 1 .. Len(Leaves(kids, kid)) :
                       Leaves(kids, b)[at + x] = Leaves(kids, kid)[x]
  <2>1. Before(kids, b, k) = Flat(G, k - 1) /\ Before(kids, b, k + 1) = Flat(G, k)
    BY <1>7, <1>11
  <2>2. G[k] = Leaves(kids, kids[b][k])
    BY <1>2
  <2> QED BY <1>4, <1>6, <2>1, <2>2
<1> QED BY <1>1, <1>9, <1>10, <1>12 DEF n

(* The leaves of a node are the pages of the document from a place on.     *)
Sits(kids, n, at) ==
    LET below == Leaves(kids, n)
        all   == Leaves(kids, Root)
    IN  /\ at \in Nat /\ at + Len(below) <= Len(all)
        /\ \A x \in 1 .. Len(below) : all[at + x] = below[x]

LEMMA RootSits ==
    ASSUME NEW kids, Descends(kids)
    PROVE  Sits(kids, Root, 0)
<1>1. Leaves(kids, Root) \in Seq(Page)
  BY LeavesTyped, NodesAssumption DEF Nodes
<1>2. Len(Leaves(kids, Root)) \in Nat
  BY <1>1
<1> QED BY <1>2 DEF Sits

LEMMA KidSits ==
    ASSUME NEW kids, Descends(kids), NEW b \in Branch, NEW at, Sits(kids, b, at),
           NEW k \in DOMAIN kids[b]
    PROVE  Sits(kids, kids[b][k], at + Len(Before(kids, b, k)))
<1> DEFINE kid == kids[b][k]
           a == Len(Before(kids, b, k))
           m == Len(Leaves(kids, kid))
           n == Len(Leaves(kids, b))
           all == Leaves(kids, Root)
<1>1. k \in 1 .. Len(kids[b]) /\ kid \in Nodes /\ Len(kids[b]) \in Nat
  BY TreeFacts
<1>2. a \in Nat
  <2>1. k \in 1 .. Len(kids[b]) + 1
    BY <1>1
  <2> QED BY <2>1, KidPlace
<1>3. m \in Nat /\ n \in Nat /\ Len(all) \in Nat
  <2>1. Leaves(kids, kid) \in Seq(Page) /\ Leaves(kids, b) \in Seq(Page) /\ all \in Seq(Page)
    BY <1>1, LeavesTyped, NodesAssumption DEF Nodes
  <2> HIDE DEF kid, all
  <2> QED BY <2>1
<1>4. a + m <= n /\ \A x \in 1 .. m : Leaves(kids, b)[a + x] = Leaves(kids, kid)[x]
  <2>1. Len(Before(kids, b, k + 1)) = a + m /\ Len(Before(kids, b, k + 1)) <= n
    BY KidPlace
  <2>2. \A x \in 1 .. m : Leaves(kids, b)[a + x] = Leaves(kids, kid)[x]
    BY KidPlace
  <2> QED BY <2>1, <2>2
<1>5. at \in Nat /\ at + n <= Len(all) /\ \A x \in 1 .. n : all[at + x] = Leaves(kids, b)[x]
  BY DEF Sits
<1> HIDE DEF kid, a, m, n, all
<1>6. at + a \in Nat /\ (at + a) + m <= Len(all)
  BY <1>2, <1>3, <1>4, <1>5
<1>7. ASSUME NEW x \in 1 .. m
      PROVE  all[(at + a) + x] = Leaves(kids, kid)[x]
  <2>1. a + x \in 1 .. n /\ at + (a + x) = (at + a) + x
    BY <1>2, <1>3, <1>4, <1>5
  <2>2. all[at + (a + x)] = Leaves(kids, b)[a + x]
    BY <1>5, <2>1
  <2> QED BY <1>4, <2>1, <2>2
<1>8. Sits(kids, kid, at + a)
  BY <1>6, <1>7 DEF Sits, m, all
<1> QED BY <1>8 DEF kid, a

-----------------------------------------------------------------------------
(* A stack of nodes from the root down, each at the child it went into,    *)
(* and where their leaves begin.                                           *)
StepsOf(kids) ==
    {s \in Steps : s.child <= Len(kids[s.node]) + 1}

Stands(kids, trav, at) ==
    /\ trav \in Seq(StepsOf(kids)) /\ trav # <<>> /\ trav[1].node = Root
    /\ at \in Seq(Nat) /\ Len(at) = Len(trav) /\ at[1] = 0
    /\ \A n \in DOMAIN trav : Sits(kids, trav[n].node, at[n])
    /\ \A n \in 1 .. Len(trav) - 1 :
         LET step == trav[n]
         IN  /\ step.child <= Len(kids[step.node])
             /\ trav[n + 1].node = kids[step.node][step.child]
             /\ at[n + 1] = at[n] + Len(Before(kids, step.node, step.child))

(* How many pages lie before the place a stack stands at.                  *)
Here(kids, trav, at) ==
    LET top == trav[Len(trav)]
    IN  at[Len(at)] + Len(Before(kids, top.node, top.child))

LEMMA StandsFacts ==
    ASSUME NEW kids, Descends(kids), NEW trav, NEW at, Stands(kids, trav, at)
    PROVE  LET m   == Len(trav)
               top == trav[m]
           IN  /\ m \in Nat /\ m > 0 /\ Last(trav) = top /\ trav \in Seq(Steps)
               /\ DOMAIN trav = 1 .. m /\ DOMAIN at = 1 .. m
               /\ \A n \in 1 .. m :
                    /\ trav[n].node \in Branch /\ trav[n].child \in Nat \ {0}
                    /\ trav[n].child <= Len(kids[trav[n].node]) + 1
                    /\ trav[n] = [node |-> trav[n].node, child |-> trav[n].child]
                    /\ at[n] \in Nat
                    /\ Len(Before(kids, trav[n].node, trav[n].child)) \in Nat
               /\ Here(kids, trav, at) \in Nat
               /\ Here(kids, trav, at) <= Len(Leaves(kids, Root))
<1> DEFINE m == Len(trav)
           top == trav[m]
<1>1. trav \in Seq(StepsOf(kids)) /\ trav # <<>> /\ at \in Seq(Nat) /\ Len(at) = m
  BY DEF Stands
<1>2. /\ m \in Nat /\ m > 0 /\ DOMAIN trav = 1 .. m /\ DOMAIN at = 1 .. m
      /\ \A n \in 1 .. m : trav[n] \in StepsOf(kids) /\ at[n] \in Nat
  BY <1>1
<1>3. Last(trav) = top
  BY DEF Last
<1>4. trav \in Seq(Steps)
  <2>1. StepsOf(kids) \subseteq Steps
    BY DEF StepsOf
  <2> QED BY <1>1, <2>1
<1>5. \A n \in 1 .. m :
        /\ trav[n].node \in Branch /\ trav[n].child \in Nat \ {0}
        /\ trav[n].child <= Len(kids[trav[n].node]) + 1
        /\ trav[n] = [node |-> trav[n].node, child |-> trav[n].child]
  BY <1>2 DEF StepsOf, Steps
<1>6. \A n \in 1 .. m : Len(Before(kids, trav[n].node, trav[n].child)) \in Nat
  <2> SUFFICES ASSUME NEW n \in 1 .. m
               PROVE  Len(Before(kids, trav[n].node, trav[n].child)) \in Nat
    OBVIOUS
  <2>1. Len(kids[trav[n].node]) \in Nat
    BY <1>5, TreeFacts
  <2> DEFINE k == trav[n].child
             c == Len(kids[trav[n].node])
  <2>2. k \in 1 .. c + 1
    <3>1. k \in Nat \ {0} /\ k <= c + 1 /\ c \in Nat
      BY <1>5, <2>1
    <3> HIDE DEF k, c
    <3> QED BY <3>1
  <2> HIDE DEF m
  <2> QED BY <1>5, <2>2, KidPlace
<1>7. Here(kids, trav, at) \in Nat /\ Here(kids, trav, at) <= Len(Leaves(kids, Root))
  <2> DEFINE b == top.node
             k == top.child
             c == Len(kids[b])
             before == Len(Before(kids, b, k))
  <2>1. m \in 1 .. m
    BY <1>2
  <2>2. /\ b \in Branch /\ k \in Nat \ {0} /\ k <= c + 1 /\ before \in Nat
        /\ at[m] \in Nat /\ c \in Nat
    BY <1>2, <1>5, <1>6, <2>1, TreeFacts
  <2>3. Sits(kids, b, at[m])
    BY <1>2, <2>1 DEF Stands
  <2>4. Leaves(kids, b) \in Seq(Page) /\ Leaves(kids, Root) \in Seq(Page)
    BY <2>2, LeavesTyped, NodesAssumption DEF Nodes
  <2>5. Here(kids, trav, at) = at[m] + before
    BY <1>1 DEF Here
  <2> HIDE DEF m, top, b, k, c, before
  <2>6. before <= Len(Leaves(kids, b))
    <3>1. CASE k = c + 1
      <4>1. Before(kids, b, k) = Leaves(kids, b)
        BY <2>2, <3>1, KidPlace DEF c
      <4> QED BY <2>4, <4>1 DEF before
    <3>2. CASE k # c + 1
      <4>1. k \in DOMAIN kids[b]
        <5>1. DOMAIN kids[b] = 1 .. c
          BY <2>2, TreeFacts DEF c
        <5> QED BY <2>2, <3>2, <5>1
      <4>2. kids[b][k] \in Nodes
        BY <2>2, <4>1, TreeFacts
      <4>3. Len(Leaves(kids, kids[b][k])) \in Nat
        <5>1. Leaves(kids, kids[b][k]) \in Seq(Page)
          BY <4>2, LeavesTyped
        <5> QED BY <5>1
      <4>4. /\ Len(Before(kids, b, k + 1)) = before + Len(Leaves(kids, kids[b][k]))
            /\ Len(Before(kids, b, k + 1)) <= Len(Leaves(kids, b))
        BY <2>2, <4>1, KidPlace DEF before
      <4>5. Len(Leaves(kids, b)) \in Nat
        BY <2>4
      <4> QED BY <2>2, <4>3, <4>4, <4>5
    <3> QED BY <3>1, <3>2
  <2>7. at[m] + Len(Leaves(kids, b)) <= Len(Leaves(kids, Root))
    BY <2>3 DEF Sits
  <2>8. Len(Leaves(kids, b)) \in Nat /\ Len(Leaves(kids, Root)) \in Nat
    BY <2>4
  <2> QED BY <2>2, <2>5, <2>6, <2>7, <2>8
<1> QED BY <1>2, <1>3, <1>4, <1>5, <1>6, <1>7

-----------------------------------------------------------------------------
(* Moving through the tree.                                                *)

LEMMA Advanced ==
    ASSUME NEW trav \in Seq(Steps), NEW l \in 1 .. Len(trav)
    PROVE  LET t == AdvanceAt(trav, l)
           IN  /\ t \in Seq(Steps) /\ Len(t) = Len(trav)
               /\ t[l] = [node |-> trav[l].node, child |-> trav[l].child + 1]
               /\ \A n \in 1 .. Len(trav) : n # l => t[n] = trav[n]
<1> DEFINE m == Len(trav)
           t == AdvanceAt(trav, l)
           step == [trav[l] EXCEPT !.child = @ + 1]
<1>1. m \in Nat /\ trav \in [1 .. m -> Steps]
  OBVIOUS
<1>2. t = [trav EXCEPT ![l] = step] /\ t \in Seq(Steps)
  BY AdvanceTyped DEF AdvanceAt
<1>3. step = [node |-> trav[l].node, child |-> trav[l].child + 1]
  <2>1. trav[l] \in Steps
    BY <1>1
  <2> QED BY <2>1 DEF Steps
<1>4. Len(t) = m
  <2>1. step \in Steps
    BY <1>1, <1>3 DEF Steps
  <2> HIDE DEF step
  <2>2. Len([trav EXCEPT ![l] = step]) = Len(trav)
    BY <2>1, ReplacedAt
  <2> QED BY <1>2, <2>2
<1> HIDE DEF step, t
<1>5. t[l] = step /\ \A n \in 1 .. m : n # l => t[n] = trav[n]
  BY <1>1, <1>2
<1> QED BY <1>2, <1>3, <1>4, <1>5 DEF t, m

LEMMA InSteps ==
    ASSUME NEW kids, NEW t \in Seq(Steps),
           \A n \in 1 .. Len(t) : t[n].child <= Len(kids[t[n].node]) + 1
    PROVE  t \in Seq(StepsOf(kids))
<1> DEFINE m == Len(t)
<1>1. m \in Nat /\ t \in [1 .. m -> Steps]
  OBVIOUS
<1>2. \A n \in 1 .. m : t[n] \in StepsOf(kids)
  BY <1>1 DEF StepsOf
<1> HIDE DEF m
<1>3. t \in [1 .. m -> StepsOf(kids)]
  BY <1>1, <1>2
<1> QED BY <1>1, <1>3

LEMMA StandStart ==
    ASSUME NEW kids, Descends(kids)
    PROVE  LET t == <<[node |-> Root, child |-> 1]>>
           IN  Stands(kids, t, <<0>>) /\ Here(kids, t, <<0>>) = 0
<1> DEFINE t == <<[node |-> Root, child |-> 1]>>
<1>1. Len(kids[Root]) \in Nat
  BY TreeFacts, NodesAssumption
<1>2. [node |-> Root, child |-> 1] \in StepsOf(kids)
  BY <1>1, NodesAssumption DEF StepsOf, Steps
<1>3. t \in Seq(StepsOf(kids)) /\ Len(t) = 1 /\ t # <<>> /\ t[1].node = Root /\ t[1].child = 1
  BY <1>2
<1>4. <<0>> \in Seq(Nat) /\ Len(<<0>>) = 1 /\ (<<0>>)[1] = 0
  OBVIOUS
<1>5. Sits(kids, Root, 0)
  BY RootSits
<1>6. Stands(kids, t, <<0>>)
  <2> HIDE DEF t
  <2>1. DOMAIN t = 1 .. 1
    BY <1>3
  <2> QED BY <1>3, <1>4, <1>5, <2>1 DEF Stands
<1>7. Len(Before(kids, Root, 1)) = 0
  <2>1. Before(kids, Root, 1) = <<>>
    BY KidPlace, NodesAssumption
  <2> QED BY <2>1
<1>8. Here(kids, t, <<0>>) = 0
  <2> HIDE DEF t
  <2> QED BY <1>3, <1>4, <1>7 DEF Here
<1> QED BY <1>6, <1>8

(* Past a kid.                                                             *)
LEMMA StandPast ==
    ASSUME NEW kids, Descends(kids), NEW trav, NEW at, Stands(kids, trav, at),
           Last(trav).child <= Len(kids[Last(trav).node])
    PROVE  LET top == Last(trav)
               kid == kids[top.node][top.child]
               t   == AdvanceAt(trav, Len(trav))
           IN  /\ top.child \in DOMAIN kids[top.node] /\ kid \in Nodes
               /\ Sits(kids, kid, Here(kids, trav, at))
               /\ Stands(kids, t, at)
               /\ Here(kids, t, at) = Here(kids, trav, at) + Len(Leaves(kids, kid))
<1> DEFINE m == Len(trav)
           top == trav[m]
           b == top.node
           k == top.child
           kid == kids[b][k]
           t == AdvanceAt(trav, m)
<1>1. /\ m \in Nat /\ m > 0 /\ Last(trav) = top /\ trav \in Seq(Steps)
      /\ DOMAIN trav = 1 .. m /\ DOMAIN at = 1 .. m /\ m \in 1 .. m
  BY StandsFacts
<1>2. \A n \in 1 .. m :
        /\ trav[n].node \in Branch /\ trav[n].child \in Nat \ {0}
        /\ trav[n].child <= Len(kids[trav[n].node]) + 1
        /\ at[n] \in Nat
        /\ Len(Before(kids, trav[n].node, trav[n].child)) \in Nat
  BY StandsFacts
<1>3. k \in DOMAIN kids[b] /\ kid \in Nodes /\ Len(kids[b]) \in Nat /\ k \in Nat /\ k <= Len(kids[b])
  <2>1. b \in Branch /\ k \in Nat \ {0} /\ k <= Len(kids[b])
    BY <1>1, <1>2
  <2>2. DOMAIN kids[b] = 1 .. Len(kids[b]) /\ Len(kids[b]) \in Nat
    BY <2>1, TreeFacts
  <2>3. k \in DOMAIN kids[b]
    BY <2>1, <2>2
  <2> HIDE DEF b, k
  <2> QED BY <2>1, <2>2, <2>3, TreeFacts DEF kid
<1>4. Here(kids, trav, at) = at[m] + Len(Before(kids, b, k)) /\ Len(at) = m
  BY DEF Here, Stands
<1>5. Sits(kids, kid, Here(kids, trav, at))
  <2>1. Sits(kids, b, at[m]) /\ b \in Branch
    BY <1>1, <1>2 DEF Stands
  <2> HIDE DEF b, k, m
  <2>2. Sits(kids, kids[b][k], at[m] + Len(Before(kids, b, k)))
    BY <1>3, <2>1, KidSits
  <2> QED BY <1>4, <2>2 DEF kid
<1>6. /\ t \in Seq(Steps) /\ Len(t) = m
      /\ t[m] = [node |-> b, child |-> k + 1]
      /\ \A n \in 1 .. m : n # m => t[n] = trav[n]
  <2> HIDE DEF t
  <2> QED BY <1>1, Advanced DEF t
<1> HIDE DEF t
<1>7. \A n \in 1 .. m : t[n].child <= Len(kids[t[n].node]) + 1 /\ t[n].node = trav[n].node
  <2> SUFFICES ASSUME NEW n \in 1 .. m
               PROVE  t[n].child <= Len(kids[t[n].node]) + 1 /\ t[n].node = trav[n].node
    OBVIOUS
  <2>1. CASE n = m
    <3>1. t[n].child = k + 1 /\ t[n].node = b
      <4> HIDE DEF b, k, m
      <4> QED BY <1>6, <2>1
    <3>2. t[n].child <= Len(kids[b]) + 1
      <4> HIDE DEF b, k, m
      <4> QED BY <1>3, <3>1
    <3> QED BY <2>1, <3>1, <3>2 DEF b
  <2>2. CASE n # m
    BY <1>2, <1>6, <2>2
  <2> QED BY <2>1, <2>2
<1>8. t \in Seq(StepsOf(kids)) /\ t # <<>>
  <2>1. \A n \in 1 .. Len(t) : t[n].child <= Len(kids[t[n].node]) + 1
    BY <1>6, <1>7
  <2>2. t \in Seq(StepsOf(kids))
    BY <1>6, <2>1, InSteps
  <2>3. Len(t) # 0
    <3>1. m # 0
      BY <1>1
    <3> HIDE DEF m
    <3> QED BY <1>6, <3>1
  <2>4. t # <<>>
    BY <2>3
  <2> QED BY <2>2, <2>4
<1>9. Stands(kids, t, at)
  <2>1. t[1].node = Root
    BY <1>1, <1>7 DEF Stands
  <2>2. \A n \in 1 .. m : Sits(kids, t[n].node, at[n])
    BY <1>1, <1>7 DEF Stands
  <2>3. ASSUME NEW n \in 1 .. m - 1
        PROVE  LET step == t[n]
               IN  /\ step.child <= Len(kids[step.node])
                   /\ t[n + 1].node = kids[step.node][step.child]
                   /\ at[n + 1] = at[n] + Len(Before(kids, step.node, step.child))
    <3>1. n \in 1 .. m /\ n + 1 \in 1 .. m /\ n # m
      <4>1. m \in Nat
        BY <1>1
      <4> HIDE DEF m
      <4> QED BY <4>1
    <3>2. t[n] = trav[n] /\ t[n + 1].node = trav[n + 1].node
      BY <1>6, <1>7, <3>1
    <3> QED BY <3>2 DEF Stands
  <2>4. DOMAIN t = 1 .. m
    <3>1. DOMAIN t = 1 .. Len(t)
      BY <1>6
    <3> QED BY <1>6, <3>1
  <2>5. at \in Seq(Nat) /\ at[1] = 0
    BY DEF Stands
  <2> HIDE DEF m
  <2> QED BY <1>4, <1>6, <1>8, <2>1, <2>2, <2>3, <2>4, <2>5 DEF Stands
<1>10. Here(kids, t, at) = Here(kids, trav, at) + Len(Leaves(kids, kid))
  <2>1. Here(kids, t, at) = at[m] + Len(Before(kids, b, k + 1))
    BY <1>4, <1>6 DEF Here
  <2>2. Len(Before(kids, b, k + 1)) = Len(Before(kids, b, k)) + Len(Leaves(kids, kid))
    <3>1. b \in Branch
      BY <1>1, <1>2
    <3> HIDE DEF b, k
    <3> QED BY <1>3, <3>1, KidPlace DEF kid
  <2>3. Len(Leaves(kids, kid)) \in Nat
    <3>1. Leaves(kids, kid) \in Seq(Page)
      BY <1>3, LeavesTyped
    <3> QED BY <3>1
  <2>4. at[m] \in Nat /\ Len(Before(kids, b, k)) \in Nat
    BY <1>1, <1>2
  <2> DEFINE x == at[m]
             y == Len(Before(kids, b, k))
             z == Len(Leaves(kids, kid))
             u == Here(kids, t, at)
             v == Here(kids, trav, at)
  <2>5. u = x + (y + z) /\ v = x + y /\ x \in Nat /\ y \in Nat /\ z \in Nat
    BY <1>4, <2>1, <2>2, <2>3, <2>4
  <2> HIDE DEF x, y, z, u, v
  <2>6. u = v + z
    BY <2>5
  <2> QED BY <2>6 DEF u, v, z
<1> QED BY <1>1, <1>3, <1>5, <1>9, <1>10 DEF t

(* Into a kid.                                                             *)
LEMMA StandInto ==
    ASSUME NEW kids, Descends(kids), NEW trav, NEW at, Stands(kids, trav, at),
           Last(trav).child <= Len(kids[Last(trav).node]),
           NEW kid \in Branch, kid = kids[Last(trav).node][Last(trav).child]
    PROVE  LET t == Append(trav, [node |-> kid, child |-> 1])
               a == Append(at, Here(kids, trav, at))
           IN  Stands(kids, t, a) /\ Here(kids, t, a) = Here(kids, trav, at)
<1> DEFINE m == Len(trav)
           top == trav[m]
           here == Here(kids, trav, at)
           t == Append(trav, [node |-> kid, child |-> 1])
           a == Append(at, here)
<1>1. /\ m \in Nat /\ m > 0 /\ Last(trav) = top /\ trav \in Seq(Steps)
      /\ DOMAIN trav = 1 .. m /\ DOMAIN at = 1 .. m /\ here \in Nat
  BY StandsFacts
<1>2. trav \in Seq(StepsOf(kids)) /\ at \in Seq(Nat) /\ Len(at) = m
  BY DEF Stands
<1>3. [node |-> kid, child |-> 1] \in StepsOf(kids)
  <2>1. Len(kids[kid]) \in Nat
    BY TreeFacts
  <2> QED BY <2>1 DEF StepsOf, Steps
<1> HIDE DEF here
<1>4. /\ t \in Seq(StepsOf(kids)) /\ Len(t) = m + 1
      /\ t[m + 1] = [node |-> kid, child |-> 1]
      /\ \A n \in 1 .. m : t[n] = trav[n]
  BY <1>1, <1>2, <1>3
<1>5. /\ a \in Seq(Nat) /\ Len(a) = m + 1 /\ a[m + 1] = here
      /\ \A n \in 1 .. m : a[n] = at[n]
  BY <1>1, <1>2
<1>6. Sits(kids, kid, here)
  BY <1>1, StandPast DEF here
<1> HIDE DEF t, a
<1>7. \A n \in 1 .. m + 1 : Sits(kids, t[n].node, a[n])
  <2> SUFFICES ASSUME NEW n \in 1 .. m + 1
               PROVE  Sits(kids, t[n].node, a[n])
    OBVIOUS
  <2>1. CASE n = m + 1
    BY <1>4, <1>5, <1>6, <2>1
  <2>2. CASE n # m + 1
    <3>1. n \in 1 .. m
      BY <1>1, <2>2
    <3>2. Sits(kids, trav[n].node, at[n])
      BY <1>1, <3>1 DEF Stands
    <3> QED BY <1>4, <1>5, <3>1, <3>2
  <2> QED BY <2>1, <2>2
<1>8. ASSUME NEW n \in 1 .. m
      PROVE  LET step == t[n]
             IN  /\ step.child <= Len(kids[step.node])
                 /\ t[n + 1].node = kids[step.node][step.child]
                 /\ a[n + 1] = a[n] + Len(Before(kids, step.node, step.child))
  <2>1. CASE n = m
    <3>1. here = at[m] + Len(Before(kids, top.node, top.child))
      BY <1>2 DEF Here, here
    <3>2. t[n] = top /\ t[n + 1].node = kid /\ a[n] = at[m] /\ a[n + 1] = here
      BY <1>4, <1>5, <2>1
    <3> HIDE DEF top
    <3> QED BY <1>1, <3>1, <3>2
  <2>2. CASE n # m
    <3>1. n \in 1 .. m - 1 /\ n + 1 \in 1 .. m
      BY <1>1, <2>2
    <3>2. t[n] = trav[n] /\ t[n + 1] = trav[n + 1] /\ a[n] = at[n] /\ a[n + 1] = at[n + 1]
      BY <1>4, <1>5, <3>1
    <3> QED BY <3>1, <3>2 DEF Stands
  <2> QED BY <2>1, <2>2
<1>9. Stands(kids, t, a)
  <2>1. t # <<>> /\ t[1].node = Root /\ a[1] = 0
    <3>1. 1 \in 1 .. m
      BY <1>1
    <3>2. trav[1].node = Root /\ at[1] = 0
      BY DEF Stands
    <3> QED BY <1>1, <1>4, <1>5, <3>1, <3>2
  <2>2. DOMAIN t = 1 .. m + 1 /\ (m + 1) - 1 = m
    BY <1>1, <1>4
  <2> HIDE DEF m
  <2> QED BY <1>4, <1>5, <1>7, <1>8, <2>1, <2>2 DEF Stands
<1>10. Here(kids, t, a) = here
  <2>1. Len(Before(kids, kid, 1)) = 0
    <3>1. Before(kids, kid, 1) = <<>>
      BY KidPlace
    <3> QED BY <3>1
  <2>2. Here(kids, t, a) = a[m + 1] + Len(Before(kids, kid, 1))
    BY <1>4, <1>5 DEF Here
  <2> QED BY <1>1, <1>5, <2>1, <2>2
<1> QED BY <1>9, <1>10 DEF t, a, here

(* Out of a node whose kids have all been passed.                          *)
LEMMA StandOut ==
    ASSUME NEW kids, Descends(kids), NEW trav, NEW at, Stands(kids, trav, at),
           ~(Last(trav).child <= Len(kids[Last(trav).node]))
    PROVE  LET m == Len(trav)
               t == AdvanceAt(Front(trav), m - 1)
               a == Front(at)
           IN  /\ m = 1 => Here(kids, trav, at) = Len(Leaves(kids, Root))
               /\ m # 1 => /\ Stands(kids, t, a)
                           /\ Here(kids, t, a) = Here(kids, trav, at)
<1> DEFINE m == Len(trav)
           top == trav[m]
           b == top.node
           k == top.child
           here == Here(kids, trav, at)
<1>1. /\ m \in Nat /\ m > 0 /\ Last(trav) = top /\ trav \in Seq(Steps)
      /\ DOMAIN trav = 1 .. m /\ DOMAIN at = 1 .. m /\ m \in 1 .. m
  BY StandsFacts
<1>2. \A n \in 1 .. m :
        /\ trav[n].node \in Branch /\ trav[n].child \in Nat \ {0}
        /\ trav[n].child <= Len(kids[trav[n].node]) + 1
        /\ at[n] \in Nat
        /\ Len(Before(kids, trav[n].node, trav[n].child)) \in Nat
  BY StandsFacts
<1>3. here = at[m] + Len(Leaves(kids, b))
  <2>1. Len(kids[b]) \in Nat /\ b \in Branch /\ k \in Nat /\ k <= Len(kids[b]) + 1
    BY <1>1, <1>2, TreeFacts
  <2>2. k = Len(kids[b]) + 1
    <3>1. ~(k <= Len(kids[b]))
      BY <1>1
    <3> HIDE DEF b, k
    <3> QED BY <2>1, <3>1
  <2>3. here = at[m] + Len(Before(kids, b, k))
    BY DEF Here, Stands
  <2> HIDE DEF b, k, here, m
  <2>4. Before(kids, b, k) = Leaves(kids, b)
    BY <2>1, <2>2, KidPlace
  <2> QED BY <2>3, <2>4
<1>4. CASE m = 1
  <2>1. b = Root /\ at[m] = 0
    BY <1>4 DEF Stands
  <2>2. Len(Leaves(kids, Root)) \in Nat
    <3>1. Leaves(kids, Root) \in Seq(Page)
      BY LeavesTyped, NodesAssumption DEF Nodes
    <3> QED BY <3>1
  <2>3. here = Len(Leaves(kids, Root))
    BY <1>3, <2>1, <2>2
  <2> QED BY <1>4, <2>3
<1>5. CASE m # 1
  <2> DEFINE l == m - 1
             front == Front(trav)
             t == AdvanceAt(front, l)
             a == Front(at)
             p == trav[l].node
             j == trav[l].child
  <2>1. l \in 1 .. m /\ l \in Nat /\ l > 0 /\ l \in 1 .. m - 1 /\ l + 1 = m
    BY <1>1, <1>5
  <2>2. /\ front \in Seq(Steps) /\ Len(front) = l
        /\ \A n \in 1 .. l : front[n] = trav[n]
    BY <1>1, <2>1 DEF Front
  <2>3. /\ a \in Seq(Nat) /\ Len(a) = l
        /\ \A n \in 1 .. l : a[n] = at[n]
    <3>1. at \in Seq(Nat) /\ Len(at) = m
      BY DEF Stands
    <3> QED BY <1>1, <2>1, <3>1 DEF Front
  <2>4. /\ p \in Branch /\ j \in Nat \ {0} /\ j <= Len(kids[p]) /\ kids[p][j] = b
        /\ at[m] = at[l] + Len(Before(kids, p, j))
    <3>1. /\ j <= Len(kids[p]) /\ trav[l + 1].node = kids[p][j]
          /\ at[l + 1] = at[l] + Len(Before(kids, p, j))
      BY <2>1 DEF Stands
    <3> QED BY <1>2, <2>1, <3>1
  <2> HIDE DEF front
  <2>5. /\ t \in Seq(Steps) /\ Len(t) = l
        /\ t[l] = [node |-> p, child |-> j + 1]
        /\ \A n \in 1 .. l : n # l => t[n] = trav[n]
    <3>1. l \in 1 .. Len(front)
      BY <2>1, <2>2
    <3> HIDE DEF l
    <3>2. /\ AdvanceAt(front, l) \in Seq(Steps) /\ Len(AdvanceAt(front, l)) = Len(front)
          /\ AdvanceAt(front, l)[l] = [node |-> front[l].node, child |-> front[l].child + 1]
          /\ \A n \in 1 .. Len(front) : n # l => AdvanceAt(front, l)[n] = front[n]
      BY <2>2, <3>1, Advanced
    <3> QED BY <2>2, <3>1, <3>2
  <2> HIDE DEF t, a
  <2>6. ASSUME NEW n \in 1 .. l
        PROVE  /\ t[n].node = trav[n].node /\ t[n].child <= Len(kids[t[n].node]) + 1
               /\ n \in 1 .. m
    <3>1. n \in 1 .. m
      BY <2>1
    <3>2. CASE n = l
      <4>1. t[n].node = p /\ t[n].child = j + 1
        BY <2>5, <3>2
      <4>2. Len(kids[p]) \in Nat
        BY <2>4, TreeFacts
      <4>3. j + 1 <= Len(kids[p]) + 1
        <5>1. j \in Nat /\ j <= Len(kids[p])
          BY <2>4
        <5> HIDE DEF j, p
        <5> QED BY <4>2, <5>1
      <4> QED BY <3>1, <3>2, <4>1, <4>3
    <3>3. CASE n # l
      BY <1>2, <2>5, <3>1, <3>3
    <3> QED BY <3>2, <3>3
  <2>7. t \in Seq(StepsOf(kids)) /\ t # <<>>
    <3>1. \A n \in 1 .. Len(t) : t[n].child <= Len(kids[t[n].node]) + 1
      BY <2>5, <2>6
    <3>2. t \in Seq(StepsOf(kids))
      BY <2>5, <3>1, InSteps
    <3>3. Len(t) # 0
      <4>1. l # 0
        BY <2>1
      <4> HIDE DEF l
      <4> QED BY <2>5, <4>1
    <3>4. t # <<>>
      BY <3>3
    <3> QED BY <3>2, <3>4
  <2>8. \A n \in 1 .. l : Sits(kids, t[n].node, a[n])
    BY <1>1, <2>3, <2>6 DEF Stands
  <2>9. ASSUME NEW n \in 1 .. l - 1
        PROVE  LET step == t[n]
               IN  /\ step.child <= Len(kids[step.node])
                   /\ t[n + 1].node = kids[step.node][step.child]
                   /\ a[n + 1] = a[n] + Len(Before(kids, step.node, step.child))
    <3>1. n \in 1 .. l /\ n + 1 \in 1 .. l /\ n # l /\ n \in 1 .. m - 1
      <4>1. l \in Nat /\ m \in Nat /\ l + 1 = m
        BY <1>1, <2>1
      <4> HIDE DEF l, m
      <4> QED BY <4>1
    <3>2. /\ t[n] = trav[n] /\ t[n + 1].node = trav[n + 1].node
          /\ a[n] = at[n] /\ a[n + 1] = at[n + 1]
      BY <2>3, <2>5, <2>6, <3>1
    <3> QED BY <3>1, <3>2 DEF Stands
  <2>10. Stands(kids, t, a)
    <3>1. t[1].node = Root /\ a[1] = 0 /\ 1 \in 1 .. l
      <4>1. 1 \in 1 .. l
        BY <2>1
      <4> QED BY <2>3, <2>6, <4>1 DEF Stands
    <3>2. DOMAIN t = 1 .. l
      BY <2>5
    <3> HIDE DEF l
    <3> QED BY <2>3, <2>5, <2>7, <2>8, <2>9, <3>1, <3>2 DEF Stands
  <2>11. Here(kids, t, a) = here
    <3>1. Here(kids, t, a) = at[l] + Len(Before(kids, p, j + 1))
      <4>1. l \in 1 .. l
        BY <2>1
      <4> HIDE DEF l
      <4> QED BY <2>3, <2>5, <4>1 DEF Here
    <3>2. Len(Before(kids, p, j + 1)) = Len(Before(kids, p, j)) + Len(Leaves(kids, b))
      <4>1. j \in DOMAIN kids[p]
        <5>1. DOMAIN kids[p] = 1 .. Len(kids[p]) /\ Len(kids[p]) \in Nat
          BY <2>4, TreeFacts
        <5>2. j \in Nat \ {0} /\ j <= Len(kids[p])
          BY <2>4
        <5> HIDE DEF j, p
        <5> QED BY <5>1, <5>2
      <4>2. p \in Branch /\ kids[p][j] = b
        BY <2>4
      <4> HIDE DEF p, j, b
      <4> QED BY <4>1, <4>2, KidPlace
    <3>3. Len(Leaves(kids, b)) \in Nat
      <4>1. b \in Nodes
        BY <1>1, <1>2 DEF Nodes
      <4>2. Leaves(kids, b) \in Seq(Page)
        BY <4>1, LeavesTyped
      <4> QED BY <4>2
    <3>4. at[l] \in Nat /\ Len(Before(kids, p, j)) \in Nat
      BY <1>2, <2>1
    <3> DEFINE x == at[l]
               y == Len(Before(kids, p, j))
               z == Len(Leaves(kids, b))
               u == Here(kids, t, a)
    <3>5. u = x + (y + z) /\ here = (x + y) + z /\ x \in Nat /\ y \in Nat /\ z \in Nat
      BY <1>3, <2>4, <3>1, <3>2, <3>3, <3>4
    <3> HIDE DEF x, y, z, u, here
    <3>6. u = here
      BY <3>5
    <3> QED BY <3>6 DEF u
  <2> QED BY <1>5, <2>10, <2>11 DEF t, a, front
<1> QED BY <1>4, <1>5

-----------------------------------------------------------------------------
(* No node is entered or passed twice, so that a walk comes to an end: the *)
(* branches gone into and what has been passed on the way from some stack  *)
(* to another.                                                             *)
Visited(kids, trav, into, past) ==
    /\ into \subseteq Branch /\ past \subseteq Nodes
    /\ \A n \in DOMAIN trav : trav[n].node \in into \ past
    /\ \A x \in (into \cup past) \ {Root} :
         \E b \in Branch : \E j \in DOMAIN kids[b] :
           /\ kids[b][j] = x
           /\ \/ b \in past
              \/ \E n \in DOMAIN trav :
                   /\ trav[n].node = b
                   /\ \/ j < trav[n].child
                      \/ j = trav[n].child /\ n < Len(trav)

LEMMA StackDistinct ==
    ASSUME NEW kids, Descends(kids), NEW trav, NEW at, Stands(kids, trav, at)
    PROVE  \A l, n \in 1 .. Len(trav) : trav[l].node = trav[n].node => l = n
<1> DEFINE m == Len(trav)
<1>1. /\ m \in Nat /\ m > 0
      /\ \A n \in 1 .. m : trav[n].node \in Branch /\ trav[n].child \in Nat \ {0}
  BY StandsFacts
<1>2. PICK height : Sinks(kids, height)
  BY TreeFacts
<1> DEFINE H(n) == height[trav[n].node]
           T == {n \in 0 .. m - 1 : \A l \in 1 .. n : H(n + 1) < H(l)}
<1>3. \A n \in 1 .. m : H(n) \in Nat
  BY <1>1, <1>2 DEF Sinks
<1>4. ASSUME NEW n \in 1 .. m - 1
      PROVE  H(n + 1) < H(n)
  <2>1. n \in 1 .. m /\ n + 1 \in 1 .. m
    BY <1>1
  <2> DEFINE b == trav[n].node
             k == trav[n].child
  <2>2. k <= Len(kids[b]) /\ trav[n + 1].node = kids[b][k]
    BY DEF Stands
  <2>3. b \in Branch /\ k \in Nat \ {0} /\ kids[b][k] \in Branch
    BY <1>1, <2>1, <2>2
  <2>4. k \in DOMAIN kids[b]
    <3>1. DOMAIN kids[b] = 1 .. Len(kids[b]) /\ Len(kids[b]) \in Nat
      BY <2>3, TreeFacts
    <3> HIDE DEF b, k
    <3> QED BY <2>2, <2>3, <3>1
  <2>5. kids[b][k] \in ToSet(kids[b]) \cap Branch
    BY <2>3, <2>4 DEF ToSet
  <2>6. height[kids[b][k]] < height[b]
    <3> HIDE DEF b, k
    <3> QED BY <1>2, <2>3, <2>5 DEF Sinks
  <2> QED BY <2>2, <2>6
<1> HIDE DEF H, m
<1>5. 0 \in T
  BY <1>1
<1>6. ASSUME NEW n \in 0 .. m - 1, n \in T, n < m - 1
      PROVE  n + 1 \in T
  <2>1. n + 1 \in 1 .. m - 1 /\ n + 1 \in 0 .. m - 1 /\ (n + 1) + 1 \in 1 .. m /\ n + 1 \in 1 .. m
    BY <1>1, <1>6
  <2>2. H((n + 1) + 1) < H(n + 1)
    BY <1>4, <2>1
  <2>3. ASSUME NEW l \in 1 .. n + 1
        PROVE  H((n + 1) + 1) < H(l)
    <3>1. CASE l = n + 1
      BY <2>2, <3>1
    <3>2. CASE l # n + 1
      <4>1. l \in 1 .. n /\ l \in 1 .. m
        BY <1>1, <1>6, <3>2
      <4>2. H(n + 1) < H(l)
        BY <1>6, <4>1
      <4>3. H(n + 1) \in Nat /\ H(l) \in Nat /\ H((n + 1) + 1) \in Nat
        BY <1>3, <2>1, <4>1
      <4> QED BY <2>2, <4>2, <4>3
    <3> QED BY <3>1, <3>2
  <2> QED BY <2>1, <2>3
<1>7. 0 .. m - 1 \subseteq T
  <2>1. m - 1 \in Nat
    BY <1>1
  <2> HIDE DEF T
  <2> QED BY <1>5, <1>6, <2>1, UpToBound
<1>8. ASSUME NEW l \in 1 .. m, NEW n \in 1 .. m, l < n
      PROVE  H(n) < H(l)
  <2>1. n - 1 \in 0 .. m - 1 /\ (n - 1) + 1 = n /\ l \in 1 .. n - 1
    BY <1>1, <1>8
  <2>2. n - 1 \in T
    BY <1>7, <2>1
  <2>3. H((n - 1) + 1) < H(l)
    BY <2>1, <2>2
  <2> QED BY <2>1, <2>3
<1>9. ASSUME NEW l \in 1 .. m, NEW n \in 1 .. m, trav[l].node = trav[n].node, l # n
      PROVE  FALSE
  <2>1. H(l) = H(n) /\ H(l) \in Nat
    BY <1>3, <1>9 DEF H
  <2>2. l < n \/ n < l
    BY <1>1, <1>9
  <2>3. H(l) < H(n) \/ H(n) < H(l)
    BY <1>8, <2>2
  <2> QED BY <2>1, <2>3
<1> QED BY <1>9 DEF m

(* A stack to begin with.                                                  *)
LEMMA VisitStart ==
    ASSUME NEW kids, Descends(kids), NEW trav, NEW at, Stands(kids, trav, at)
    PROVE  LET into == {trav[n].node : n \in 1 .. Len(trav)}
           IN  Visited(kids, trav, into, {}) /\ Root \in into
<1> DEFINE m == Len(trav)
           into == {trav[n].node : n \in 1 .. m}
<1>1. /\ m \in Nat /\ m > 0 /\ DOMAIN trav = 1 .. m
      /\ \A n \in 1 .. m : trav[n].node \in Branch /\ trav[n].child \in Nat \ {0}
  BY StandsFacts
<1>2. Root \in into
  <2>1. trav[1].node = Root /\ 1 \in 1 .. m
    BY <1>1 DEF Stands
  <2> QED BY <2>1
<1>3. ASSUME NEW x \in into \ {Root}
      PROVE  \E b \in Branch : \E j \in DOMAIN kids[b] :
               /\ kids[b][j] = x
               /\ \E n \in DOMAIN trav :
                    /\ trav[n].node = b
                    /\ j = trav[n].child /\ n < m
  <2>1. PICK n \in 1 .. m : x = trav[n].node
    OBVIOUS
  <2>2. n # 1
    BY <2>1 DEF Stands
  <2> DEFINE l == n - 1
             b == trav[l].node
             k == trav[l].child
  <2>3. l \in 1 .. m - 1 /\ l + 1 = n /\ l \in 1 .. m /\ l < m
    <3>1. m \in Nat
      BY <1>1
    <3> HIDE DEF m
    <3> QED BY <2>2, <3>1
  <2>4. k <= Len(kids[b]) /\ x = kids[b][k]
    BY <2>1, <2>3 DEF Stands
  <2>5. b \in Branch /\ k \in Nat \ {0}
    BY <1>1, <2>3
  <2>6. k \in DOMAIN kids[b]
    <3>1. DOMAIN kids[b] = 1 .. Len(kids[b]) /\ Len(kids[b]) \in Nat
      BY <2>5, TreeFacts
    <3> HIDE DEF b, k
    <3> QED BY <2>4, <2>5, <3>1
  <2> HIDE DEF l
  <2> QED BY <1>1, <2>3, <2>4, <2>5, <2>6
<1>4. into \subseteq Branch /\ \A n \in DOMAIN trav : trav[n].node \in into
  BY <1>1
<1> HIDE DEF into
<1>5. Visited(kids, trav, into, {})
  BY <1>3, <1>4 DEF Visited
<1> QED BY <1>2, <1>5 DEF into

(* The kid a stack stands at is new.                                       *)
LEMMA KidIsNew ==
    ASSUME NEW kids, IsTree(kids), NEW trav, NEW at, Stands(kids, trav, at),
           NEW into, NEW past, Visited(kids, trav, into, past),
           Last(trav).child <= Len(kids[Last(trav).node])
    PROVE  kids[Last(trav).node][Last(trav).child] \notin into \cup past
<1> Descends(kids)
  BY DEF IsTree
<1> DEFINE m == Len(trav)
           top == trav[m]
           b == top.node
           k == top.child
           kid == kids[b][k]
<1>1. /\ m \in Nat /\ m > 0 /\ Last(trav) = top /\ m \in 1 .. m /\ DOMAIN trav = 1 .. m
      /\ b \in Branch /\ k \in Nat \ {0} /\ \A n \in 1 .. m : trav[n].child \in Nat
  <2>1. /\ m \in Nat /\ m > 0 /\ Last(trav) = top /\ DOMAIN trav = 1 .. m
        /\ \A n \in 1 .. m : trav[n].node \in Branch /\ trav[n].child \in Nat \ {0}
    BY StandsFacts
  <2>2. m \in 1 .. m
    BY <2>1
  <2> QED BY <2>1, <2>2
<1>2. k \in DOMAIN kids[b]
  BY <1>1, StandPast
<1> SUFFICES ASSUME kid \in into \cup past
             PROVE  FALSE
  BY <1>1
<1>3. kid # Root
  <2>1. kid \in ToSet(kids[b])
    BY <1>2 DEF ToSet
  <2> HIDE DEF kid
  <2> QED BY <1>1, <2>1 DEF IsTree
<1>4. PICK c \in Branch : \E j \in DOMAIN kids[c] :
        /\ kids[c][j] = kid
        /\ \/ c \in past
           \/ \E n \in DOMAIN trav :
                /\ trav[n].node = c
                /\ \/ j < trav[n].child
                   \/ j = trav[n].child /\ n < m
  <2> HIDE DEF kid
  <2> QED BY <1>3 DEF Visited
<1> HIDE DEF kid
<1>5. PICK j \in DOMAIN kids[c] :
        /\ kids[c][j] = kid
        /\ \/ c \in past
           \/ \E n \in DOMAIN trav :
                /\ trav[n].node = c
                /\ \/ j < trav[n].child
                   \/ j = trav[n].child /\ n < m
  BY <1>4
<1>6. c = b /\ j = k
  <2> HIDE DEF b, k
  <2> QED BY <1>1, <1>2, <1>5 DEF IsTree, kid
<1>7. b \notin past
  BY <1>1 DEF Visited
<1>8. PICK n \in DOMAIN trav : /\ trav[n].node = b
                               /\ \/ k < trav[n].child
                                  \/ k = trav[n].child /\ n < m
  <2> HIDE DEF b, k
  <2> QED BY <1>5, <1>6, <1>7
<1>9. n = m
  BY <1>1, <1>8, StackDistinct
<1>10. trav[n].child = k
  BY <1>9
<1> QED
  <2> HIDE DEF b, k, m
  <2> QED BY <1>1, <1>8, <1>9, <1>10

(* The three moves: each passes or goes into something new.                *)
LEMMA VisitPast ==
    ASSUME NEW kids, IsTree(kids), NEW trav, NEW at, Stands(kids, trav, at),
           NEW into, NEW past, Visited(kids, trav, into, past),
           Last(trav).child <= Len(kids[Last(trav).node])
    PROVE  LET kid == kids[Last(trav).node][Last(trav).child]
           IN  Visited(kids, AdvanceAt(trav, Len(trav)), into, past \cup {kid})
<1> Descends(kids)
  BY DEF IsTree
<1> DEFINE m == Len(trav)
           top == trav[m]
           b == top.node
           k == top.child
           kid == kids[b][k]
           t == AdvanceAt(trav, m)
           seen == past \cup {kid}
<1>1. /\ m \in Nat /\ m > 0 /\ Last(trav) = top /\ DOMAIN trav = 1 .. m
      /\ trav \in Seq(Steps)
      /\ \A n \in 1 .. m : trav[n].node \in Branch /\ trav[n].child \in Nat \ {0}
  BY StandsFacts
<1>2. m \in 1 .. m
  BY <1>1
<1>3. k \in DOMAIN kids[b] /\ kid \in Nodes
  BY <1>1, StandPast
<1>4. kid \notin into \cup past
  BY <1>1, KidIsNew
<1>5. /\ Len(t) = m /\ DOMAIN t = 1 .. m /\ t[m] = [node |-> b, child |-> k + 1]
      /\ \A n \in 1 .. m : n # m => t[n] = trav[n]
  <2>1. /\ t \in Seq(Steps) /\ Len(t) = m /\ t[m] = [node |-> b, child |-> k + 1]
        /\ \A n \in 1 .. m : n # m => t[n] = trav[n]
    BY <1>1, <1>2, Advanced
  <2>2. DOMAIN t = 1 .. Len(t)
    <3> HIDE DEF t
    <3> QED BY <2>1
  <2> QED BY <2>1, <2>2
<1> HIDE DEF t
<1>6. \A n \in 1 .. m : t[n].node = trav[n].node
  <2> SUFFICES ASSUME NEW n \in 1 .. m
               PROVE  t[n].node = trav[n].node
    OBVIOUS
  <2>1. CASE n = m
    <3> HIDE DEF m
    <3> QED BY <1>5, <2>1
  <2>2. CASE n # m
    BY <1>5, <2>2
  <2> QED BY <2>1, <2>2
<1>7. into \subseteq Branch /\ seen \subseteq Nodes
  BY <1>3 DEF Visited
<1>8. \A n \in DOMAIN t : t[n].node \in into \ seen
  <2> SUFFICES ASSUME NEW n \in 1 .. m
               PROVE  trav[n].node \in into \ seen
    BY <1>5, <1>6
  <2> HIDE DEF kid
  <2>1. trav[n].node \in into \ past
    BY <1>1 DEF Visited
  <2> QED BY <1>4, <2>1
<1>9. ASSUME NEW x \in (into \cup seen) \ {Root}
      PROVE  \E c \in Branch : \E j \in DOMAIN kids[c] :
               /\ kids[c][j] = x
               /\ \/ c \in seen
                  \/ \E n \in DOMAIN t :
                       /\ t[n].node = c
                       /\ \/ j < t[n].child
                          \/ j = t[n].child /\ n < m
  <2>1. CASE x = kid
    <3>1. k < t[m].child /\ t[m].node = b
      <4>1. k \in Nat
        BY <1>1, <1>2
      <4> HIDE DEF b, k, m
      <4> QED BY <1>5, <4>1
    <3>2. b \in Branch
      BY <1>1, <1>2
    <3> HIDE DEF b, k, m
    <3> QED BY <1>2, <1>3, <1>5, <2>1, <3>1, <3>2 DEF kid
  <2>2. CASE x # kid
    <3>1. PICK c \in Branch : \E j \in DOMAIN kids[c] :
            /\ kids[c][j] = x
            /\ \/ c \in past
               \/ \E n \in DOMAIN trav :
                    /\ trav[n].node = c
                    /\ \/ j < trav[n].child
                       \/ j = trav[n].child /\ n < m
      <4> HIDE DEF kid
      <4> QED BY <2>2 DEF Visited
    <3>2. PICK j \in DOMAIN kids[c] :
            /\ kids[c][j] = x
            /\ \/ c \in past
               \/ \E n \in DOMAIN trav :
                    /\ trav[n].node = c
                    /\ \/ j < trav[n].child
                       \/ j = trav[n].child /\ n < m
      BY <3>1
    <3>3. CASE c \in past
      BY <3>2, <3>3
    <3>4. ASSUME NEW n \in DOMAIN trav, trav[n].node = c,
                 j < trav[n].child \/ (j = trav[n].child /\ n < m)
          PROVE  j < t[n].child \/ (j = t[n].child /\ n < m)
      <4>1. CASE n = m
        <5>1. j < k /\ t[n].child = k + 1 /\ k \in Nat
          <6>1. k \in Nat /\ t[n].child = k + 1
            <7>1. k \in Nat
              BY <1>1, <1>2
            <7> HIDE DEF b, k, m
            <7> QED BY <1>5, <4>1, <7>1
          <6>2. ~(n < m)
            BY <1>1, <4>1
          <6>3. j < trav[m].child
            <7> HIDE DEF m
            <7> QED BY <3>4, <4>1, <6>2
          <6> QED BY <6>1, <6>3
        <5>2. j \in Nat
          <6>1. DOMAIN kids[c] = 1 .. Len(kids[c])
            BY TreeFacts
          <6> QED BY <6>1
        <5> HIDE DEF k
        <5> QED BY <5>1, <5>2
      <4>2. CASE n # m
        BY <1>1, <1>5, <3>4, <4>2
      <4> QED BY <4>1, <4>2
    <3> HIDE DEF kid
    <3> QED BY <1>1, <1>5, <1>6, <3>2, <3>3, <3>4
  <2> QED BY <2>1, <2>2
<1>10. Visited(kids, t, into, seen)
  <2> HIDE DEF seen, m
  <2> QED BY <1>5, <1>7, <1>8, <1>9 DEF Visited
<1> QED BY <1>1, <1>10 DEF t

LEMMA VisitInto ==
    ASSUME NEW kids, IsTree(kids), NEW trav, NEW at, Stands(kids, trav, at),
           NEW into, NEW past, Visited(kids, trav, into, past),
           Last(trav).child <= Len(kids[Last(trav).node]),
           NEW kid \in Branch, kid = kids[Last(trav).node][Last(trav).child]
    PROVE  Visited(kids, Append(trav, [node |-> kid, child |-> 1]), into \cup {kid}, past)
<1> Descends(kids)
  BY DEF IsTree
<1> DEFINE m == Len(trav)
           top == trav[m]
           b == top.node
           k == top.child
           t == Append(trav, [node |-> kid, child |-> 1])
           seen == into \cup {kid}
<1>1. /\ m \in Nat /\ m > 0 /\ Last(trav) = top /\ DOMAIN trav = 1 .. m
      /\ trav \in Seq(Steps)
      /\ \A n \in 1 .. m : trav[n].node \in Branch /\ trav[n].child \in Nat \ {0}
  BY StandsFacts
<1>2. m \in 1 .. m
  BY <1>1
<1>3. k \in DOMAIN kids[b]
  BY <1>1, StandPast
<1>4. kid \notin into \cup past
  BY <1>1, KidIsNew
<1>5. /\ Len(t) = m + 1 /\ DOMAIN t = 1 .. m + 1 /\ t[m + 1] = [node |-> kid, child |-> 1]
      /\ \A n \in 1 .. m : t[n] = trav[n]
  <2>1. [node |-> kid, child |-> 1] \in Steps
    BY DEF Steps
  <2> QED BY <1>1, <2>1
<1> HIDE DEF t
<1>6. seen \subseteq Branch /\ past \subseteq Nodes
  BY DEF Visited
<1>7. \A n \in DOMAIN t : t[n].node \in seen \ past
  <2> SUFFICES ASSUME NEW n \in 1 .. m + 1
               PROVE  t[n].node \in seen \ past
    BY <1>5
  <2>1. CASE n = m + 1
    BY <1>4, <1>5, <2>1
  <2>2. CASE n # m + 1
    <3>1. n \in 1 .. m
      BY <1>1, <2>2
    <3>2. trav[n].node \in into \ past
      BY <1>1, <3>1 DEF Visited
    <3> QED BY <1>5, <3>1, <3>2
  <2> QED BY <2>1, <2>2
<1>8. ASSUME NEW x \in (seen \cup past) \ {Root}
      PROVE  \E c \in Branch : \E j \in DOMAIN kids[c] :
               /\ kids[c][j] = x
               /\ \/ c \in past
                  \/ \E n \in DOMAIN t :
                       /\ t[n].node = c
                       /\ \/ j < t[n].child
                          \/ j = t[n].child /\ n < m + 1
  <2>1. CASE x = kid
    <3>1. k = t[m].child /\ t[m].node = b /\ m \in DOMAIN t /\ m < m + 1
      BY <1>1, <1>2, <1>5
    <3>2. b \in Branch /\ kids[b][k] = kid
      BY <1>1, <1>2
    <3> HIDE DEF b, k, m
    <3> QED BY <1>3, <2>1, <3>1, <3>2
  <2>2. CASE x # kid
    <3>1. PICK c \in Branch : \E j \in DOMAIN kids[c] :
            /\ kids[c][j] = x
            /\ \/ c \in past
               \/ \E n \in DOMAIN trav :
                    /\ trav[n].node = c
                    /\ \/ j < trav[n].child
                       \/ j = trav[n].child /\ n < m
      BY <2>2 DEF Visited
    <3>2. \A n \in DOMAIN trav : n \in DOMAIN t /\ t[n] = trav[n] /\ (n < m => n < m + 1)
      BY <1>1, <1>5
    <3> HIDE DEF m
    <3> QED BY <3>1, <3>2
  <2> QED BY <2>1, <2>2
<1>9. Visited(kids, t, seen, past)
  <2> HIDE DEF seen, m
  <2> QED BY <1>5, <1>6, <1>7, <1>8 DEF Visited
<1> QED BY <1>9 DEF t

LEMMA VisitOut ==
    ASSUME NEW kids, Descends(kids), NEW trav, NEW at, Stands(kids, trav, at),
           NEW into, NEW past, Visited(kids, trav, into, past), Len(trav) # 1
    PROVE  /\ Last(trav).node \in Nodes \ past
           /\ Visited(kids, AdvanceAt(Front(trav), Len(trav) - 1), into,
                      past \cup {Last(trav).node})
<1> DEFINE m == Len(trav)
           l == m - 1
           top == trav[m]
           b == top.node
           front == Front(trav)
           t == AdvanceAt(front, l)
           seen == past \cup {b}
<1>1. /\ m \in Nat /\ m > 0 /\ Last(trav) = top /\ DOMAIN trav = 1 .. m
      /\ trav \in Seq(Steps)
      /\ \A n \in 1 .. m : trav[n].node \in Branch /\ trav[n].child \in Nat \ {0}
  BY StandsFacts
<1>2. l \in 1 .. m /\ l \in Nat /\ l > 0 /\ l + 1 = m /\ m \in 1 .. m
  BY <1>1
<1>3. /\ Len(t) = l /\ DOMAIN t = 1 .. l
      /\ t[l] = [node |-> trav[l].node, child |-> trav[l].child + 1]
      /\ \A n \in 1 .. l : n # l => t[n] = trav[n]
  <2>1. /\ front \in Seq(Steps) /\ Len(front) = l
        /\ \A n \in 1 .. l : front[n] = trav[n]
    BY <1>1, <1>2 DEF Front
  <2> HIDE DEF front
  <2>2. l \in 1 .. Len(front)
    BY <1>2, <2>1
  <2> HIDE DEF l
  <2>3. /\ t \in Seq(Steps) /\ Len(t) = Len(front)
        /\ t[l] = [node |-> front[l].node, child |-> front[l].child + 1]
        /\ \A n \in 1 .. Len(front) : n # l => t[n] = front[n]
    BY <2>1, <2>2, Advanced
  <2>4. DOMAIN t = 1 .. Len(t)
    <3> HIDE DEF t
    <3> QED BY <2>3
  <2> QED BY <2>1, <2>2, <2>3, <2>4
<1> HIDE DEF front, t
<1>4. b \in into \ past /\ b \in Nodes
  BY <1>1, <1>2 DEF Visited, Nodes
<1>5. into \subseteq Branch /\ seen \subseteq Nodes
  BY <1>4 DEF Visited
<1>6. \A n \in 1 .. l : n \in 1 .. m /\ n # m /\ t[n].node = trav[n].node
  <2> SUFFICES ASSUME NEW n \in 1 .. l
               PROVE  n \in 1 .. m /\ n # m /\ t[n].node = trav[n].node
    OBVIOUS
  <2>1. n \in 1 .. m /\ n # m
    <3>1. l \in Nat /\ l + 1 = m
      BY <1>2
    <3> HIDE DEF l, m
    <3> QED BY <3>1
  <2> QED BY <1>3, <2>1
<1>7. \A n \in DOMAIN t : t[n].node \in into \ seen
  <2> SUFFICES ASSUME NEW n \in 1 .. l
               PROVE  trav[n].node \in into \ seen
    BY <1>3, <1>6
  <2>1. trav[n].node \in into \ past
    BY <1>1, <1>6 DEF Visited
  <2>2. trav[n].node # b
    BY <1>2, <1>6, StackDistinct
  <2> QED BY <2>1, <2>2
<1>8. ASSUME NEW x \in (into \cup seen) \ {Root}
      PROVE  \E c \in Branch : \E j \in DOMAIN kids[c] :
               /\ kids[c][j] = x
               /\ \/ c \in seen
                  \/ \E n \in DOMAIN t :
                       /\ t[n].node = c
                       /\ \/ j < t[n].child
                          \/ j = t[n].child /\ n < l
  <2>1. PICK c \in Branch : \E j \in DOMAIN kids[c] :
          /\ kids[c][j] = x
          /\ \/ c \in past
             \/ \E n \in DOMAIN trav :
                  /\ trav[n].node = c
                  /\ \/ j < trav[n].child
                     \/ j = trav[n].child /\ n < m
    <3>1. x \in (into \cup past) \ {Root}
      BY <1>4
    <3> QED BY <3>1 DEF Visited
  <2>2. PICK j \in DOMAIN kids[c] :
          /\ kids[c][j] = x
          /\ \/ c \in past
             \/ \E n \in DOMAIN trav :
                  /\ trav[n].node = c
                  /\ \/ j < trav[n].child
                     \/ j = trav[n].child /\ n < m
    BY <2>1
  <2>3. CASE c \in past
    BY <2>2, <2>3
  <2>4. ASSUME NEW n \in DOMAIN trav, trav[n].node = c,
               j < trav[n].child \/ (j = trav[n].child /\ n < m)
        PROVE  \/ c = b
               \/ n \in DOMAIN t /\ t[n].node = c
                  /\ (j < t[n].child \/ (j = t[n].child /\ n < l))
    <3>1. CASE n = m
      BY <2>4, <3>1
    <3>2. CASE n = l
      <4>1. t[n].child = trav[n].child + 1 /\ n \in DOMAIN t /\ t[n].node = c
        <5>1. l \in 1 .. l
          BY <1>2
        <5> HIDE DEF l, m
        <5>2. t[l].child = trav[l].child + 1 /\ l \in DOMAIN t /\ t[l].node = trav[l].node
          BY <1>3, <5>1
        <5> QED BY <2>4, <3>2, <5>2
      <4>2. j \in Nat /\ trav[n].child \in Nat
        <5>1. DOMAIN kids[c] = 1 .. Len(kids[c])
          BY TreeFacts
        <5> QED BY <1>1, <5>1
      <4>3. j < trav[n].child \/ j = trav[n].child
        BY <2>4
      <4>4. j < t[n].child
        <5> DEFINE y == trav[n].child
                   z == t[n].child
        <5>1. z = y + 1 /\ y \in Nat /\ j \in Nat /\ (j < y \/ j = y)
          BY <4>1, <4>2, <4>3
        <5> HIDE DEF y, z
        <5>2. j < z
          BY <5>1
        <5> QED BY <5>2 DEF z
      <4> QED BY <4>1, <4>4
    <3>3. CASE n # m /\ n # l
      <4>1. n \in 1 .. l /\ n < l
        <5>1. n \in 1 .. m /\ m \in Nat /\ l + 1 = m /\ l \in Nat
          BY <1>1, <1>2
        <5> HIDE DEF l, m
        <5> QED BY <3>3, <5>1
      <4>2. t[n] = trav[n] /\ n \in DOMAIN t
        BY <1>3, <3>3, <4>1
      <4> QED BY <2>4, <4>1, <4>2
    <3> QED BY <3>1, <3>2, <3>3
  <2> HIDE DEF l, m
  <2> QED BY <2>2, <2>3, <2>4
<1>9. Visited(kids, t, into, seen)
  <2> HIDE DEF seen, l
  <2> QED BY <1>3, <1>5, <1>7, <1>8 DEF Visited
<1> QED BY <1>1, <1>4, <1>9 DEF t, front

(* So there is a bound on the number of moves.                             *)
Moves(kids, trav, n) ==
    \E into, past : /\ Visited(kids, trav, into, past) /\ Root \in into
                    /\ n <= Cardinality(into) + Cardinality(past)

LEMMA VisitedBound ==
    ASSUME NEW kids, NEW trav, NEW into, NEW past, Visited(kids, trav, into, past)
    PROVE  /\ IsFiniteSet(into) /\ IsFiniteSet(past)
           /\ Cardinality(into) \in Nat /\ Cardinality(past) \in Nat
           /\ MaxTurns \in Nat /\ Cardinality(into) + Cardinality(past) <= MaxTurns
<1>1. IsFiniteSet(Branch) /\ IsFiniteSet(Page) /\ Branch \cap Page = {}
  BY NodesAssumption
<1>2. IsFiniteSet(Nodes) /\ Cardinality(Nodes) = Cardinality(Branch) + Cardinality(Page)
  <2>1. /\ IsFiniteSet(Branch \cup Page)
        /\ Cardinality(Branch \cup Page)
             = Cardinality(Branch) + Cardinality(Page) - Cardinality(Branch \cap Page)
    BY <1>1, FS_Union
  <2>2. /\ Cardinality(Branch \cap Page) = 0
        /\ Cardinality(Branch) \in Nat /\ Cardinality(Page) \in Nat
    BY <1>1, FS_EmptySet, FS_CardinalityType
  <2> QED BY <2>1, <2>2 DEF Nodes
<1>3. IsFiniteSet(into) /\ Cardinality(into) <= Cardinality(Branch)
  BY <1>1, FS_Subset DEF Visited
<1>4. IsFiniteSet(past) /\ Cardinality(past) <= Cardinality(Nodes)
  BY <1>2, FS_Subset DEF Visited
<1>5. /\ Cardinality(into) \in Nat /\ Cardinality(past) \in Nat
      /\ Cardinality(Branch) \in Nat /\ Cardinality(Page) \in Nat
  BY <1>1, <1>3, <1>4, FS_CardinalityType
<1>6. MaxTurns \in Nat /\ Cardinality(into) + Cardinality(past) <= MaxTurns
  BY <1>2, <1>3, <1>4, <1>5 DEF MaxTurns
<1> QED BY <1>3, <1>4, <1>5, <1>6

LEMMA MovesBound ==
    ASSUME NEW kids, NEW trav, NEW n \in Nat, Moves(kids, trav, n)
    PROVE  MaxTurns \in Nat /\ n <= MaxTurns
<1>1. PICK into, past : /\ Visited(kids, trav, into, past)
                        /\ n <= Cardinality(into) + Cardinality(past)
  BY DEF Moves
<1> QED BY <1>1, VisitedBound

(* One element more.                                                       *)
LEMMA OneMore ==
    ASSUME NEW S, IsFiniteSet(S), NEW x, x \notin S
    PROVE  Cardinality(S \cup {x}) = Cardinality(S) + 1
BY FS_AddElement

LEMMA MovesStart ==
    ASSUME NEW kids, Descends(kids), NEW trav, NEW at, Stands(kids, trav, at)
    PROVE  Moves(kids, trav, 1)
<1> DEFINE into == {trav[n].node : n \in 1 .. Len(trav)}
<1>1. Visited(kids, trav, into, {}) /\ Root \in into
  BY VisitStart
<1> HIDE DEF into
<1>2. Cardinality(into) + Cardinality({}) >= 1
  <2>1. IsFiniteSet(into) /\ Cardinality(into) \in Nat
    BY <1>1, VisitedBound
  <2>2. Cardinality(into) # 0
    BY <1>1, <2>1, FS_EmptySet
  <2>3. Cardinality({}) = 0
    BY FS_EmptySet
  <2> QED BY <2>1, <2>2, <2>3
<1>3. 1 <= Cardinality(into) + Cardinality({})
  <2>1. Cardinality(into) \in Nat /\ Cardinality({}) \in Nat
    BY <1>1, VisitedBound
  <2> QED BY <1>2, <2>1
<1> QED BY <1>1, <1>3 DEF Moves

LEMMA MovesPast ==
    ASSUME NEW kids, IsTree(kids), NEW trav, NEW at, Stands(kids, trav, at),
           NEW n \in Nat, Moves(kids, trav, n),
           Last(trav).child <= Len(kids[Last(trav).node])
    PROVE  Moves(kids, AdvanceAt(trav, Len(trav)), n + 1)
<1> Descends(kids)
  BY DEF IsTree
<1> DEFINE kid == kids[Last(trav).node][Last(trav).child]
           t == AdvanceAt(trav, Len(trav))
<1>1. PICK into, past : /\ Visited(kids, trav, into, past) /\ Root \in into
                        /\ n <= Cardinality(into) + Cardinality(past)
  BY DEF Moves
<1>2. Visited(kids, t, into, past \cup {kid})
  BY <1>1, VisitPast
<1>3. kid \notin past
  BY <1>1, KidIsNew
<1> HIDE DEF kid, t
<1>4. /\ Cardinality(past \cup {kid}) = Cardinality(past) + 1
      /\ Cardinality(into) \in Nat /\ Cardinality(past) \in Nat
  BY <1>1, <1>3, VisitedBound, OneMore
<1>5. n + 1 <= Cardinality(into) + Cardinality(past \cup {kid})
  BY <1>1, <1>4
<1>6. Moves(kids, t, n + 1)
  BY <1>1, <1>2, <1>5 DEF Moves
<1> QED BY <1>6 DEF t

LEMMA MovesInto ==
    ASSUME NEW kids, IsTree(kids), NEW trav, NEW at, Stands(kids, trav, at),
           NEW n \in Nat, Moves(kids, trav, n),
           Last(trav).child <= Len(kids[Last(trav).node]),
           NEW kid \in Branch, kid = kids[Last(trav).node][Last(trav).child]
    PROVE  Moves(kids, Append(trav, [node |-> kid, child |-> 1]), n + 1)
<1> Descends(kids)
  BY DEF IsTree
<1> DEFINE t == Append(trav, [node |-> kid, child |-> 1])
<1>1. PICK into, past : /\ Visited(kids, trav, into, past) /\ Root \in into
                        /\ n <= Cardinality(into) + Cardinality(past)
  BY DEF Moves
<1>2. Visited(kids, t, into \cup {kid}, past)
  BY <1>1, VisitInto
<1>3. kid \notin into
  BY <1>1, KidIsNew
<1> HIDE DEF t
<1>4. /\ Cardinality(into \cup {kid}) = Cardinality(into) + 1
      /\ Cardinality(into) \in Nat /\ Cardinality(past) \in Nat
  BY <1>1, <1>3, VisitedBound, OneMore
<1>5. n + 1 <= Cardinality(into \cup {kid}) + Cardinality(past) /\ Root \in into \cup {kid}
  BY <1>1, <1>4
<1>6. Moves(kids, t, n + 1)
  BY <1>2, <1>5 DEF Moves
<1> QED BY <1>6 DEF t

LEMMA MovesOut ==
    ASSUME NEW kids, Descends(kids), NEW trav, NEW at, Stands(kids, trav, at),
           NEW n \in Nat, Moves(kids, trav, n), Len(trav) # 1
    PROVE  Moves(kids, AdvanceAt(Front(trav), Len(trav) - 1), n + 1)
<1> DEFINE node == Last(trav).node
           t == AdvanceAt(Front(trav), Len(trav) - 1)
<1>1. PICK into, past : /\ Visited(kids, trav, into, past) /\ Root \in into
                        /\ n <= Cardinality(into) + Cardinality(past)
  BY DEF Moves
<1>2. Visited(kids, t, into, past \cup {node}) /\ node \notin past
  BY <1>1, VisitOut
<1> HIDE DEF node, t
<1>4. /\ Cardinality(past \cup {node}) = Cardinality(past) + 1
      /\ Cardinality(into) \in Nat /\ Cardinality(past) \in Nat
  BY <1>1, <1>2, VisitedBound, OneMore
<1>5. n + 1 <= Cardinality(into) + Cardinality(past \cup {node})
  BY <1>1, <1>4
<1>6. Moves(kids, t, n + 1)
  BY <1>1, <1>2, <1>5 DEF Moves
<1> QED BY <1>6 DEF t

-----------------------------------------------------------------------------
(* A lookup under way.                                                     *)

(* What no turn changes.                                                   *)
SameTree(d, e) ==
    e.kids = d.kids /\ e.count = d.count /\ e.parent = d.parent /\ e.next = d.next

LEMMA TurnFields ==
    ASSUME NEW w \in Walks, w.doc.trav # <<>>
    PROVE  LET v    == Turn(w)
               trav == w.doc.trav
               top  == Last(trav)
               list == w.doc.kids[top.node]
               kid  == list[top.child]
           IN  /\ SameTree(w.doc, v.doc) /\ v.unread = w.unread /\ v.wanted = w.wanted
               /\ top.child > Len(list) =>
                    /\ v.doc.trav = IF Len(trav) = 1 THEN <<>>
                                    ELSE AdvanceAt(Front(trav), Len(trav) - 1)
                    /\ v.doc.list = w.doc.list /\ v.togo = w.togo /\ v.found = w.found
               /\ ~(top.child > Len(list)) =>
                    /\ w.togo = 0 => v = w
                    /\ w.togo # 0 /\ kid \in Page \ w.unread =>
                         /\ v.doc.trav = AdvanceAt(trav, Len(trav))
                         /\ v.doc.list = [w.doc.list EXCEPT ![w.wanted - w.togo + 2] = kid]
                         /\ v.togo = w.togo - 1
                         /\ v.found = IF w.togo = 1 THEN kid ELSE None
                    /\ w.togo # 0 /\ kid \notin Page \cup w.unread =>
                         /\ v.doc.trav = Append(trav, [node |-> kid, child |-> 1])
                         /\ v.doc.list = w.doc.list /\ v.togo = w.togo /\ v.found = w.found
<1> DEFINE v == Turn(w)
           trav == w.doc.trav
           top == Last(trav)
           list == w.doc.kids[top.node]
           kid == list[top.child]
<1>1. CASE top.child > Len(list)
  <2>1. v = Leave(w)
    BY <1>1 DEF Turn
  <2> QED BY <1>1, <2>1 DEF Leave, SameTree, Walks, DocType
<1>2. CASE ~(top.child > Len(list)) /\ w.togo = 0
  <2>1. v = w
    BY <1>2 DEF Turn
  <2> QED BY <1>2, <2>1 DEF SameTree
<1>3. CASE ~(top.child > Len(list)) /\ w.togo # 0
  <2>1. v = CASE kid \in w.unread -> PassNull(w)
              [] kid \in Page \ w.unread -> CountLeaf(w, kid)
              [] OTHER -> Enter(w, kid)
    BY <1>3 DEF Turn
  <2>2. CASE kid \in w.unread
    <3>1. v = PassNull(w)
      BY <2>1, <2>2
    <3>2. SameTree(w.doc, v.doc) /\ v.unread = w.unread /\ v.wanted = w.wanted
      BY <3>1 DEF PassNull, NextChild, SameTree, Walks, DocType
    <3> QED BY <1>3, <2>2, <3>2
  <2>3. CASE kid \in Page \ w.unread
    <3> DEFINE found == IF w.togo = 1 THEN kid ELSE None
               x == w.wanted - w.togo + 2
               changed == [w.doc.list EXCEPT ![x] = kid]
               u == [w EXCEPT !.doc.list[x] = kid, !.togo = @ - 1, !.found = found]
    <3>1. v = [u EXCEPT !.doc.trav = AdvanceAt(@, Len(@))]
      BY <2>1, <2>3 DEF CountLeaf, NextChild
    <3> HIDE DEF v, found, x, kid
    <3>2. /\ u.doc = [w.doc EXCEPT !.list = changed] /\ u.togo = w.togo - 1
          /\ u.found = found /\ u.unread = w.unread /\ u.wanted = w.wanted
      BY DEF Walks, DocType
    <3>3. u.doc.trav = trav /\ u.doc.list = changed /\ SameTree(w.doc, u.doc)
      BY <3>2 DEF Walks, DocType, SameTree
    <3>4. u \in [doc : {u.doc}, unread : {u.unread}, wanted : {u.wanted},
                 togo : {u.togo}, found : {u.found}]
      BY <3>2 DEF Walks
    <3>5. u.doc \in [kids : {u.doc.kids}, count : {u.doc.count}, parent : {u.doc.parent},
                     list : {u.doc.list}, trav : {u.doc.trav}, next : {u.doc.next}]
      BY <3>2 DEF Walks, DocType
    <3> HIDE DEF changed, u
    <3>6. /\ v.doc.trav = AdvanceAt(u.doc.trav, Len(u.doc.trav)) /\ v.doc.list = u.doc.list
          /\ SameTree(u.doc, v.doc) /\ v.togo = u.togo /\ v.found = u.found
          /\ v.unread = u.unread /\ v.wanted = u.wanted
      BY <3>1, <3>4, <3>5 DEF SameTree
    <3>7. SameTree(w.doc, v.doc)
      BY <3>3, <3>6 DEF SameTree
    <3> QED BY <1>3, <2>3, <3>2, <3>3, <3>6, <3>7 DEF changed, found, x, v, kid
  <2>4. CASE kid \notin Page \cup w.unread
    <3>1. v = Enter(w, kid)
      BY <2>1, <2>4
    <3> HIDE DEF kid, v
    <3>2. /\ SameTree(w.doc, v.doc) /\ v.unread = w.unread /\ v.wanted = w.wanted
          /\ v.doc.trav = Append(trav, [node |-> kid, child |-> 1])
          /\ v.doc.list = w.doc.list /\ v.togo = w.togo /\ v.found = w.found
      BY <3>1 DEF Enter, SameTree, Walks, DocType
    <3> QED BY <1>3, <2>4, <3>2 DEF kid, v
  <2> QED BY <2>2, <2>3, <2>4
<1> QED BY <1>1, <1>2, <1>3

(* page_list_ agrees with the pages there are: nothing in it is wrong, and *)
(* the known places are filled.                                            *)
Cached(list, L, known) ==
    /\ Len(list) = Len(L)
    /\ \A x \in 1 .. Len(L) : /\ list[x] \in {None, L[x]}
                              /\ x \in known => list[x] = L[x]

(* What a walk meets on the way to a page can be read.                     *)
CanRead(kids, unread, i) ==
    \A trav, at :
      LET top == Last(trav)
      IN  /\ Stands(kids, trav, at) /\ Here(kids, trav, at) <= i
          /\ top.child <= Len(kids[top.node])
          => kids[top.node][top.child] \notin unread

Walking(w, at, known) ==
    LET kids == w.doc.kids
        L    == Leaves(kids, Root)
        here == Here(kids, w.doc.trav, at)
    IN  /\ Stands(kids, w.doc.trav, at)
        /\ w.wanted \in 0 .. Len(L) - 1 /\ w.togo \in Nat /\ here + w.togo = w.wanted + 1
        /\ Cached(w.doc.list, L, known \cup (1 .. here))
        /\ w.togo = 0 => w.found = L[w.wanted + 1]

Arrived(w, known) ==
    LET L == Leaves(w.doc.kids, Root)
    IN  /\ w.wanted \in 0 .. Len(L) - 1
        /\ Cached(w.doc.list, L, known \cup (1 .. w.wanted + 1))
        /\ w.found = L[w.wanted + 1]

LEMMA CacheLeaf ==
    ASSUME NEW L \in Seq(Page), NEW list \in Seq(Page \cup {None}), NEW known,
           NEW here \in Nat, here < Len(L), Cached(list, L, known \cup (1 .. here))
    PROVE  Cached([list EXCEPT ![here + 1] = L[here + 1]], L, known \cup (1 .. here + 1))
<1> DEFINE h == here + 1
           new == [list EXCEPT ![h] = L[h]]
           n == Len(L)
<1>1. n \in Nat /\ h \in 1 .. n /\ L[h] \in Page \cup {None} /\ Len(list) = n
  BY DEF Cached
<1>2. Len(new) = n
  <2>1. Len(new) = Len(list)
    <3> DEFINE S == Page \cup {None}
               e == L[h]
    <3>1. e \in S /\ list \in Seq(S)
      BY <1>1
    <3> HIDE DEF S, e
    <3> QED BY <3>1, ReplacedAt
  <2> QED BY <1>1, <2>1
<1>3. DOMAIN list = 1 .. n
  BY <1>1
<1>4. \A x \in 1 .. n : x \in 1 .. h => x = h \/ x \in 1 .. here
  BY DEF h
<1> HIDE DEF h
<1>5. \A x \in 1 .. n : new[x] = IF x = h THEN L[h] ELSE list[x]
  BY <1>1, <1>3
<1> HIDE DEF new, n
<1>6. ASSUME NEW x \in 1 .. n
      PROVE  /\ new[x] \in {None, L[x]}
             /\ x \in known \cup (1 .. h) => new[x] = L[x]
  <2>1. CASE x = h
    BY <1>1, <1>5, <2>1
  <2>2. CASE x # h
    <3>1. list[x] \in {None, L[x]} /\ (x \in known \cup (1 .. here) => list[x] = L[x])
      BY DEF Cached, n
    <3>2. x \in known \cup (1 .. h) => x \in known \cup (1 .. here)
      BY <1>4, <2>2
    <3> QED BY <1>5, <2>2, <3>1, <3>2
  <2> QED BY <2>1, <2>2
<1> QED BY <1>2, <1>6 DEF Cached, n, new, h

(* One turn of a lookup under way: it is over, or has moved on.            *)
LEMMA WalkOn ==
    ASSUME NEW w \in Walks, IsTree(w.doc.kids), NEW known, NEW at, Walking(w, at, known),
           CanRead(w.doc.kids, w.unread, w.wanted),
           NEW n \in Nat, Moves(w.doc.kids, w.doc.trav, n)
    PROVE  LET v == Turn(w)
           IN  /\ SameTree(w.doc, v.doc) /\ v.unread = w.unread /\ v.wanted = w.wanted
               /\ \/ v = w /\ w.togo = 0
                  \/ /\ v.doc.trav # <<>> /\ (\E a : Walking(v, a, known))
                     /\ Moves(v.doc.kids, v.doc.trav, n + 1)
                  \/ v.doc.trav = <<>> /\ Arrived(v, known)
<1> DEFINE v == Turn(w)
           kids == w.doc.kids
           trav == w.doc.trav
           m == Len(trav)
           top == Last(trav)
           list == kids[top.node]
           kid == list[top.child]
           here == Here(kids, trav, at)
           L == Leaves(kids, Root)
<1> Descends(kids)
  BY DEF IsTree
<1>1. /\ Stands(kids, trav, at) /\ trav # <<>> /\ m \in Nat /\ m > 0 /\ top = trav[m]
      /\ top.node \in Branch /\ top.child \in Nat \ {0} /\ here \in Nat /\ here <= Len(L)
  <2>1. Stands(kids, trav, at)
    BY DEF Walking
  <2>2. /\ m \in Nat /\ m > 0 /\ top = trav[m] /\ here \in Nat /\ here <= Len(L)
        /\ \A k \in 1 .. m : trav[k].node \in Branch /\ trav[k].child \in Nat \ {0}
    BY <2>1, StandsFacts
  <2>3. m \in 1 .. m
    BY <2>2
  <2>4. trav # <<>>
    BY <2>1 DEF Stands
  <2>5. trav[m].node \in Branch /\ trav[m].child \in Nat \ {0}
    BY <2>2, <2>3
  <2> HIDE DEF m, top
  <2> QED BY <2>1, <2>2, <2>4, <2>5
<1>2. /\ w.wanted \in 0 .. Len(L) - 1 /\ w.togo \in Nat /\ here + w.togo = w.wanted + 1
      /\ Cached(w.doc.list, L, known \cup (1 .. here))
      /\ w.togo = 0 => w.found = L[w.wanted + 1]
  BY DEF Walking
<1>3. L \in Seq(Page) /\ Len(L) \in Nat /\ w.doc.list \in Seq(Page \cup {None})
  <2>1. L \in Seq(Page)
    BY LeavesTyped, NodesAssumption DEF Nodes
  <2>2. w.doc.list \in Seq(Page \cup {None})
    BY DEF Walks, DocType
  <2> QED BY <2>1, <2>2
<1>4. /\ SameTree(w.doc, v.doc) /\ v.unread = w.unread /\ v.wanted = w.wanted
      /\ top.child > Len(list) =>
           /\ v.doc.trav = IF m = 1 THEN <<>> ELSE AdvanceAt(Front(trav), m - 1)
           /\ v.doc.list = w.doc.list /\ v.togo = w.togo /\ v.found = w.found
      /\ ~(top.child > Len(list)) =>
           /\ w.togo = 0 => v = w
           /\ w.togo # 0 /\ kid \in Page \ w.unread =>
                /\ v.doc.trav = AdvanceAt(trav, m)
                /\ v.doc.list = [w.doc.list EXCEPT ![w.wanted - w.togo + 2] = kid]
                /\ v.togo = w.togo - 1
                /\ v.found = IF w.togo = 1 THEN kid ELSE None
           /\ w.togo # 0 /\ kid \notin Page \cup w.unread =>
                /\ v.doc.trav = Append(trav, [node |-> kid, child |-> 1])
                /\ v.doc.list = w.doc.list /\ v.togo = w.togo /\ v.found = w.found
  BY <1>1, TurnFields
<1>5. v.doc.kids = kids
  BY <1>4 DEF SameTree
<1> HIDE DEF v
<1>6. Len(list) \in Nat
  <2>1. Descends(kids) /\ top.node \in Branch
    BY <1>1
  <2> HIDE DEF kids, top, here, L
  <2>2. Len(kids[top.node]) \in Nat
    BY <2>1, TreeFacts
  <2> QED BY <2>2
<1>7. CASE top.child > Len(list)
  <2>1. ~(top.child <= Len(list))
    <3> DEFINE place == top.child
               last == Len(list)
    <3>1. place \in Nat /\ last \in Nat /\ place > last
      BY <1>1, <1>6, <1>7
    <3> HIDE DEF place, last
    <3>2. ~(place <= last)
      BY <3>1
    <3> QED BY <3>2 DEF place, last
  <2>2. CASE m = 1
    <3>1. here = Len(L)
      BY <1>1, <2>1, <2>2, StandOut
    <3>2. w.togo = 0 /\ here = w.wanted + 1
      <4> HIDE DEF here, L
      <4> QED BY <1>2, <1>3, <3>1
    <3>3. v.doc.trav = <<>> /\ v.doc.list = w.doc.list /\ v.found = w.found
      BY <1>4, <1>7, <2>2
    <3>4. Arrived(v, known)
      <4> HIDE DEF here, kids
      <4> QED BY <1>2, <1>4, <1>5, <3>2, <3>3 DEF Arrived
    <3> QED BY <1>4, <3>3, <3>4 DEF v
  <2>3. CASE m # 1
    <3> DEFINE t == AdvanceAt(Front(trav), m - 1)
               a == Front(at)
    <3>1. Stands(kids, t, a) /\ Here(kids, t, a) = here
      BY <1>1, <2>1, <2>3, StandOut
    <3>2. Moves(kids, t, n + 1)
      BY <1>1, <2>3, MovesOut
    <3>3. v.doc.trav = t /\ v.doc.list = w.doc.list /\ v.togo = w.togo /\ v.found = w.found
      BY <1>4, <1>7, <2>3
    <3> HIDE DEF t, a
    <3>4. Walking(v, a, known)
      <4> HIDE DEF here, kids
      <4> QED BY <1>2, <1>4, <1>5, <3>1, <3>3 DEF Walking
    <3>5. t # <<>>
      BY <3>1 DEF Stands
    <3> QED BY <1>4, <1>5, <3>2, <3>3, <3>4, <3>5 DEF v
  <2> QED BY <2>2, <2>3
<1>8. CASE ~(top.child > Len(list)) /\ w.togo = 0
  BY <1>4, <1>8 DEF v
<1>9. CASE ~(top.child > Len(list)) /\ w.togo # 0
  <2>1. top.child <= Len(list)
    <3> HIDE DEF top, list
    <3> QED BY <1>1, <1>6, <1>9
  <2>2. top.child \in DOMAIN list /\ kid \in Nodes /\ Sits(kids, kid, here)
    BY <1>1, <2>1, StandPast
  <2>3. here <= w.wanted
    <3> HIDE DEF here, L
    <3> QED BY <1>1, <1>2, <1>9
  <2>4. kid \notin w.unread
    BY <1>1, <2>1, <2>3 DEF CanRead
  <2>5. CASE kid \in Page
    <3> DEFINE t == AdvanceAt(trav, m)
    <3>1. Leaves(kids, kid) = <<kid>> /\ Len(<<kid>>) = 1 /\ (<<kid>>)[1] = kid /\ 1 \in 1 .. 1
      BY <2>5, LeavesUnfold
    <3>2. here + 1 <= Len(L) /\ L[here + 1] = kid
      <4> HIDE DEF here, L, kid
      <4> QED BY <2>2, <3>1 DEF Sits, L
    <3>3. Stands(kids, t, at) /\ Here(kids, t, at) = here + 1
      <4>1. Stands(kids, t, at) /\ Here(kids, t, at) = here + Len(Leaves(kids, kid))
        BY <1>1, <2>1, StandPast
      <4> QED BY <3>1, <4>1
    <3>4. Moves(kids, t, n + 1)
      BY <1>1, <2>1, MovesPast
    <3>5. /\ v.doc.trav = t /\ v.togo = w.togo - 1
          /\ v.doc.list = [w.doc.list EXCEPT ![w.wanted - w.togo + 2] = kid]
          /\ v.found = IF w.togo = 1 THEN kid ELSE None
      BY <1>4, <1>9, <2>4, <2>5
    <3> HIDE DEF t, kid, here, L
    <3>6. w.wanted - w.togo + 2 = here + 1 /\ here < Len(L)
      <4> DEFINE x == w.wanted
                 y == w.togo
                 n1 == Len(L)
      <4>1. x \in 0 .. n1 - 1 /\ y \in Nat /\ here + y = x + 1 /\ here \in Nat /\ n1 \in Nat
        BY <1>1, <1>2, <1>3
      <4>2. here + 1 <= n1
        BY <3>2
      <4> HIDE DEF x, y, n1
      <4>3. x - y + 2 = here + 1 /\ here < n1
        BY <4>1, <4>2
      <4> QED BY <4>3 DEF x, y, n1
    <3>7. Cached(v.doc.list, L, known \cup (1 .. here + 1))
      <4> DEFINE old == w.doc.list
      <4>1. v.doc.list = [old EXCEPT ![here + 1] = L[here + 1]]
        BY <3>2, <3>5, <3>6
      <4>2. old \in Seq(Page \cup {None}) /\ Cached(old, L, known \cup (1 .. here))
        BY <1>2, <1>3
      <4> HIDE DEF old
      <4>3. Cached([old EXCEPT ![here + 1] = L[here + 1]], L, known \cup (1 .. here + 1))
        BY <1>1, <1>3, <3>6, <4>2, CacheLeaf
      <4> QED BY <4>1, <4>3
    <3>8. /\ v.togo \in Nat /\ (here + 1) + v.togo = w.wanted + 1
          /\ v.togo = 0 => v.found = L[w.wanted + 1]
      <4>1. w.togo \in Nat \ {0} /\ here + w.togo = w.wanted + 1 /\ v.togo = w.togo - 1
        BY <1>2, <1>9, <3>5
      <4>2. v.togo \in Nat /\ (here + 1) + v.togo = w.wanted + 1
        BY <1>1, <1>2, <4>1
      <4>3. v.togo = 0 => w.togo = 1 /\ w.wanted + 1 = here + 1
        BY <1>1, <1>2, <4>1
      <4> QED BY <3>2, <3>5, <4>2, <4>3
    <3>9. Walking(v, at, known)
      <4> HIDE DEF kids
      <4> QED BY <1>2, <1>4, <1>5, <3>3, <3>5, <3>7, <3>8 DEF Walking, L
    <3>10. t # <<>>
      BY <3>3 DEF Stands
    <3> QED BY <1>4, <1>5, <3>4, <3>5, <3>9, <3>10 DEF v
  <2>6. CASE kid \notin Page
    <3> DEFINE t == Append(trav, [node |-> kid, child |-> 1])
               a == Append(at, here)
    <3>1. kid \in Branch
      BY <2>2, <2>6 DEF Nodes
    <3>2. Stands(kids, t, a) /\ Here(kids, t, a) = here
      BY <1>1, <2>1, <3>1, StandInto
    <3>3. Moves(kids, t, n + 1)
      BY <1>1, <2>1, <3>1, MovesInto
    <3>4. v.doc.trav = t /\ v.doc.list = w.doc.list /\ v.togo = w.togo /\ v.found = w.found
      BY <1>4, <1>9, <2>4, <2>6
    <3> HIDE DEF t, a
    <3>5. Walking(v, a, known)
      <4> HIDE DEF here, kids
      <4> QED BY <1>2, <1>4, <1>5, <3>2, <3>4 DEF Walking
    <3>6. t # <<>>
      BY <3>2 DEF Stands
    <3> QED BY <1>4, <1>5, <3>3, <3>4, <3>5, <3>6 DEF v
  <2> QED BY <2>5, <2>6
<1> QED BY <1>7, <1>8, <1>9

(* The walk comes to the page wanted before it has had all its turns.      *)
LEMMA WalkArrives ==
    ASSUME NEW w \in Walks, IsTree(w.doc.kids), NEW known, NEW start, Walking(w, start, known),
           CanRead(w.doc.kids, w.unread, w.wanted)
    PROVE  LET v == TraversePDFPages(w)
           IN  /\ v \in Walks /\ SameTree(w.doc, v.doc) /\ v.wanted = w.wanted
               /\ Arrived(v, known)
               /\ v.doc.trav # <<>> =>
                    \E at : /\ Stands(v.doc.kids, v.doc.trav, at)
                            /\ Here(v.doc.kids, v.doc.trav, at) = v.wanted + 1
<1> DEFINE after == CHOOSE g : TurnsOf(w, g, MaxTurns)
           Kept(v) == /\ v \in Walks /\ SameTree(w.doc, v.doc)
                      /\ v.unread = w.unread /\ v.wanted = w.wanted
           On(v) == \E at : Walking(v, at, known)
           Over(v) == v.doc.trav = <<>> /\ Arrived(v, known)
           Held(v) == On(v) /\ v.togo = 0 /\ Turn(v) = v
           Under(v, n) == On(v) /\ Moves(v.doc.kids, v.doc.trav, n + 1)
           S == {n \in 0 .. MaxTurns : /\ Kept(after[n])
                                       /\ Over(after[n]) \/ Held(after[n]) \/ Under(after[n], n)}
<1>1. MaxTurns \in Nat
  BY NodesAssumption, FS_CardinalityType DEF MaxTurns
<1>2. TurnsOf(w, after, MaxTurns)
  BY <1>1, TurnsTaken
<1>3. w.togo \in Nat /\ TraversePDFPages(w) = after[MaxTurns]
  <2>1. TraversePDFPages(w) = IF w.togo < 0 THEN w ELSE after[MaxTurns]
    BY DEF TraversePDFPages, TurnsOf
  <2>2. w.togo \in Nat
    BY DEF Walking
  <2>3. ~(w.togo < 0)
    BY <2>2
  <2> QED BY <2>1, <2>2, <2>3
<1> HIDE DEF after
<1>4. after[0] = w
  BY <1>1, <1>2 DEF TurnsOf
<1>5. \A n \in 0 .. MaxTurns : n < MaxTurns => after[n + 1] = Turn(after[n])
  <2> SUFFICES ASSUME NEW n \in 0 .. MaxTurns, n < MaxTurns
               PROVE  after[n + 1] = Turn(after[n])
    OBVIOUS
  <2>1. n + 1 \in 0 .. MaxTurns /\ n + 1 # 0 /\ (n + 1) - 1 = n
    BY <1>1
  <2> QED BY <1>2, <2>1 DEF TurnsOf
<1>6. 0 \in S
  <2>1. Kept(w)
    BY DEF SameTree
  <2>2. Moves(w.doc.kids, w.doc.trav, 1) /\ 0 + 1 = 1
    <3>1. Descends(w.doc.kids) /\ Stands(w.doc.kids, w.doc.trav, start)
      BY DEF IsTree, Walking
    <3> QED BY <3>1, MovesStart
  <2>3. Under(w, 0)
    BY <2>2
  <2> HIDE DEF Kept, On, Over, Held, Under
  <2> QED BY <1>1, <1>4, <2>1, <2>3
<1>7. ASSUME NEW n \in 0 .. MaxTurns, n \in S, n < MaxTurns
      PROVE  n + 1 \in S
  <2> DEFINE u == after[n]
             v == after[n + 1]
  <2>1. v = Turn(u) /\ n + 1 \in 0 .. MaxTurns /\ n + 1 \in Nat /\ Kept(u)
    BY <1>1, <1>5, <1>7
  <2>2. CASE Over(u)
    <3>1. v = u
      BY <2>1, <2>2 DEF Turn
    <3> HIDE DEF Kept, On, Over, Held, Under
    <3> QED BY <2>1, <2>2, <3>1
  <2>3. CASE Held(u)
    <3>1. v = u
      BY <2>1, <2>3
    <3> HIDE DEF Kept, On, Over, Held, Under
    <3> QED BY <2>1, <2>3, <3>1
  <2>4. CASE Under(u, n)
    <3>1. PICK at : Walking(u, at, known)
      BY <2>4
    <3>2. /\ u \in Walks /\ IsTree(u.doc.kids) /\ CanRead(u.doc.kids, u.unread, u.wanted)
          /\ Moves(u.doc.kids, u.doc.trav, n + 1)
      BY <2>1, <2>4 DEF SameTree
    <3> HIDE DEF u, v
    <3>3. /\ SameTree(u.doc, v.doc) /\ v.unread = u.unread /\ v.wanted = u.wanted
          /\ \/ v = u /\ u.togo = 0
             \/ /\ v.doc.trav # <<>> /\ (\E a : Walking(v, a, known))
                /\ Moves(v.doc.kids, v.doc.trav, (n + 1) + 1)
             \/ v.doc.trav = <<>> /\ Arrived(v, known)
      BY <2>1, <3>1, <3>2, WalkOn
    <3>4. v \in Walks
      BY <2>1, <3>2, TurnTyped
    <3>5. Kept(v)
      BY <2>1, <3>3, <3>4 DEF SameTree
    <3>6. Over(v) \/ Held(v) \/ Under(v, n + 1)
      BY <2>1, <3>1, <3>3
    <3> HIDE DEF Kept, On, Over, Held, Under
    <3> QED BY <2>1, <3>5, <3>6 DEF v
  <2> HIDE DEF Kept, On, Over, Held, Under
  <2> QED BY <1>7, <2>2, <2>3, <2>4
<1> DEFINE v == after[MaxTurns]
<1>8. MaxTurns \in S
  <2> HIDE DEF S
  <2>1. 0 .. MaxTurns \subseteq S
    BY <1>1, <1>6, <1>7, UpToBound
  <2> QED BY <1>1, <2>1
<1>9. Kept(v) /\ (Over(v) \/ Held(v) \/ Under(v, MaxTurns))
  BY <1>8
<1>10. ~Under(v, MaxTurns)
  <2> SUFFICES ASSUME Moves(v.doc.kids, v.doc.trav, MaxTurns + 1)
               PROVE  FALSE
    OBVIOUS
  <2>1. MaxTurns + 1 \in Nat
    BY <1>1
  <2>2. MaxTurns + 1 <= MaxTurns
    BY <2>1, MovesBound
  <2> QED BY <1>1, <2>2
<1> HIDE DEF v
<1>11. CASE Over(v)
  <2> QED BY <1>3, <1>9, <1>11 DEF v
<1>12. CASE Held(v)
  <2>1. PICK at : Walking(v, at, known)
    BY <1>12
  <2> DEFINE here == Here(v.doc.kids, v.doc.trav, at)
  <2>2. Stands(v.doc.kids, v.doc.trav, at) /\ here \in Nat
    <3>1. Stands(v.doc.kids, v.doc.trav, at) /\ Descends(v.doc.kids)
      BY <1>9, <2>1 DEF Walking, SameTree, IsTree
    <3> QED BY <3>1, StandsFacts
  <2>3. here + 0 = v.wanted + 1 /\ v.togo = 0
    BY <1>12, <2>1 DEF Walking
  <2>4. here = v.wanted + 1
    <3> HIDE DEF here
    <3> QED BY <2>2, <2>3
  <2>5. Arrived(v, known)
    <3> HIDE DEF v
    <3> QED BY <2>1, <2>3, <2>4 DEF Walking, Arrived
  <2> QED BY <1>3, <1>9, <2>2, <2>4, <2>5 DEF v
<1> QED BY <1>9, <1>10, <1>11, <1>12

-----------------------------------------------------------------------------
(* Where the last lookup stopped.                                          *)
InStep(d) ==
    d.trav # <<>> =>
      \E at : /\ Stands(d.kids, d.trav, at) /\ Here(d.kids, d.trav, at) = d.next
              /\ \A x \in 1 .. d.next : d.list[x] = Leaves(d.kids, Root)[x]

(* A lookup finds the page, changes nothing but the cache and the stack,   *)
(* and leaves them right; what was cached stays.                           *)
LEMMA LookupRight ==
    ASSUME NEW d \in DocType, IsTree(d.kids), NEW known, NEW i \in Nat,
           NEW unread \in SUBSET Nodes,
           Cached(d.list, Leaves(d.kids, Root), known), InStep(d),
           i < Len(Leaves(d.kids, Root)),
           Leaves(d.kids, Root)[i + 1] \notin unread, Root \notin unread,
           CanRead(d.kids, unread, i)
    PROVE  LET r == GetPageDictionary(d, i, unread)
               L == Leaves(d.kids, Root)
           IN  /\ r.found = L[i + 1]
               /\ r.doc \in DocType /\ r.doc.kids = d.kids
               /\ r.doc.count = d.count /\ r.doc.parent = d.parent
               /\ Cached(r.doc.list, L, known \cup {i + 1})
               /\ InStep(r.doc)
<1> DEFINE r == GetPageDictionary(d, i, unread)
           L == Leaves(d.kids, Root)
           first == <<[node |-> Root, child |-> 1]>>
           start == IF d.trav = <<>> THEN [ResetTraversal(d) EXCEPT !.trav = first] ELSE d
           w == [doc |-> start, unread |-> unread, wanted |-> i,
                 togo |-> i - start.next + 1, found |-> None]
           walk == TraversePDFPages(w)
<1> Descends(d.kids)
  BY DEF IsTree
<1>1. L \in Seq(Page) /\ Len(L) \in Nat /\ i + 1 \in 1 .. Len(L) /\ L[i + 1] \in Page
  <2>1. L \in Seq(Page)
    BY LeavesTyped, NodesAssumption DEF Nodes
  <2> HIDE DEF L
  <2>2. Len(L) \in Nat /\ i + 1 \in 1 .. Len(L)
    BY <2>1 DEF L
  <2> QED BY <2>1, <2>2
<1>2. Len(d.list) = Len(L) /\ \A x \in 1 .. Len(L) : d.list[x] \in {None, L[x]}
  BY DEF Cached
<1>3. r.doc \in DocType
  <2>1. i \in 0 .. Len(d.list) - 1
    BY <1>1, <1>2
  <2> QED BY <2>1, LookupTyped DEF Nodes
<1>4. CASE d.list[i + 1] # None
  <2>1. d.list[i + 1] = L[i + 1]
    BY <1>1, <1>2, <1>4
  <2>2. r = [doc |-> d, found |-> d.list[i + 1]]
    <3>1. d.list[i + 1] \notin {None} \cup unread
      BY <1>4, <2>1
    <3> QED BY <3>1 DEF GetPageDictionary
  <2>3. r.doc = d /\ r.found = L[i + 1]
    BY <2>1, <2>2
  <2>4. Cached(d.list, L, known \cup {i + 1})
    <3> HIDE DEF L
    <3> QED BY <2>1 DEF Cached, L
  <2> HIDE DEF r, L
  <2> QED BY <1>3, <2>3, <2>4 DEF r, L
<1>5. CASE d.list[i + 1] = None
  <2>1. r = [doc |-> [walk.doc EXCEPT !.next = i + 1], found |-> walk.found]
    BY <1>5 DEF GetPageDictionary
  <2>2. /\ start \in DocType /\ start.list = d.list /\ start.kids = d.kids
        /\ start.count = d.count /\ start.parent = d.parent
    <3>1. [node |-> Root, child |-> 1] \in Steps
      BY NodesAssumption DEF Steps
    <3>2. first \in Seq(Steps)
      BY <3>1
    <3> HIDE DEF first
    <3> QED BY <3>2 DEF ResetTraversal, DocType, Steps
  <2>3. PICK at : /\ Stands(d.kids, start.trav, at) /\ Here(d.kids, start.trav, at) = start.next
                  /\ \A x \in 1 .. start.next : d.list[x] = L[x]
    <3>1. CASE d.trav = <<>>
      <4>1. start.trav = first /\ start.next = 0
        BY <3>1 DEF ResetTraversal, DocType
      <4> HIDE DEF start
      <4> QED BY <4>1, StandStart
    <3>2. CASE d.trav # <<>>
      BY <3>2 DEF InStep
    <3> QED BY <3>1, <3>2
  <2> HIDE DEF start
  <2>4. start.next \in Nat /\ start.next <= i
    <3>1. start.next \in Nat
      BY <2>2 DEF DocType
    <3>2. ~(i + 1 \in 1 .. start.next)
      BY <1>1, <1>5, <2>3, NodesAssumption
    <3> DEFINE x == start.next
    <3> HIDE DEF x
    <3>3. x \in Nat /\ ~(i + 1 \in 1 .. x)
      BY <3>1, <3>2 DEF x
    <3>4. x <= i
      BY <3>3
    <3> QED BY <3>1, <3>4 DEF x
  <2>5. /\ w \in Walks /\ w.doc = start /\ w.togo = i - start.next + 1 /\ w.wanted = i
        /\ w.unread = unread /\ w.togo \in Nat /\ start.next + w.togo = i + 1 /\ w.togo # 0
    <3> DEFINE x == start.next
               y == i - x + 1
    <3>1. y \in Nat /\ x + y = i + 1 /\ y # 0 /\ y \in Int
      <4> HIDE DEF x
      <4> QED BY <2>4 DEF x
    <3> HIDE DEF y
    <3>2. w = [doc |-> start, unread |-> unread, wanted |-> i, togo |-> y, found |-> None]
      BY DEF y
    <3> HIDE DEF w
    <3>3. w \in Walks
      BY <2>2, <3>1, <3>2 DEF Walks, Nodes
    <3> QED BY <3>1, <3>2, <3>3 DEF y
  <2> HIDE DEF w
  <2>6. Walking(w, at, known)
    <3> DEFINE x == start.next
    <3>1. Cached(d.list, L, known \cup (1 .. x))
      <4> HIDE DEF L
      <4> QED BY <2>3 DEF Cached, L
    <3>2. w.wanted \in 0 .. Len(L) - 1
      BY <1>1, <2>5
    <3> HIDE DEF L
    <3> QED BY <2>2, <2>3, <2>5, <3>1, <3>2 DEF Walking, L
  <2>7. /\ walk \in Walks /\ SameTree(start, walk.doc) /\ walk.wanted = i
        /\ Arrived(walk, known)
        /\ walk.doc.trav # <<>> =>
             \E a : /\ Stands(walk.doc.kids, walk.doc.trav, a)
                    /\ Here(walk.doc.kids, walk.doc.trav, a) = i + 1
    BY <2>2, <2>5, <2>6, WalkArrives
  <2> HIDE DEF walk
  <2>8. walk.doc \in DocType /\ walk.doc.kids = d.kids
        /\ walk.doc.count = d.count /\ walk.doc.parent = d.parent
    BY <2>2, <2>7 DEF SameTree, Walks
  <2>9. walk.found = L[i + 1] /\ Cached(walk.doc.list, L, known \cup (1 .. i + 1))
    BY <2>7, <2>8 DEF Arrived
  <2>10. /\ r.found = walk.found /\ r.doc.kids = d.kids /\ r.doc.count = d.count
         /\ r.doc.parent = d.parent /\ r.doc.list = walk.doc.list
         /\ r.doc.trav = walk.doc.trav /\ r.doc.next = i + 1
    <3> HIDE DEF r
    <3> QED BY <2>1, <2>8 DEF DocType
  <2> HIDE DEF r
  <2>11. Cached(r.doc.list, L, known \cup {i + 1})
    <3>1. i + 1 \in 1 .. i + 1
      OBVIOUS
    <3> HIDE DEF L
    <3> QED BY <2>9, <2>10, <3>1 DEF Cached
  <2>12. InStep(r.doc)
    <3>1. \A x \in 1 .. i + 1 : r.doc.list[x] = L[x]
      <4> SUFFICES ASSUME NEW x \in 1 .. i + 1
                   PROVE  r.doc.list[x] = L[x]
        OBVIOUS
      <4>1. x \in 1 .. Len(L)
        BY <1>1
      <4> HIDE DEF L
      <4> QED BY <2>9, <2>10, <4>1 DEF Cached
    <3> QED BY <2>7, <2>8, <2>10, <3>1 DEF InStep
  <2> QED BY <1>3, <2>9, <2>10, <2>11, <2>12 DEF r
<1> QED BY <1>4, <1>5
=============================================================================
