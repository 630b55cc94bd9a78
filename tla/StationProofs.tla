---------------------------- MODULE StationProofs ----------------------------
(***************************************************************************)
(* Proofs about a bank of reservation stations, for every number of        *)
(* stations, depth, width, set of units and program: no instruction is     *)
(* lost or held twice, no result is missed, and the comparator trees pick  *)
(* the oldest request unless a latch in them is stale.                     *)
(***************************************************************************)
EXTENDS ReservationStation, PselGenTheorems

---------------------------------------------------------------------------
(* Tags: numbers on a circle twice as long as the reorder buffer *)

\* A remainder without division, as far as the circle needs it.
LEMMA ModIs ==
  ASSUME NEW m \in Nat \ {0}, NEW x \in 0 .. (2 * m - 1)
  PROVE  /\ x % m = IF x < m THEN x ELSE x - m
         /\ x \div m = IF x < m THEN 0 ELSE 1
  OBVIOUS

\* Going n on from a tag, and the way from one tag to another.
LEMMA Circle ==
  /\ ROB_DEPTH \in Nat \ {0}
  /\ \A t \in Tag : \A n \in 0 .. (2 * ROB_DEPTH) :
       After(t, n) = IF t + n < 2 * ROB_DEPTH THEN t + n ELSE (t + n) - 2 * ROB_DEPTH
  /\ \A f, t \in Tag :
       Count(f, t) = IF f <= t THEN t - f ELSE (t + 2 * ROB_DEPTH) - f
<1>1. ROB_DEPTH \in Nat \ {0} /\ 2 * ROB_DEPTH \in Nat \ {0}
  BY RsAssumption
<1>2. ASSUME NEW t \in Tag, NEW n \in 0 .. (2 * ROB_DEPTH)
      PROVE  After(t, n) = IF t + n < 2 * ROB_DEPTH THEN t + n ELSE (t + n) - 2 * ROB_DEPTH
  <2>1. t + n \in 0 .. (2 * (2 * ROB_DEPTH) - 1)
    BY <1>1 DEF Tag
  <2> QED
    BY <1>1, <2>1, ModIs DEF After
<1>3. ASSUME NEW f \in Tag, NEW t \in Tag
      PROVE  Count(f, t) = IF f <= t THEN t - f ELSE (t + 2 * ROB_DEPTH) - f
  <2>1. /\ t + 2 * ROB_DEPTH - f \in 0 .. (2 * (2 * ROB_DEPTH) - 1)
        /\ t + 2 * ROB_DEPTH - f < 2 * ROB_DEPTH <=> t < f
        /\ (t + 2 * ROB_DEPTH - f) - 2 * ROB_DEPTH = t - f
    BY <1>1 DEF Tag
  <2>2. Count(f, t) = IF t + 2 * ROB_DEPTH - f < 2 * ROB_DEPTH
                        THEN t + 2 * ROB_DEPTH - f
                        ELSE (t + 2 * ROB_DEPTH - f) - 2 * ROB_DEPTH
    BY <1>1, <2>1, ModIs DEF Count
  <2> QED
    BY <1>1, <2>1, <2>2 DEF Tag
<1> QED
  BY <1>1, <1>2, <1>3

\* After and Count are inverse to each other.
LEMMA AroundTheCircle ==
  /\ \A t \in Tag : \A n \in 0 .. (2 * ROB_DEPTH) : After(t, n) \in Tag
  /\ \A f, t \in Tag : Count(f, t) \in 0 .. (2 * ROB_DEPTH - 1) /\ After(f, Count(f, t)) = t
  /\ \A t \in Tag : \A n \in 0 .. (2 * ROB_DEPTH - 1) : Count(t, After(t, n)) = n
  /\ \A f, g, t \in Tag : Count(f, g) = Count(f, t) => g = t
<1>1. ROB_DEPTH \in Nat \ {0}
  BY Circle
<1>2. \A t \in Tag : \A n \in 0 .. (2 * ROB_DEPTH) : After(t, n) \in Tag
  BY <1>1, Circle DEF Tag
<1>3. \A f, t \in Tag : Count(f, t) \in 0 .. (2 * ROB_DEPTH - 1)
  BY <1>1, Circle DEF Tag
<1>4. \A f, t \in Tag : After(f, Count(f, t)) = t
  <2> TAKE f, t \in Tag
  <2>1. Count(f, t) \in 0 .. (2 * ROB_DEPTH)
    BY <1>1, <1>3
  <2>2. Count(f, t) = IF f <= t THEN t - f ELSE (t + 2 * ROB_DEPTH) - f
    BY Circle
  <2>3. After(f, Count(f, t)) = IF f + Count(f, t) < 2 * ROB_DEPTH THEN f + Count(f, t)
                                ELSE (f + Count(f, t)) - 2 * ROB_DEPTH
    BY <2>1, Circle
  <2> QED
    BY <1>1, <2>2, <2>3 DEF Tag
<1>5. \A t \in Tag : \A n \in 0 .. (2 * ROB_DEPTH - 1) : Count(t, After(t, n)) = n
  <2> TAKE t \in Tag
  <2> TAKE n \in 0 .. (2 * ROB_DEPTH - 1)
  <2>1. n \in 0 .. (2 * ROB_DEPTH)
    BY <1>1
  <2>2. After(t, n) \in Tag
    BY <1>2, <2>1
  <2>3. After(t, n) = IF t + n < 2 * ROB_DEPTH THEN t + n ELSE (t + n) - 2 * ROB_DEPTH
    BY <2>1, Circle
  <2>4. Count(t, After(t, n)) = IF t <= After(t, n) THEN After(t, n) - t
                                ELSE (After(t, n) + 2 * ROB_DEPTH) - t
    BY <2>2, Circle
  <2> QED
    BY <1>1, <2>3, <2>4 DEF Tag
<1> QED
  BY <1>2, <1>3, <1>4, <1>5

\* The tags from f on and before t are those nearer to f than t is.
LEMMA SpanIs ==
  ASSUME NEW f \in Tag, NEW t \in Tag, NEW n \in 0 .. (2 * ROB_DEPTH)
  PROVE  \A x : x \in {After(f, k) : k \in 0 .. (n - 1)} <=> x \in Tag /\ Count(f, x) < n
<1>1. ROB_DEPTH \in Nat \ {0}
  BY Circle
<1>2. ASSUME NEW k \in 0 .. (n - 1) PROVE After(f, k) \in Tag /\ Count(f, After(f, k)) < n
  <2>1. k \in 0 .. (2 * ROB_DEPTH - 1) /\ k \in 0 .. (2 * ROB_DEPTH) /\ k < n
    BY <1>1
  <2> QED
    BY <2>1, AroundTheCircle
<1>3. ASSUME NEW x \in Tag, Count(f, x) < n PROVE x = After(f, Count(f, x)) /\ Count(f, x) \in 0 .. (n - 1)
  <2>1. Count(f, x) \in 0 .. (2 * ROB_DEPTH - 1) /\ After(f, Count(f, x)) = x
    BY AroundTheCircle
  <2> QED
    BY <1>1, <1>3, <2>1
<1> QED
  BY <1>2, <1>3

---------------------------------------------------------------------------
(* The lanes of a group *)

Occupied(g) == {l \in Lane : g[l] # None}

\* The instructions of a group are numbered in the order of its lanes.
LEMMA Positions ==
  ASSUME NEW g
  PROVE  /\ Position(g, MACHINE_WIDTH) \in 0 .. MACHINE_WIDTH
         /\ Position(g, MACHINE_WIDTH) = Cardinality(Occupied(g))
         /\ \A l \in Occupied(g) : Position(g, l) \in 0 .. (Position(g, MACHINE_WIDTH) - 1)
         /\ \A l, m \in Occupied(g) : Position(g, l) = Position(g, m) => l = m
         /\ \A k \in 0 .. (Position(g, MACHINE_WIDTH) - 1) :
              \E l \in Occupied(g) : Position(g, l) = k
<1> DEFINE S == Occupied(g)
           w == MACHINE_WIDTH
<1>1. w \in Nat /\ S \in SUBSET (0 .. (w - 1)) /\ \A l \in S : l < w
  BY RsAssumption DEF Occupied, Lane
<1>2. \A l : Position(g, l) = Below(l, S)
  <2> TAKE l
  <2>1. {m \in Lane : m < l /\ g[m] # None} = {q \in Occupied(g) : q < l}
    BY DEF Occupied
  <2> QED
    BY <2>1 DEF Position, Below
<1>3. Position(g, w) = Cardinality(S)
  <2>1. {q \in S : q < w} = S
    BY <1>1
  <2> QED
    BY <1>2, <2>1 DEF Below
<1>4. Cardinality(S) \in 0 .. w
  <2>1. IsFiniteSet(0 .. (w - 1)) /\ Cardinality(0 .. (w - 1)) = w
    BY <1>1, FS_Interval
  <2>2. Cardinality(S) <= w /\ Cardinality(S) \in Nat
    BY <1>1, <2>1, FS_Subset, RequestsFinite
  <2> QED
    BY <1>1, <2>2
<1>5. /\ \A p \in S : Below(p, S) \in 0 .. (Cardinality(S) - 1)
      /\ \A p, r \in S : p < r => Below(p, S) < Below(r, S)
  BY <1>1, BelowIncreases
<1>6. \A p, r \in S : Below(p, S) = Below(r, S) => p = r
  <2> TAKE p, r \in S
  <2>1. p \in Nat /\ r \in Nat /\ Below(p, S) \in Int /\ Below(r, S) \in Int
    BY <1>1, <1>4, <1>5
  <2> HIDE DEF S
  <2> QED
    BY <1>5, <2>1
<1>7. \A k \in 0 .. (Cardinality(S) - 1) : \E p \in S : Below(p, S) = k
  BY <1>1, EveryRankOccurs
<1> HIDE DEF S, w
<1>8. /\ Position(g, w) \in 0 .. w
      /\ \A l \in S : Position(g, l) \in 0 .. (Position(g, w) - 1)
      /\ \A l, m \in S : Position(g, l) = Position(g, m) => l = m
      /\ \A k \in 0 .. (Position(g, w) - 1) : \E l \in S : Position(g, l) = k
  BY <1>2, <1>3, <1>4, <1>5, <1>6, <1>7
<1> QED
  BY <1>3, <1>8 DEF S, w

---------------------------------------------------------------------------
(* The comparator trees *)

\* Nodes are numbered as in a heap: a child is below its parent.
LEMMA Nodes ==
  /\ RS_DEPTH \in Nat \ {0} /\ 1 \in Inner /\ 1 \in Node
  /\ \A n \in Node : n \in Nat /\ (n >= RS_DEPTH <=> n \notin Inner)
  /\ \A n \in Node : n >= RS_DEPTH => n - RS_DEPTH \in Station
  /\ \A n \in Inner : n \in Node /\ 2 * n \in Node /\ 2 * n + 1 \in Node
                      /\ n < 2 * n /\ n < 2 * n + 1
  /\ \A i \in Station : RS_DEPTH + i \in Node /\ (RS_DEPTH + i) - RS_DEPTH = i
                        /\ RS_DEPTH + i >= RS_DEPTH
BY RsAssumption DEF Node, Inner, Station

\* What holds at the leaves, and at a node when it holds at its children, holds
\* at every node.
LEMMA FromTheLeaves ==
  ASSUME NEW S, \A n \in Node : n >= RS_DEPTH => n \in S,
         \A n \in Inner : 2 * n \in S /\ 2 * n + 1 \in S => n \in S
  PROVE  \A n \in Node : n \in S
<1> DEFINE M == {k \in 0 .. (2 * RS_DEPTH - 1) : \A n \in Node : n > k => n \in S}
<1>1. M \in SUBSET Nat /\ 2 * RS_DEPTH - 1 \in M
  BY Nodes DEF Node
<1>2. PICK k \in M : \A y \in M : k <= y
  BY <1>1, LeastElement
<1>3. k \in Nat /\ k <= 2 * RS_DEPTH - 1 /\ \A n \in Node : n > k => n \in S
  BY <1>2
<1>4. CASE k > 0
  <2>1. k \in Node
    BY <1>3, <1>4, Nodes DEF Node
  <2>2. k \in S
    <3>1. CASE k >= RS_DEPTH
      BY <2>1, <3>1
    <3>2. CASE ~(k >= RS_DEPTH)
      <4>1. k \in Inner
        BY <2>1, <3>2, Nodes
      <4>2. 2 * k \in S /\ 2 * k + 1 \in S
        BY <1>3, <4>1, Nodes
      <4> QED
        BY <4>1, <4>2
    <3> QED
      BY <3>1, <3>2
  <2>3. k - 1 \in M
    <3>1. k - 1 \in 0 .. (2 * RS_DEPTH - 1)
      BY <1>3, <1>4, Nodes
    <3>2. \A n \in Node : n > k - 1 => n > k \/ n = k
      BY <1>3, Nodes
    <3> QED
      BY <1>3, <2>2, <3>1, <3>2
  <2> QED
    BY <1>2, <1>3, <2>3
<1>5. CASE k = 0
  BY <1>3, <1>5 DEF Node
<1> QED
  BY <1>3, <1>4, <1>5

\* What holds at a leaf, and at a node when it holds at one of its children, holds
\* at the root.
LEMMA ToTheRoot ==
  ASSUME NEW S \in SUBSET Node, NEW j \in Station, RS_DEPTH + j \in S,
         \A n \in Inner : 2 * n \in S \/ 2 * n + 1 \in S => n \in S
  PROVE  1 \in S
<1>1. S \in SUBSET Nat /\ S # {}
  BY Nodes
<1>2. PICK k \in S : \A y \in S : k <= y
  BY <1>1, LeastElement
<1>3. k \in Nat /\ k >= 1 /\ k <= 2 * RS_DEPTH - 1 /\ RS_DEPTH \in Nat
  BY <1>2, Nodes DEF Node
<1>4. CASE k > 1
  <2> DEFINE m == k \div 2
  <2>1. m \in Inner /\ (k = 2 * m \/ k = 2 * m + 1) /\ m < k /\ m \in Nat
    BY <1>3, <1>4 DEF Inner
  <2> HIDE DEF m
  <2>2. m \in S
    BY <1>2, <2>1
  <2> QED
    BY <1>2, <1>3, <2>1, <2>2
<1> QED
  BY <1>2, <1>3, <1>4
\* f is given at the leaves, and elsewhere by what a node makes of its children.
Computed(f, leaf, join) ==
  \A n \in Node : f[n] = IF n >= RS_DEPTH THEN leaf[n]
                         ELSE join[n][<<f[2 * n], f[2 * n + 1]>>]

\* Every way to compute the nodes from the leaves has a result.
LEMMA TreeFunction ==
  ASSUME NEW V, NEW leaf \in [Node -> V], NEW join \in [Inner -> [V \X V -> V]]
  PROVE  \E f \in [Node -> V] : Computed(f, leaf, join)
<1> DEFINE At(f, n) == IF n >= RS_DEPTH THEN leaf[n]
                       ELSE join[n][<<f[2 * n], f[2 * n + 1]>>]
           Fits(f, k) == \A n \in Node : n > k => f[n] = At(f, n)
           M == {k \in 0 .. (2 * RS_DEPTH - 1) : \E f \in [Node -> V] : Fits(f, k)}
<1>1. M \in SUBSET Nat /\ 2 * RS_DEPTH - 1 \in M
  <2>1. 2 * RS_DEPTH - 1 \in 0 .. (2 * RS_DEPTH - 1)
    BY Nodes
  <2>2. \A n \in Node : ~(n > 2 * RS_DEPTH - 1)
    BY Nodes DEF Node
  <2>3. Fits(leaf, 2 * RS_DEPTH - 1)
    BY <2>2
  <2> HIDE DEF Fits
  <2> QED
    BY <2>1, <2>3
<1>2. PICK k \in M : \A y \in M : k <= y
  <2> HIDE DEF M
  <2> QED
    BY <1>1, LeastElement
<1>3. k \in Nat /\ k <= 2 * RS_DEPTH - 1
  <2> HIDE DEF Fits
  <2> QED
    BY <1>2, Nodes
<1>4. PICK f \in [Node -> V] : Fits(f, k)
  <2> HIDE DEF Fits
  <2> QED
    BY <1>2
<1>5. CASE k > 0
  <2> DEFINE g == [f EXCEPT ![k] = At(f, k)]
  <2>1. k \in Node
    BY <1>3, <1>5, Nodes DEF Node
  <2>2. At(f, k) \in V
    <3>1. CASE k >= RS_DEPTH
      BY <2>1, <3>1
    <3>2. CASE ~(k >= RS_DEPTH)
      <4>1. k \in Inner /\ 2 * k \in Node /\ 2 * k + 1 \in Node
        BY <2>1, <3>2, Nodes
      <4>2. <<f[2 * k], f[2 * k + 1]>> \in V \X V
        BY <4>1
      <4>3. join[k][<<f[2 * k], f[2 * k + 1]>>] \in V
        BY <4>1, <4>2
      <4> QED
        BY <3>2, <4>3
    <3> QED
      BY <3>1, <3>2
  <2> HIDE DEF At
  <2>3. g \in [Node -> V] /\ g[k] = At(f, k) /\ \A n \in Node : n # k => g[n] = f[n]
    BY <2>1, <2>2
  <2>4. \A n \in Node : n >= k => At(g, n) = At(f, n)
    <3> HIDE DEF g, M, Fits
    <3> TAKE n \in Node
    <3>1. CASE n >= RS_DEPTH
      BY <3>1 DEF At
    <3>2. CASE ~(n >= RS_DEPTH) /\ n >= k
      <4>1. /\ n \in Inner /\ 2 * n \in Node /\ 2 * n + 1 \in Node
            /\ 2 * n # k /\ 2 * n + 1 # k
        BY <1>3, <3>2, Nodes
      <4> QED
        BY <2>3, <4>1 DEF At
    <3> QED
      BY <3>1, <3>2
  <2>5. Fits(g, k - 1)
    <3> HIDE DEF g, M
    <3> SUFFICES ASSUME NEW n \in Node, n > k - 1
                 PROVE  g[n] = At(g, n)
      OBVIOUS
    <3>1. n >= k /\ (n > k \/ n = k)
      <4> HIDE DEF Fits
      <4>1. n \in Nat /\ k \in Nat
        BY <1>3, Nodes
      <4> QED
        BY <4>1
    <3>2. CASE n > k
      <4>1. n # k
        BY <1>3, <3>2, Nodes
      <4>2. f[n] = At(f, n)
        BY <1>4, <3>2
      <4> QED
        BY <2>3, <2>4, <3>1, <4>1, <4>2
    <3>3. CASE n = k
      BY <2>3, <2>4, <3>1, <3>3
    <3> QED
      BY <3>1, <3>2, <3>3
  <2> HIDE DEF Fits, g
  <2>6. k - 1 \in 0 .. (2 * RS_DEPTH - 1)
    BY <1>3, <1>5, Nodes
  <2>7. k - 1 \in M
    BY <2>3, <2>5, <2>6
  <2> HIDE DEF M
  <2> QED
    BY <1>2, <1>3, <2>7
<1>6. CASE k = 0
  <2>1. \A n \in Node : n > k
    BY <1>6 DEF Node
  <2> QED
    BY <1>4, <2>1 DEF Computed
<1> QED
  <2> HIDE DEF M, Fits
  <2> QED
    BY <1>3, <1>5, <1>6

\* The request of a node is that of one of its children.
LEMMA RequestTree ==
  ASSUME NEW u
  PROVE  /\ req_tmp(u) \in [Node -> BOOLEAN]
         /\ \A n \in Node : req_tmp(u)[n] <=> IF n >= RS_DEPTH THEN n - RS_DEPTH \in Requests(u)
                                              ELSE req_tmp(u)[2 * n] \/ req_tmp(u)[2 * n + 1]
<1> DEFINE Is(f) == f = [n \in Node |-> IF n >= RS_DEPTH THEN n - RS_DEPTH \in Requests(u)
                                        ELSE f[2 * n] \/ f[2 * n + 1]]
           req == CHOOSE f : Is(f)
           leaf == [n \in Node |-> n - RS_DEPTH \in Requests(u)]
           join == [n \in Inner |-> [z \in BOOLEAN \X BOOLEAN |-> z[1] \/ z[2]]]
<1>1. leaf \in [Node -> BOOLEAN] /\ join \in [Inner -> [BOOLEAN \X BOOLEAN -> BOOLEAN]]
  OBVIOUS
<1>2. PICK f \in [Node -> BOOLEAN] : Computed(f, leaf, join)
  <2> HIDE DEF leaf, join
  <2> QED
    BY <1>1, TreeFunction
<1>3. \A n \in Node : f[n] = IF n >= RS_DEPTH THEN n - RS_DEPTH \in Requests(u)
                             ELSE f[2 * n] \/ f[2 * n + 1]
  <2> TAKE n \in Node
  <2>1. CASE n >= RS_DEPTH
    BY <1>2, <2>1 DEF Computed
  <2>2. CASE ~(n >= RS_DEPTH)
    <3>1. n \in Inner /\ <<f[2 * n], f[2 * n + 1]>> \in BOOLEAN \X BOOLEAN
      BY <1>2, <2>2, Nodes
    <3>2. f[n] = join[n][<<f[2 * n], f[2 * n + 1]>>]
      BY <1>2, <2>2 DEF Computed
    <3>3. join[n][<<f[2 * n], f[2 * n + 1]>>] = (f[2 * n] \/ f[2 * n + 1])
      BY <3>1
    <3> QED
      BY <2>2, <3>2, <3>3
  <2> QED
    BY <2>1, <2>2
<1>4. Is(f)
  BY <1>2, <1>3
<1>5. Is(req)
  <2> HIDE DEF Is
  <2> QED
    BY <1>4
<1>6. req_tmp(u) = [n \in Node |-> req[n]]
  BY DEF req_tmp
<1>7. req = [n \in Node |-> IF n >= RS_DEPTH THEN n - RS_DEPTH \in Requests(u)
                            ELSE req[2 * n] \/ req[2 * n + 1]]
  BY <1>5
<1>8. req_tmp(u) = req
  <2> HIDE DEF req
  <2> QED
    BY <1>6, <1>7
<1> HIDE DEF req
<1>9. req \in [Node -> BOOLEAN]
  <2>1. \A n \in Node : (IF n >= RS_DEPTH THEN n - RS_DEPTH \in Requests(u)
                         ELSE req[2 * n] \/ req[2 * n + 1]) \in BOOLEAN
    <3> TAKE n \in Node
    <3>1. CASE n >= RS_DEPTH
      BY <3>1
    <3>2. CASE ~(n >= RS_DEPTH)
      BY <3>2
    <3> QED
      BY <3>1, <3>2
  <2> QED
    BY <1>7, <2>1, Zenon
<1> QED
  BY <1>7, <1>8, <1>9

\* The bit of a node is the latched one if both children request, else that of
\* the child that does.
LEMMA PositionTree ==
  ASSUME TypeOK, NEW u \in Fu
  PROVE  /\ SettledPos(u) \in [Node -> {0, 1}]
         /\ \A n \in Node : n >= RS_DEPTH =>
              SettledPos(u)[n] = rs_entry[n - RS_DEPTH].tag \div ROB_DEPTH
<1> DEFINE V == {0, 1}
           Leaf(n) == rs_entry[n - RS_DEPTH].tag \div ROB_DEPTH
           Join(n, a, b) == IF req_tmp(u)[2 * n] /\ req_tmp(u)[2 * n + 1] THEN pos_tmp[u][n]
                            ELSE IF req_tmp(u)[2 * n] THEN a
                            ELSE IF req_tmp(u)[2 * n + 1] THEN b
                            ELSE 0
           Is(f) == f = [n \in Node |-> IF n >= RS_DEPTH THEN Leaf(n)
                                        ELSE Join(n, f[2 * n], f[2 * n + 1])]
           p == CHOOSE f : Is(f)
           leaf == [n \in Node |-> IF n >= RS_DEPTH THEN Leaf(n) ELSE 0]
           join == [n \in Inner |-> [z \in V \X V |-> Join(n, z[1], z[2])]]
<1>1. \A n \in Node : n >= RS_DEPTH => Leaf(n) \in V
  <2> TAKE n \in Node
  <2>1. CASE n >= RS_DEPTH
    <3>1. n - RS_DEPTH \in Station
      BY <2>1, Nodes
    <3>2. rs_entry[n - RS_DEPTH].tag \in Tag
      BY <3>1 DEF TypeOK, RsEntry
    <3>3. rs_entry[n - RS_DEPTH].tag \in 0 .. (2 * ROB_DEPTH - 1) /\ ROB_DEPTH \in Nat \ {0}
      BY <3>2, Circle DEF Tag
    <3> QED
      BY <3>3, ModIs
  <2> QED
    BY <2>1
<1>2. \A n \in Inner : \A a, b \in V : Join(n, a, b) \in V
  BY DEF TypeOK
<1>3. leaf \in [Node -> V] /\ join \in [Inner -> [V \X V -> V]]
  <2> HIDE DEF Leaf, Join
  <2>1. leaf \in [Node -> V]
    BY <1>1
  <2>2. ASSUME NEW n \in Inner
        PROVE  [z \in V \X V |-> Join(n, z[1], z[2])] \in [V \X V -> V]
    BY <1>2
  <2> QED
    BY <2>1, <2>2
<1>4. PICK f \in [Node -> V] : Computed(f, leaf, join)
  <2> HIDE DEF leaf, join
  <2> QED
    BY <1>3, TreeFunction
<1>5. \A n \in Node : f[n] = IF n >= RS_DEPTH THEN Leaf(n)
                             ELSE Join(n, f[2 * n], f[2 * n + 1])
  <2> HIDE DEF Leaf, Join
  <2> TAKE n \in Node
  <2>1. CASE n >= RS_DEPTH
    BY <1>4, <2>1 DEF Computed
  <2>2. CASE ~(n >= RS_DEPTH)
    <3>1. n \in Inner /\ <<f[2 * n], f[2 * n + 1]>> \in V \X V
      <4> HIDE DEF V
      <4> QED
        BY <1>4, <2>2, Nodes
    <3>2. f[n] = join[n][<<f[2 * n], f[2 * n + 1]>>]
      <4> HIDE DEF join
      <4> QED
        BY <1>4, <2>2 DEF Computed
    <3>3. join[n][<<f[2 * n], f[2 * n + 1]>>] = Join(n, f[2 * n], f[2 * n + 1])
      BY <3>1
    <3> QED
      BY <2>2, <3>2, <3>3
  <2> QED
    BY <2>1, <2>2
<1>6. Is(f)
  <2> HIDE DEF Leaf, Join, V
  <2> QED
    BY <1>4, <1>5
<1>7. Is(p)
  <2> HIDE DEF Is
  <2> QED
    BY <1>6
<1>8. SettledPos(u) = [n \in Node |-> p[n]]
  BY DEF SettledPos
<1>9. p = [n \in Node |-> IF n >= RS_DEPTH THEN Leaf(n)
                          ELSE Join(n, p[2 * n], p[2 * n + 1])]
  BY <1>7
<1>10. SettledPos(u) = p
  <2> HIDE DEF p, Leaf, Join
  <2> QED
    BY <1>8, <1>9
<1> HIDE DEF p, Leaf, Join, V
<1> DEFINE S == {n \in Node : p[n] \in V}
<1>11. \A n \in Node : n \in S
  <2>1. \A n \in Node : n >= RS_DEPTH => n \in S
    BY <1>1, <1>9
  <2>2. \A n \in Inner : 2 * n \in S /\ 2 * n + 1 \in S => n \in S
    BY <1>2, <1>9, Nodes
  <2> HIDE DEF S
  <2> QED
    BY <2>1, <2>2, FromTheLeaves
<1>12. p \in [Node -> V]
  <2>1. \A n \in Node : p[n] \in V
    BY <1>11
  <2>2. p = [n \in Node |-> p[n]]
    BY <1>9
  <2> QED
    BY <2>1, <2>2
<1>13. \A n \in Node : n >= RS_DEPTH => p[n] = Leaf(n)
  BY <1>9
<1> QED
  BY <1>10, <1>12, <1>13 DEF V, Leaf

\* The station node n passes up, of those its children pass up.
Winner(u, n, l, r) ==
  IF req_tmp(u)[2 * n] /\ req_tmp(u)[2 * n + 1]
    THEN IF Before(SettledPos(u)[2 * n], SettledPos(u)[2 * n + 1], l, r) THEN l ELSE r
  ELSE IF req_tmp(u)[2 * n] THEN l
  ELSE IF req_tmp(u)[2 * n + 1] THEN r
  ELSE 0

\* Every node passes up the station at the leaf, or the winner of its children.
LEMMA StationTree ==
  ASSUME NEW u
  PROVE  \A n \in Node : idx_tmp(u)[n] =
           IF n >= RS_DEPTH THEN n - RS_DEPTH
           ELSE Winner(u, n, idx_tmp(u)[2 * n], idx_tmp(u)[2 * n + 1])
<1> DEFINE Is(f) == f = [n \in Node |-> IF n >= RS_DEPTH THEN n - RS_DEPTH
                                        ELSE Winner(u, n, f[2 * n], f[2 * n + 1])]
           idx == CHOOSE f : Is(f)
           leaf == [n \in Node |-> IF n >= RS_DEPTH THEN n - RS_DEPTH ELSE 0]
           join == [n \in Inner |-> [z \in Station \X Station |-> Winner(u, n, z[1], z[2])]]
<1>1. 0 \in Station /\ \A n \in Inner : \A a, b \in Station : Winner(u, n, a, b) \in Station
  <2>1. 0 \in Station
    BY Nodes DEF Station
  <2> QED
    BY <2>1 DEF Winner
<1>2. leaf \in [Node -> Station] /\ join \in [Inner -> [Station \X Station -> Station]]
  <2>1. leaf \in [Node -> Station]
    BY <1>1, Nodes
  <2>2. ASSUME NEW n \in Inner
        PROVE  [z \in Station \X Station |-> Winner(u, n, z[1], z[2])]
                 \in [Station \X Station -> Station]
    BY <1>1
  <2> QED
    BY <2>1, <2>2
<1>3. PICK f \in [Node -> Station] : Computed(f, leaf, join)
  <2> HIDE DEF leaf, join
  <2> QED
    BY <1>2, TreeFunction
<1>4. \A n \in Node : f[n] = IF n >= RS_DEPTH THEN n - RS_DEPTH
                             ELSE Winner(u, n, f[2 * n], f[2 * n + 1])
  <2> TAKE n \in Node
  <2>1. CASE n >= RS_DEPTH
    BY <1>3, <2>1 DEF Computed
  <2>2. CASE ~(n >= RS_DEPTH)
    <3>1. n \in Inner /\ <<f[2 * n], f[2 * n + 1]>> \in Station \X Station
      BY <1>3, <2>2, Nodes
    <3>2. f[n] = join[n][<<f[2 * n], f[2 * n + 1]>>]
      <4> HIDE DEF join
      <4> QED
        BY <1>3, <2>2 DEF Computed
    <3>3. join[n][<<f[2 * n], f[2 * n + 1]>>] = Winner(u, n, f[2 * n], f[2 * n + 1])
      BY <3>1
    <3> QED
      BY <2>2, <3>2, <3>3
  <2> QED
    BY <2>1, <2>2
<1>5. Is(f)
  BY <1>3, <1>4
<1>6. Is(idx)
  <2> HIDE DEF Is
  <2> QED
    BY <1>5
<1>7. idx_tmp(u) = idx
  BY DEF idx_tmp, Winner
<1> HIDE DEF idx
<1>8. idx = [n \in Node |-> IF n >= RS_DEPTH THEN n - RS_DEPTH
                            ELSE Winner(u, n, idx[2 * n], idx[2 * n + 1])]
  BY <1>6
<1> QED
  BY <1>7, <1>8

\* A node that requests passes up a station that requests.
LEMMA RequestsPassUp ==
  ASSUME NEW u
  PROVE  \A n \in Node : req_tmp(u)[n] => idx_tmp(u)[n] \in Requests(u)
<1> DEFINE req == req_tmp(u)
           idx == idx_tmp(u)
           S == {n \in Node : req[n] => idx[n] \in Requests(u)}
<1>1. \A n \in Node : idx[n] = IF n >= RS_DEPTH THEN n - RS_DEPTH
                               ELSE Winner(u, n, idx[2 * n], idx[2 * n + 1])
  BY StationTree
<1>2. \A n \in Node : req[n] <=> IF n >= RS_DEPTH THEN n - RS_DEPTH \in Requests(u)
                                 ELSE req[2 * n] \/ req[2 * n + 1]
  BY RequestTree
<1>3. \A n \in Node : n >= RS_DEPTH => n \in S
  <2> HIDE DEF req, idx
  <2> QED
    BY <1>1, <1>2
<1>4. \A n \in Inner : 2 * n \in S /\ 2 * n + 1 \in S => n \in S
  <2> TAKE n \in Inner
  <2>1. n \in Node /\ ~(n >= RS_DEPTH) /\ idx[n] = Winner(u, n, idx[2 * n], idx[2 * n + 1])
    BY <1>1, Nodes
  <2>2. req[n] => req[2 * n] \/ req[2 * n + 1]
    BY <1>2, <2>1
  <2>3. Winner(u, n, idx[2 * n], idx[2 * n + 1])
          \in {k \in {idx[2 * n]} : req[2 * n]} \cup {k \in {idx[2 * n + 1]} : req[2 * n + 1]}
               \cup {k \in {0} : ~req[2 * n] /\ ~req[2 * n + 1]}
    BY DEF Winner
  <2> HIDE DEF req, idx
  <2> QED
    BY <2>1, <2>2, <2>3
<1> HIDE DEF S
<1>5. \A n \in Node : n \in S
  BY <1>3, <1>4, FromTheLeaves
<1> QED
  BY <1>5 DEF S

\* A unit some station requests grants one of them.
LEMMA GrantsARequest ==
  ASSUME NEW u
  PROVE  /\ Requests(u) = {} => gnt(u) = {}
         /\ Requests(u) # {} => /\ req_tmp(u)[1]
                                /\ gnt(u) = {idx_tmp(u)[1]}
                                /\ idx_tmp(u)[1] \in Requests(u)
<1>1. Requests(u) = {} => gnt(u) = {}
  BY DEF gnt
<1>2. ASSUME NEW j \in Requests(u) PROVE req_tmp(u)[1]
  <2> DEFINE S == {n \in Node : req_tmp(u)[n]}
  <2>1. j \in Station /\ RS_DEPTH + j \in S
    <3>1. j \in Station
      BY DEF Requests
    <3> QED
      BY <1>2, <3>1, Nodes, RequestTree
  <2>2. \A n \in Inner : 2 * n \in S \/ 2 * n + 1 \in S => n \in S
    <3> TAKE n \in Inner
    <3>1. n \in Node /\ ~(n >= RS_DEPTH)
      BY Nodes
    <3>2. req_tmp(u)[n] <=> req_tmp(u)[2 * n] \/ req_tmp(u)[2 * n + 1]
      BY <3>1, RequestTree
    <3> QED
      BY <3>1, <3>2
  <2>3. S \in SUBSET Node
    OBVIOUS
  <2> HIDE DEF S
  <2>4. 1 \in S
    BY <2>1, <2>2, <2>3, ToTheRoot
  <2> QED
    BY <2>4 DEF S
<1> QED
  BY <1>1, <1>2, Nodes, RequestsPassUp DEF gnt

---------------------------------------------------------------------------
(* Which stations hold which instructions *)

\* EveryInstructionHeld without cardinalities.
Held ==
  /\ \A i \in Station : rs_entry[i].in_use =>
       rs_entry[i].tag \in InFlight \ (executing \cup complete)
  /\ \A i, j \in Station :
       rs_entry[i].in_use /\ rs_entry[j].in_use /\ rs_entry[i].tag = rs_entry[j].tag => i = j
  /\ \A t \in InFlight \ (executing \cup complete) :
       \E i \in Station : rs_entry[i].in_use /\ rs_entry[i].tag = t

\* A set of stations has one element, or none, if it has that many by counting.
LEMMA StationsCounted ==
  ASSUME NEW S \in SUBSET Station
  PROVE  /\ Cardinality(S) = 0 <=> S = {}
         /\ Cardinality(S) = 1 <=> S # {} /\ \A i, j \in S : i = j
<1>1. IsFiniteSet(S)
  BY Nodes, RequestsFinite DEF Station
<1>2. Cardinality(S) = 0 <=> S = {}
  BY <1>1, FS_EmptySet
<1>3. ASSUME Cardinality(S) = 1 PROVE S # {} /\ \A i, j \in S : i = j
  <2>1. \E x : S = {x}
    BY <1>1, <1>3, FS_Singleton
  <2> QED
    BY <2>1
<1>4. ASSUME S # {}, \A i, j \in S : i = j PROVE Cardinality(S) = 1
  <2>1. PICK x \in S : TRUE
    BY <1>4
  <2>2. S = {x}
    BY <1>4, <2>1
  <2> QED
    BY <1>1, <2>2, FS_Singleton
<1> QED
  BY <1>2, <1>3, <1>4

\* The two ways to say it agree.
LEMMA HeldIs == EveryInstructionHeld <=> Held
<1>1. \A t : Holders(t) \in SUBSET Station
  BY DEF Holders
<1>2. ASSUME EveryInstructionHeld PROVE Held
  <2>1. ASSUME NEW i \in Station, rs_entry[i].in_use
        PROVE  rs_entry[i].tag \in InFlight \ (executing \cup complete)
    <3>1. rs_entry[i].tag \in InFlight /\ i \in Holders(rs_entry[i].tag)
      BY <1>2, <2>1 DEF EveryInstructionHeld, Holders
    <3>2. Cardinality(Holders(rs_entry[i].tag)) # 0
      BY <1>1, <3>1, StationsCounted
    <3> QED
      BY <1>2, <3>1, <3>2 DEF EveryInstructionHeld
  <2>2. ASSUME NEW i \in Station, NEW j \in Station, rs_entry[i].in_use, rs_entry[j].in_use,
               rs_entry[i].tag = rs_entry[j].tag
        PROVE  i = j
    <3>1. {i, j} \subseteq Holders(rs_entry[i].tag) /\ rs_entry[i].tag \in InFlight
      BY <2>1, <2>2 DEF Holders
    <3>2. Cardinality(Holders(rs_entry[i].tag)) = 1
      BY <1>2, <2>1, <2>2, <3>1 DEF EveryInstructionHeld
    <3> QED
      BY <1>1, <3>1, <3>2, StationsCounted
  <2>3. ASSUME NEW t \in InFlight \ (executing \cup complete)
        PROVE  \E i \in Station : rs_entry[i].in_use /\ rs_entry[i].tag = t
    <3>1. Cardinality(Holders(t)) = 1
      BY <1>2, <2>3 DEF EveryInstructionHeld
    <3>2. Holders(t) # {}
      BY <1>1, <3>1, StationsCounted
    <3> QED
      BY <3>2 DEF Holders
  <2> QED
    BY <2>1, <2>2, <2>3 DEF Held
<1>3. ASSUME Held PROVE EveryInstructionHeld
  <2>1. ASSUME NEW t \in InFlight
        PROVE  Cardinality(Holders(t)) = IF t \in executing \cup complete THEN 0 ELSE 1
    <3>1. CASE t \in executing \cup complete
      <4>1. Holders(t) = {}
        BY <1>3, <3>1 DEF Held, Holders
      <4> QED
        BY <1>1, <3>1, <4>1, StationsCounted
    <3>2. CASE t \notin executing \cup complete
      <4>1. Holders(t) # {}
        BY <1>3, <3>2, <2>1 DEF Held, Holders
      <4>2. \A i, j \in Holders(t) : i = j
        BY <1>3 DEF Held, Holders
      <4> QED
        BY <1>1, <3>2, <4>1, <4>2, StationsCounted
    <3> QED
      BY <3>1, <3>2
  <2> QED
    BY <1>3, <2>1 DEF EveryInstructionHeld, Held
<1> QED
  BY <1>2, <1>3

---------------------------------------------------------------------------
(* The oldest request *)

\* Of two tags at most ROB_DEPTH - 1 after a third, the position bits and the
\* pointers tell which is the older.
LEMMA PointersTellAge ==
  ASSUME NEW h \in Tag, NEW a \in Tag, NEW b \in Tag,
         Count(h, a) < ROB_DEPTH, Count(h, b) < ROB_DEPTH
  PROVE  Count(h, a) < Count(h, b) <=>
           IF a \div ROB_DEPTH = b \div ROB_DEPTH THEN a % ROB_DEPTH < b % ROB_DEPTH
                                                  ELSE a % ROB_DEPTH > b % ROB_DEPTH
<1>1. ROB_DEPTH \in Nat \ {0} /\ h \in 0 .. (2 * ROB_DEPTH - 1)
      /\ a \in 0 .. (2 * ROB_DEPTH - 1) /\ b \in 0 .. (2 * ROB_DEPTH - 1)
  BY Circle DEF Tag
<1>2. /\ a % ROB_DEPTH = (IF a < ROB_DEPTH THEN a ELSE a - ROB_DEPTH)
      /\ a \div ROB_DEPTH = (IF a < ROB_DEPTH THEN 0 ELSE 1)
      /\ b % ROB_DEPTH = (IF b < ROB_DEPTH THEN b ELSE b - ROB_DEPTH)
      /\ b \div ROB_DEPTH = (IF b < ROB_DEPTH THEN 0 ELSE 1)
  BY <1>1, ModIs
<1>3. /\ Count(h, a) = (IF h <= a THEN a - h ELSE (a + 2 * ROB_DEPTH) - h)
      /\ Count(h, b) = (IF h <= b THEN b - h ELSE (b + 2 * ROB_DEPTH) - h)
  BY Circle
<1>4. \A A, B, x, y, p, q \in Int :
        /\ A = (IF h <= a THEN a - h ELSE (a + 2 * ROB_DEPTH) - h)
        /\ B = (IF h <= b THEN b - h ELSE (b + 2 * ROB_DEPTH) - h)
        /\ x = (IF a < ROB_DEPTH THEN a ELSE a - ROB_DEPTH)
        /\ y = (IF b < ROB_DEPTH THEN b ELSE b - ROB_DEPTH)
        /\ p = (IF a < ROB_DEPTH THEN 0 ELSE 1)
        /\ q = (IF b < ROB_DEPTH THEN 0 ELSE 1)
        /\ A < ROB_DEPTH /\ B < ROB_DEPTH
        => (A < B <=> IF p = q THEN x < y ELSE x > y)
  BY <1>1
<1>5. /\ Count(h, a) \in Int /\ Count(h, b) \in Int
      /\ a % ROB_DEPTH \in Int /\ b % ROB_DEPTH \in Int
      /\ a \div ROB_DEPTH \in Int /\ b \div ROB_DEPTH \in Int
  BY <1>1, <1>2, <1>3
<1> QED
  BY <1>2, <1>3, <1>4, <1>5

\* There is room for the group being dispatched, in the reorder buffer and in
\* the bank.
Room ==
  /\ Count(head, tail) + DispatchCount <= ROB_DEPTH
  /\ Valid # {} => Cardinality(rs_avail) >= MACHINE_WIDTH

\* Only a station in use requests a unit.
AwakeInUse == \A i \in Station : rs_entry[i].wake_up => rs_entry[i].in_use

\* The instructions in flight are those nearer to the head than the tail is.
LEMMA InFlightIs ==
  ASSUME TypeOK
  PROVE  /\ head \in Tag /\ tail \in Tag /\ Count(head, tail) \in 0 .. (2 * ROB_DEPTH - 1)
         /\ \A x : x \in InFlight <=> x \in Tag /\ Count(head, x) < Count(head, tail)
<1>1. head \in Tag /\ tail \in Tag
  BY DEF TypeOK
<1>2. Count(head, tail) \in 0 .. (2 * ROB_DEPTH - 1)
  BY <1>1, AroundTheCircle
<1>3. Count(head, tail) \in 0 .. (2 * ROB_DEPTH)
  BY <1>2, Circle
<1> QED
  BY <1>1, <1>2, <1>3, SpanIs DEF InFlight

\* The group being dispatched has at most as many instructions as lanes.
LEMMA DispatchCounted ==
  DispatchCount \in 0 .. MACHINE_WIDTH /\ MACHINE_WIDTH \in Nat \ {0}
  /\ MACHINE_WIDTH <= ROB_DEPTH /\ ROB_DEPTH \in Nat \ {0}
  BY Positions, RsAssumption DEF DispatchCount

\* How long ago the instruction of a station was dispatched.
Age(i) == Count(head, rs_entry[i].tag)

\* The comparator tree of a unit, if its latches are current, compares ages.
LEMMA TreeComparesAges ==
  ASSUME TypeOK, Room, AwakeInUse, Held, NEW u \in Fu, LatchesCurrent(u)
  PROVE  /\ \A i \in Requests(u) : i \in Station /\ Age(i) \in Nat
         /\ \A n \in Inner : req_tmp(u)[2 * n] /\ req_tmp(u)[2 * n + 1] =>
              (Before(SettledPos(u)[2 * n], SettledPos(u)[2 * n + 1],
                      idx_tmp(u)[2 * n], idx_tmp(u)[2 * n + 1])
                 <=> Age(idx_tmp(u)[2 * n]) < Age(idx_tmp(u)[2 * n + 1]))
<1>1. ASSUME NEW i \in Requests(u)
      PROVE  i \in Station /\ rs_entry[i].tag \in Tag /\ Age(i) \in Nat /\ Age(i) < ROB_DEPTH
  <2>1. i \in Station /\ rs_entry[i].in_use
    BY DEF Requests, AwakeInUse
  <2>2. rs_entry[i].tag \in InFlight
    BY <2>1 DEF Held
  <2>3. rs_entry[i].tag \in Tag /\ Age(i) < Count(head, tail)
    BY <2>2, InFlightIs DEF Age
  <2>4. Age(i) \in Nat
    BY <2>3, InFlightIs, AroundTheCircle DEF Age
  <2>5. Count(head, tail) \in Nat /\ DispatchCount \in Nat
    BY InFlightIs, DispatchCounted
  <2> QED
    BY <2>1, <2>3, <2>4, <2>5, DispatchCounted DEF Room
<1>2. ASSUME NEW n \in Node, req_tmp(u)[n]
      PROVE  SettledPos(u)[n] = rs_entry[idx_tmp(u)[n]].tag \div ROB_DEPTH
  <2>1. CASE n >= RS_DEPTH
    <3>1. idx_tmp(u)[n] = n - RS_DEPTH
      BY <2>1, StationTree
    <3> QED
      BY <2>1, <3>1, PositionTree
  <2>2. CASE ~(n >= RS_DEPTH)
    BY <1>2, <2>2, Nodes DEF LatchesCurrent
  <2> QED
    BY <2>1, <2>2
<1>3. ASSUME NEW n \in Inner, req_tmp(u)[2 * n], req_tmp(u)[2 * n + 1]
      PROVE  Before(SettledPos(u)[2 * n], SettledPos(u)[2 * n + 1],
                    idx_tmp(u)[2 * n], idx_tmp(u)[2 * n + 1])
               <=> Age(idx_tmp(u)[2 * n]) < Age(idx_tmp(u)[2 * n + 1])
  <2> DEFINE l == idx_tmp(u)[2 * n]
             r == idx_tmp(u)[2 * n + 1]
  <2>1. 2 * n \in Node /\ 2 * n + 1 \in Node
    BY Nodes
  <2>2. l \in Requests(u) /\ r \in Requests(u)
    BY <1>3, <2>1, RequestsPassUp
  <2>3. /\ SettledPos(u)[2 * n] = rs_entry[l].tag \div ROB_DEPTH
        /\ SettledPos(u)[2 * n + 1] = rs_entry[r].tag \div ROB_DEPTH
    BY <1>2, <1>3, <2>1
  <2> HIDE DEF l, r
  <2>4. /\ head \in Tag /\ rs_entry[l].tag \in Tag /\ rs_entry[r].tag \in Tag
        /\ Count(head, rs_entry[l].tag) < ROB_DEPTH
        /\ Count(head, rs_entry[r].tag) < ROB_DEPTH
    BY <1>1, <2>2, InFlightIs DEF Age
  <2>5. Age(l) < Age(r) <=>
          IF rs_entry[l].tag \div ROB_DEPTH = rs_entry[r].tag \div ROB_DEPTH
            THEN Ptr(l) < Ptr(r) ELSE Ptr(l) > Ptr(r)
    BY <2>4, PointersTellAge DEF Age, Ptr
  <2>6. Before(SettledPos(u)[2 * n], SettledPos(u)[2 * n + 1], l, r) <=> Age(l) < Age(r)
    BY <2>3, <2>5 DEF Before
  <2> QED
    BY <2>6 DEF l, r
<1> QED
  BY <1>1, <1>3

\* The root is no younger than any request.
LEMMA RootIsOldest ==
  ASSUME TypeOK, Room, AwakeInUse, Held, NEW u \in Fu, LatchesCurrent(u), NEW j \in Requests(u)
  PROVE  Age(idx_tmp(u)[1]) <= Age(j)
<1> DEFINE idx == idx_tmp(u)
           req == req_tmp(u)
           S == {n \in Node : req[n] /\ Age(idx[n]) <= Age(j)}
<1>1. j \in Station /\ Age(j) \in Nat
  BY TreeComparesAges
<1>2. RS_DEPTH + j \in S
  <2>1. RS_DEPTH + j \in Node /\ RS_DEPTH + j >= RS_DEPTH /\ (RS_DEPTH + j) - RS_DEPTH = j
    BY <1>1, Nodes
  <2>2. req[RS_DEPTH + j]
    BY <2>1, RequestTree
  <2>3. idx[RS_DEPTH + j] = j
    BY <2>1, StationTree
  <2> QED
    BY <1>1, <2>1, <2>2, <2>3
<1>3. ASSUME NEW n \in Inner, 2 * n \in S \/ 2 * n + 1 \in S PROVE n \in S
  <2>1. n \in Node /\ ~(n >= RS_DEPTH) /\ 2 * n \in Node /\ 2 * n + 1 \in Node
    BY Nodes
  <2>2. req[n]
    BY <1>3, <2>1, RequestTree
  <2>3. idx[n] = Winner(u, n, idx[2 * n], idx[2 * n + 1])
    BY <2>1, StationTree
  <2>4. CASE req[2 * n] /\ req[2 * n + 1]
    <3>1. idx[n] = IF Age(idx[2 * n]) < Age(idx[2 * n + 1]) THEN idx[2 * n] ELSE idx[2 * n + 1]
      BY <2>3, <2>4, TreeComparesAges DEF Winner
    <3>2. Age(idx[2 * n]) \in Nat /\ Age(idx[2 * n + 1]) \in Nat
      BY <2>1, <2>4, RequestsPassUp, TreeComparesAges
    <3>3. Age(idx[2 * n]) <= Age(j) \/ Age(idx[2 * n + 1]) <= Age(j)
      BY <1>3
    <3> HIDE DEF idx, req
    <3>4. Age(idx[n]) <= Age(j)
      BY <1>1, <3>1, <3>2, <3>3
    <3> QED
      BY <2>1, <2>2, <3>4
  <2>5. CASE ~(req[2 * n] /\ req[2 * n + 1])
    <3>1. idx[n] = IF req[2 * n] THEN idx[2 * n] ELSE idx[2 * n + 1]
      BY <1>3, <2>3, <2>5 DEF Winner
    <3> HIDE DEF idx, req
    <3> QED
      BY <1>3, <2>1, <2>2, <2>5, <3>1
  <2> QED
    BY <2>4, <2>5
<1>4. S \in SUBSET Node
  OBVIOUS
<1> HIDE DEF S
<1>5. 1 \in S
  BY <1>1, <1>2, <1>3, <1>4, ToTheRoot
<1> QED
  BY <1>5 DEF S

\* The unit takes the oldest of its requests.
LEMMA OldestGranted ==
  ASSUME TypeOK, Room, AwakeInUse, Held
  PROVE  OldestUnlessStale
<1> SUFFICES ASSUME NEW u \in Fu, LatchesCurrent(u)
             PROVE  gnt(u) = Oldest(Requests(u))
  BY DEF OldestUnlessStale
<1>1. CASE Requests(u) = {}
  BY <1>1, GrantsARequest DEF Oldest
<1>2. CASE Requests(u) # {}
  <2> DEFINE w == idx_tmp(u)[1]
  <2>1. w \in Requests(u) /\ gnt(u) = {w}
    BY <1>2, GrantsARequest
  <2>2. \A j \in Requests(u) : Age(w) <= Age(j)
    BY RootIsOldest
  <2> HIDE DEF w
  <2>3. w \in Oldest(Requests(u))
    BY <2>1, <2>2 DEF Oldest, Age
  <2>4. ASSUME NEW i \in Oldest(Requests(u)) PROVE i = w
    <3>1. i \in Requests(u) /\ Age(i) <= Age(w)
      BY <2>1, <2>4 DEF Oldest, Age
    <3>2. Age(i) = Age(w)
      BY <2>1, <2>2, <3>1, TreeComparesAges
    <3>3. \A k \in {i, w} : k \in Station /\ rs_entry[k].in_use /\ rs_entry[k].tag \in Tag
      BY <2>1, <3>1, InFlightIs DEF Requests, AwakeInUse, Held
    <3>4. rs_entry[i].tag = rs_entry[w].tag
      BY <3>2, <3>3, InFlightIs, AroundTheCircle DEF Age
    <3> QED
      BY <3>3, <3>4 DEF Held
  <2> QED
    BY <2>1, <2>3, <2>4
<1> QED
  BY <1>1, <1>2

---------------------------------------------------------------------------
(* The window of tags in flight, as it moves in one cycle *)

\* Measured from another point of the circle, distances shift.
LEMMA Measured ==
  ASSUME NEW f \in Tag, NEW n \in 0 .. (2 * ROB_DEPTH - 1), NEW t \in Tag
  PROVE  Count(After(f, n), t) = IF n <= Count(f, t) THEN Count(f, t) - n
                                 ELSE (Count(f, t) + 2 * ROB_DEPTH) - n
<1>1. ROB_DEPTH \in Nat \ {0} /\ n \in 0 .. (2 * ROB_DEPTH)
  BY Circle
<1>2. After(f, n) \in Tag
  BY <1>1, AroundTheCircle
<1>3. /\ After(f, n) = (IF f + n < 2 * ROB_DEPTH THEN f + n ELSE (f + n) - 2 * ROB_DEPTH)
      /\ Count(f, t) = (IF f <= t THEN t - f ELSE (t + 2 * ROB_DEPTH) - f)
      /\ Count(After(f, n), t) = (IF After(f, n) <= t THEN t - After(f, n)
                                  ELSE (t + 2 * ROB_DEPTH) - After(f, n))
  BY <1>1, <1>2, Circle
<1> QED
  BY <1>1, <1>2, <1>3 DEF Tag

\* Going on and on.
LEMMA OnAndOn ==
  ASSUME NEW f \in Tag, NEW a \in Nat, NEW b \in Nat, a + b < 2 * ROB_DEPTH
  PROVE  After(After(f, a), b) = After(f, a + b)
<1>1. /\ ROB_DEPTH \in Nat \ {0} /\ a \in 0 .. (2 * ROB_DEPTH) /\ b \in 0 .. (2 * ROB_DEPTH)
      /\ a + b \in 0 .. (2 * ROB_DEPTH) /\ f \in 0 .. (2 * ROB_DEPTH - 1)
  BY Circle DEF Tag
<1>2. After(f, a) \in Tag
  BY <1>1, AroundTheCircle
<1>3. /\ After(f, a) = (IF f + a < 2 * ROB_DEPTH THEN f + a ELSE (f + a) - 2 * ROB_DEPTH)
      /\ After(f, a + b) = (IF f + (a + b) < 2 * ROB_DEPTH THEN f + (a + b)
                            ELSE (f + (a + b)) - 2 * ROB_DEPTH)
      /\ After(After(f, a), b) = (IF After(f, a) + b < 2 * ROB_DEPTH THEN After(f, a) + b
                                  ELSE (After(f, a) + b) - 2 * ROB_DEPTH)
  BY <1>1, <1>2, Circle
<1> QED
  BY <1>1, <1>2, <1>3

\* An instruction that is dispatched is as far from the head as there are
\* instructions before it.
LEMMA DispatchedTags ==
  ASSUME TypeOK, Room, NEW k \in 0 .. (DispatchCount - 1)
  PROVE  After(tail, k) \in Tag /\ Count(head, After(tail, k)) = Count(head, tail) + k
<1> DEFINE c == Count(head, tail)
<1>1. /\ head \in Tag /\ tail \in Tag /\ c \in Nat /\ k \in Nat /\ ROB_DEPTH \in Nat \ {0}
      /\ c + k < 2 * ROB_DEPTH /\ k \in 0 .. (2 * ROB_DEPTH) /\ c + k \in 0 .. (2 * ROB_DEPTH - 1)
  BY InFlightIs, DispatchCounted DEF Room
<1>2. tail = After(head, c)
  BY <1>1, AroundTheCircle
<1>3. After(tail, k) = After(head, c + k)
  BY <1>1, <1>2, OnAndOn
<1> QED
  BY <1>1, <1>3, AroundTheCircle

\* The tags in flight after a cycle, measured before it; those that retire leave
\* at the head, the group dispatched joins at the tail.
LEMMA WindowMoves ==
  ASSUME TypeOK, Room, NEW n \in Retirable,
         head' = After(head, n), tail' = After(tail, DispatchCount)
  PROVE  /\ n \in Nat /\ n <= Count(head, tail)
         /\ head' \in Tag /\ tail' \in Tag
         /\ Count(head', tail') = (Count(head, tail) + DispatchCount) - n
         /\ \A x : x \in InFlight' <=>
              x \in Tag /\ n <= Count(head, x) /\ Count(head, x) < Count(head, tail) + DispatchCount
         /\ \A x : x \in {After(head, k) : k \in 0 .. (n - 1)} <=> x \in Tag /\ Count(head, x) < n
<1> DEFINE c == Count(head, tail)
           m == DispatchCount
<1>1. /\ head \in Tag /\ tail \in Tag /\ c \in 0 .. (2 * ROB_DEPTH - 1) /\ m \in Nat
      /\ ROB_DEPTH \in Nat \ {0} /\ c + m <= ROB_DEPTH
  BY InFlightIs, DispatchCounted DEF Room
<1>2. n \in Nat /\ n <= c
  BY RsAssumption DEF Retirable
<1> HIDE DEF c, m
<1>3. /\ n \in 0 .. (2 * ROB_DEPTH - 1) /\ n \in 0 .. (2 * ROB_DEPTH) /\ m \in 0 .. (2 * ROB_DEPTH)
      /\ c + m < 2 * ROB_DEPTH /\ c \in Nat /\ c + m \in 0 .. (2 * ROB_DEPTH - 1)
      /\ (c + m) - n \in 0 .. (2 * ROB_DEPTH)
  BY <1>1, <1>2
<1>4. head' = After(head, n) /\ tail' = After(tail, m)
  BY DEF m
<1>5. head' \in Tag /\ tail' \in Tag
  BY <1>1, <1>3, <1>4, AroundTheCircle
<1>6. tail = After(head, c)
  BY <1>1, AroundTheCircle DEF c
<1>7. tail' = After(head, c + m)
  BY <1>1, <1>3, <1>4, <1>6, OnAndOn
<1>8. Count(head, tail') = c + m
  BY <1>1, <1>3, <1>7, AroundTheCircle
<1>9. Count(head', tail') = (c + m) - n
  <2>1. n <= Count(head, tail')
    BY <1>1, <1>2, <1>8
  <2> QED
    BY <1>1, <1>3, <1>4, <1>5, <1>8, <2>1, Measured
<1>10. \A x : x \in InFlight' <=> x \in Tag /\ Count(head', x) < (c + m) - n
  BY <1>3, <1>5, <1>9, SpanIs DEF InFlight
<1>11. ASSUME NEW x \in Tag
       PROVE  Count(head', x) < (c + m) - n <=> n <= Count(head, x) /\ Count(head, x) < c + m
  <2>1. Count(head', x) = IF n <= Count(head, x) THEN Count(head, x) - n
                          ELSE (Count(head, x) + 2 * ROB_DEPTH) - n
    BY <1>1, <1>3, <1>4, Measured
  <2>2. Count(head, x) \in Nat
    BY <1>1, AroundTheCircle
  <2> QED
    BY <1>1, <1>2, <1>3, <2>1, <2>2
<1>12. \A x : x \in {After(head, k) : k \in 0 .. (n - 1)} <=> x \in Tag /\ Count(head, x) < n
  BY <1>1, <1>3, SpanIs
<1> QED
  BY <1>2, <1>5, <1>9, <1>10, <1>11, <1>12 DEF c, m

---------------------------------------------------------------------------
(* Dispatch: the stations granted *)

\* The station granted to lane l.
Given(l) == Encoded(Grant(l, rs_avail))

\* Every lane that needs a station is granted a free one of its own.
LEMMA Allocation ==
  ASSUME Room
  PROVE  /\ \A l \in Valid : l \in Occupied(pipe_rename_pkt) /\ Given(l) \in rs_avail
         /\ \A l, m \in Valid : Given(l) = Given(m) => l = m
         /\ \A i : alloc_sel(i) = {l \in Valid : i = Given(l)}
<1>1. rs_avail \in SUBSET (0 .. (RS_DEPTH - 1)) /\ RS_DEPTH \in Nat
  BY Nodes DEF rs_avail, Station
<1>2. ASSUME NEW l \in Valid PROVE l \in Nat /\ l < Cardinality(rs_avail)
  <2>1. l \in 0 .. (MACHINE_WIDTH - 1) /\ MACHINE_WIDTH \in Nat
    BY DispatchCounted DEF Valid, Lane
  <2>2. Cardinality(rs_avail) \in Nat /\ Cardinality(rs_avail) >= MACHINE_WIDTH
    BY <1>1, <1>2, RequestsFinite DEF Room
  <2> QED
    BY <2>1, <2>2
<1>3. \A l \in Valid : Given(l) \in rs_avail /\ Grant(l, rs_avail) = {Given(l)}
  BY <1>1, <1>2, GrantIsOne DEF Given
<1>4. \A l, m \in Valid : Given(l) = Given(m) => l = m
  BY <1>1, <1>2, GrantsDiffer DEF Given
<1>5. \A l \in Valid : l \in Occupied(pipe_rename_pkt)
  BY DEF Valid, Occupied
<1> QED
  BY <1>3, <1>4, <1>5 DEF alloc_sel

\* A granted unit issues a station in use.
LEMMA IssuedInUse ==
  ASSUME AwakeInUse
  PROVE  \A i \in issue_en : i \in Station /\ rs_entry[i].in_use
<1> TAKE i \in issue_en
<1>1. PICK u \in Fu : i \in gnt(u)
  BY DEF issue_en
<1>2. i \in Requests(u)
  BY <1>1, GrantsARequest
<1> QED
  BY <1>2 DEF Requests, AwakeInUse

\* A station that is neither issued nor loaded.
Kept(i, cdb) ==
  [rs_entry[i] EXCEPT !.waits = @ \ cdb,
                      !.wake_up = @ \/ (rs_entry[i].in_use /\ rs_entry[i].waits = {})]

\* What a cycle does to a station.
LEMMA StationSteps ==
  ASSUME TypeOK, Room, AwakeInUse, NEW cdb, Cycle(cdb), NEW i \in Station
  PROVE  \/ i \in issue_en /\ rs_entry[i].in_use /\ rs_entry'[i] = EmptyStation
         \/ /\ i \notin issue_en /\ ~rs_entry[i].in_use
            /\ \E l \in Valid : i = Given(l) /\ rs_entry'[i] = Load(l, cdb)
         \/ /\ i \notin issue_en /\ \A l \in Valid : i # Given(l)
            /\ rs_entry'[i] = Kept(i, cdb)
<1>1. ~pipe_flush /\ rs_entry'[i] = NextStation(i, cdb, issue_en)
  BY DEF Cycle
<1>2. CASE i \in issue_en
  BY <1>1, <1>2, IssuedInUse DEF NextStation
<1>3. CASE i \notin issue_en /\ alloc_sel(i) # {}
  <2>1. PICK l \in Valid : i = Given(l)
    BY <1>3, Allocation
  <2>2. alloc_sel(i) = {l}
    BY <2>1, Allocation
  <2>3. (CHOOSE k \in alloc_sel(i) : TRUE) = l
    BY <2>2
  <2>4. rs_entry'[i] = Load(l, cdb)
    BY <1>1, <1>3, <2>3 DEF NextStation
  <2>5. ~rs_entry[i].in_use
    BY <2>1, Allocation DEF rs_avail
  <2> QED
    BY <1>3, <2>1, <2>4, <2>5
<1>4. CASE i \notin issue_en /\ alloc_sel(i) = {}
  <2>1. \A l \in Valid : i # Given(l)
    BY <1>4, Allocation
  <2>2. rs_entry'[i] = Kept(i, cdb)
    BY <1>1, <1>4 DEF NextStation, Kept
  <2> QED
    BY <1>4, <2>1, <2>2
<1> QED
  BY <1>2, <1>3, <1>4

\* The stations free after a cycle are at least those that were, without the
\* stations granted in it.
LEMMA StationsLeft ==
  ASSUME TypeOK, Room, AwakeInUse, NEW cdb, Cycle(cdb)
  PROVE  /\ rs_avail_cnt \in Int /\ Cardinality(rs_avail') \in Nat
         /\ Cardinality(rs_avail') >= rs_avail_cnt
<1> DEFINE given == {Given(l) : l \in Valid}
           f == [l \in Valid |-> Given(l)]
           left == rs_avail \ given
<1>1. IsFiniteSet(Valid) /\ Cardinality(Valid) \in Nat
  <2>1. Valid \in SUBSET (0 .. (MACHINE_WIDTH - 1))
    BY DEF Valid, Lane
  <2> QED
    BY <2>1, DispatchCounted, RequestsFinite
<1>2. IsFiniteSet(rs_avail) /\ Cardinality(rs_avail) \in Nat
  <2>1. rs_avail \in SUBSET (0 .. (RS_DEPTH - 1))
    BY DEF rs_avail, Station
  <2> QED
    BY <2>1, Nodes, RequestsFinite
<1>3. f \in Surjection(Valid, given)
  BY DEF Surjection
<1>4. IsFiniteSet(given) /\ Cardinality(given) <= Cardinality(Valid)
  BY <1>1, <1>3, FS_Surjection
<1>5. given \subseteq rs_avail
  BY Allocation
<1>6. IsFiniteSet(rs_avail') /\ Cardinality(rs_avail') \in Nat
  <2>1. rs_avail' \in SUBSET (0 .. (RS_DEPTH - 1))
    BY DEF rs_avail, Station
  <2> QED
    BY <2>1, Nodes, RequestsFinite
<1>7. left \subseteq rs_avail'
  <2> SUFFICES ASSUME NEW i \in rs_avail, i \notin given PROVE i \in rs_avail'
    OBVIOUS
  <2>1. i \in Station /\ ~rs_entry[i].in_use /\ \A l \in Valid : i # Given(l)
    BY DEF rs_avail
  <2>2. rs_entry'[i] = Kept(i, cdb)
    BY <2>1, StationSteps
  <2>3. rs_entry'[i].in_use = rs_entry[i].in_use
    BY <2>1, <2>2 DEF Kept, TypeOK, RsEntry
  <2> QED
    BY <2>1, <2>3 DEF rs_avail
<1> HIDE DEF given, left
<1>8. IsFiniteSet(left) /\ Cardinality(left) \in Nat /\ Cardinality(given) \in Nat
      /\ Cardinality(rs_avail) = Cardinality(left) + Cardinality(given)
  <2>1. left \in SUBSET rs_avail
    BY DEF left
  <2>2. IsFiniteSet(left) /\ Cardinality(left) \in Nat /\ Cardinality(given) \in Nat
    BY <1>2, <1>4, <2>1, FS_Subset, FS_CardinalityType
  <2>3. left \cup given = rs_avail /\ left \cap given = {}
    BY <1>5 DEF left
  <2>4. Cardinality(left \cap given) = 0
    BY <2>3, FS_EmptySet
  <2>5. Cardinality(left \cup given)
          = Cardinality(left) + Cardinality(given) - Cardinality(left \cap given)
    BY <1>4, <2>2, FS_Union
  <2>6. Cardinality(rs_avail) = Cardinality(left) + Cardinality(given) - 0
    BY <2>3, <2>4, <2>5, Zenon
  <2> QED
    BY <2>2, <2>6
<1>9. Cardinality(left) <= Cardinality(rs_avail')
  BY <1>6, <1>7, FS_Subset
<1> QED
  BY <1>1, <1>2, <1>4, <1>6, <1>8, <1>9 DEF rs_avail_cnt

---------------------------------------------------------------------------
(* The inductive invariant *)

\* A station holds only sources renamed before it, so none is mistaken for a
\* younger instruction that takes the same tag.
SourcesOlder ==
  \A i \in Station : rs_entry[i].in_use =>
    \A t \in rs_entry[i].srcs : Count(t, rs_entry[i].tag) \in 1 .. (ROB_DEPTH - 1)

\* The sources of a group being dispatched are in flight and not written, or are
\* earlier in the group.
PacketSources ==
  \A l \in Lane : pipe_rename_pkt[l] # None =>
    \A t \in pipe_rename_pkt[l].srcs :
      /\ \/ t \in InFlight \ complete
         \/ \E k \in 0 .. (Position(pipe_rename_pkt, l) - 1) : t = After(tail, k)
      /\ Count(t, LaneTag(l)) \in 1 .. (ROB_DEPTH - 1)

IInv ==
  /\ TypeOK
  /\ Room
  /\ AwakeInUse
  /\ Held
  /\ SourcesOlder
  /\ PacketSources
  /\ OperandsTracked

\* A cycle without a flush: cdb are the results, n instructions retire.
Clocked(cdb, n) ==
  /\ cdb \in SUBSET executing
  /\ n \in Retirable
  /\ Cycle(cdb)
  /\ head' = After(head, n)
  /\ complete' = (complete \cup cdb) \ {After(head, k) : k \in 0 .. (n - 1)}

\* Whatever executes, has completed or is in a station is nearer to the head than
\* the tail is; the lanes being dispatched follow from the tail on.
LEMMA Ages ==
  ASSUME TypeOK, Room, Held
  PROVE  /\ \A x \in Tag : Count(head, x) \in Nat
         /\ \A x \in executing \cup complete : x \in Tag /\ Count(head, x) < Count(head, tail)
         /\ \A i \in Station : rs_entry[i].in_use =>
              rs_entry[i].tag \in Tag /\ Count(head, rs_entry[i].tag) < Count(head, tail)
         /\ \A l \in Occupied(pipe_rename_pkt) :
              /\ Position(pipe_rename_pkt, l) \in 0 .. (DispatchCount - 1)
              /\ LaneTag(l) \in Tag
              /\ Count(head, LaneTag(l)) = Count(head, tail) + Position(pipe_rename_pkt, l)
         /\ \A l, m \in Occupied(pipe_rename_pkt) : LaneTag(l) = LaneTag(m) => l = m
<1>1. \A x \in Tag : Count(head, x) \in Nat
  BY InFlightIs, AroundTheCircle
<1>2. \A x \in executing \cup complete : x \in Tag /\ Count(head, x) < Count(head, tail)
  <2>1. executing \cup complete \subseteq InFlight
    BY DEF TypeOK
  <2> QED
    BY <2>1, InFlightIs
<1>3. \A i \in Station : rs_entry[i].in_use =>
        rs_entry[i].tag \in Tag /\ Count(head, rs_entry[i].tag) < Count(head, tail)
  BY InFlightIs DEF Held
<1>4. \A l \in Occupied(pipe_rename_pkt) :
        Position(pipe_rename_pkt, l) \in 0 .. (DispatchCount - 1)
  BY Positions DEF DispatchCount
<1>5. \A l \in Occupied(pipe_rename_pkt) :
        /\ LaneTag(l) \in Tag
        /\ Count(head, LaneTag(l)) = Count(head, tail) + Position(pipe_rename_pkt, l)
  BY <1>4, DispatchedTags DEF LaneTag
<1>6. ASSUME NEW l \in Occupied(pipe_rename_pkt), NEW m \in Occupied(pipe_rename_pkt),
             LaneTag(l) = LaneTag(m)
      PROVE  l = m
  <2> DEFINE p == Position(pipe_rename_pkt, l)
             q == Position(pipe_rename_pkt, m)
             c == Count(head, tail)
  <2>1. c + p = c + q
    BY <1>5, <1>6
  <2>2. c \in Nat /\ p \in Int /\ q \in Int
    BY <1>4, InFlightIs
  <2>3. p = q
    <3> HIDE DEF p, q, c
    <3> QED
      BY <2>1, <2>2
  <2> QED
    BY <2>3, Positions
<1> QED
  BY <1>1, <1>2, <1>3, <1>4, <1>5, <1>6

\* What is in flight and not written, and what is in flight at all, after a cycle.
LEMMA StillAwaited ==
  ASSUME TypeOK, Room, Held, NEW cdb, NEW n, Clocked(cdb, n)
  PROVE  /\ \A x \in Tag : Count(head, x) < Count(head, tail) =>
              /\ x \in InFlight
              /\ x \in InFlight' \ complete' <=> x \in InFlight \ (complete \cup cdb)
         /\ \A x \in Tag : ~(Count(head, x) < Count(head, tail)) =>
              /\ x \notin executing \cup complete \cup cdb \cup complete' \cup InFlight
              /\ x \in InFlight' <=> Count(head, x) < Count(head, tail) + DispatchCount
<1> DEFINE c == Count(head, tail)
<1>1. /\ n \in Nat /\ n <= c /\ c \in Nat /\ DispatchCount \in Nat
      /\ \A x : x \in InFlight' <=> x \in Tag /\ n <= Count(head, x)
                                    /\ Count(head, x) < c + DispatchCount
      /\ \A x : x \in {After(head, k) : k \in 0 .. (n - 1)} <=> x \in Tag /\ Count(head, x) < n
  BY WindowMoves, InFlightIs, DispatchCounted DEF Clocked, Cycle
<1>2. \A x : x \in InFlight <=> x \in Tag /\ Count(head, x) < c
  BY InFlightIs
<1>3. \A x \in Tag : Count(head, x) \in Nat
  BY Ages
<1>4. /\ complete' = (complete \cup cdb) \ {After(head, k) : k \in 0 .. (n - 1)}
      /\ cdb \subseteq executing
  BY DEF Clocked
<1>5. \A x \in Tag : Count(head, x) < n => x \in complete
  <2>1. \A k \in 0 .. (n - 1) : After(head, k) \in complete
    BY DEF Clocked, Retirable
  <2> QED
    BY <1>1, <2>1
<1>6. \A x \in executing \cup complete : x \in Tag /\ Count(head, x) < c
  BY Ages
<1> HIDE DEF c
<1>7. ASSUME NEW x \in Tag, Count(head, x) < c
      PROVE  /\ x \in InFlight
             /\ x \in InFlight' \ complete' <=> x \in InFlight \ (complete \cup cdb)
  <2>1. x \in InFlight /\ Count(head, x) \in Nat /\ Count(head, x) < c + DispatchCount
    BY <1>1, <1>2, <1>3, <1>7
  <2>2. x \in InFlight' <=> n <= Count(head, x)
    BY <1>1, <2>1
  <2>3. x \in complete' <=> x \in complete \cup cdb /\ ~(Count(head, x) < n)
    BY <1>1, <1>4
  <2>4. n <= Count(head, x) <=> ~(Count(head, x) < n)
    BY <1>1, <2>1
  <2> QED
    BY <1>5, <2>1, <2>2, <2>3, <2>4
<1>8. ASSUME NEW x \in Tag, ~(Count(head, x) < c)
      PROVE  /\ x \notin executing \cup complete \cup cdb \cup complete' \cup InFlight
             /\ x \in InFlight' <=> Count(head, x) < c + DispatchCount
  <2>1. x \notin executing \cup complete \cup cdb \cup InFlight
    BY <1>2, <1>4, <1>6, <1>8
  <2>2. n <= Count(head, x)
    BY <1>1, <1>3, <1>8
  <2> QED
    BY <1>1, <1>4, <2>1, <2>2
<1> QED
  BY <1>7, <1>8 DEF c

---------------------------------------------------------------------------
(* What a station holds after a cycle *)

\* An empty station is a station.
LEMMA EmptyIs ==
  EmptyStation \in RsEntry /\ ~EmptyStation.in_use /\ ~EmptyStation.wake_up
  /\ EmptyStation.waits \subseteq EmptyStation.srcs
<1>1. 0 \in Tag
  BY Circle DEF Tag
<1> QED
  BY <1>1 DEF EmptyStation, RsEntry

\* A station that is kept keeps its instruction.
LEMMA KeptIs ==
  ASSUME TypeOK, NEW i \in Station, NEW cdb
  PROVE  /\ Kept(i, cdb) \in RsEntry
         /\ Kept(i, cdb).waits \subseteq Kept(i, cdb).srcs
         /\ Kept(i, cdb).in_use <=> rs_entry[i].in_use
         /\ Kept(i, cdb).tag = rs_entry[i].tag
         /\ Kept(i, cdb).srcs = rs_entry[i].srcs
         /\ Kept(i, cdb).waits = rs_entry[i].waits \ cdb
         /\ Kept(i, cdb).wake_up <=> \/ rs_entry[i].wake_up
                                     \/ rs_entry[i].in_use /\ rs_entry[i].waits = {}
<1>1. rs_entry[i] \in RsEntry /\ rs_entry[i].waits \subseteq rs_entry[i].srcs
  BY DEF TypeOK
<1> QED
  BY <1>1 DEF Kept, RsEntry

\* A station that is loaded takes the instruction of its lane.
LEMMA LoadIs ==
  ASSUME TypeOK, Room, Held, NEW l \in Valid, NEW cdb
  PROVE  /\ l \in Lane /\ pipe_rename_pkt[l] # None
         /\ pipe_rename_pkt[l].srcs \subseteq Tag
         /\ Load(l, cdb) \in RsEntry
         /\ Load(l, cdb).in_use
         /\ Load(l, cdb).tag = LaneTag(l)
         /\ Load(l, cdb).srcs = pipe_rename_pkt[l].srcs
         /\ Load(l, cdb).waits = pipe_rename_pkt[l].srcs \ cdb
         /\ Load(l, cdb).wake_up <=> pipe_rename_pkt[l].srcs = {}
<1>1. l \in Lane /\ pipe_rename_pkt[l] # None /\ l \in Occupied(pipe_rename_pkt)
  BY DEF Valid, Occupied
<1>2. pipe_rename_pkt[l] \in Packet
  BY <1>1 DEF TypeOK
<1>3. pipe_rename_pkt[l].fu \in Fu \cup {None} /\ pipe_rename_pkt[l].srcs \in SUBSET Tag
  BY <1>2 DEF Packet
<1>4. LaneTag(l) \in Tag
  BY <1>1, Ages
<1> QED
  BY <1>1, <1>3, <1>4 DEF Load, RsEntry

\* The stations have their type after a cycle.
LEMMA StationsTyped ==
  ASSUME TypeOK, Room, AwakeInUse, Held, NEW cdb, Cycle(cdb)
  PROVE  /\ rs_entry' \in [Station -> RsEntry]
         /\ \A i \in Station : rs_entry'[i].waits \subseteq rs_entry'[i].srcs
         /\ \A i \in Station : rs_entry'[i].wake_up => rs_entry'[i].in_use
<1>1. ASSUME NEW i \in Station
      PROVE  /\ rs_entry'[i] \in RsEntry
             /\ rs_entry'[i].waits \subseteq rs_entry'[i].srcs
             /\ rs_entry'[i].wake_up => rs_entry'[i].in_use
  <2>1. CASE rs_entry'[i] = EmptyStation
    BY <2>1, EmptyIs
  <2>2. ASSUME NEW l \in Valid, rs_entry'[i] = Load(l, cdb)
        PROVE  /\ rs_entry'[i] \in RsEntry
               /\ rs_entry'[i].waits \subseteq rs_entry'[i].srcs
               /\ rs_entry'[i].wake_up => rs_entry'[i].in_use
    BY <2>2, LoadIs
  <2>3. CASE rs_entry'[i] = Kept(i, cdb)
    BY <2>3, KeptIs DEF AwakeInUse
  <2> QED
    BY <2>1, <2>2, <2>3, StationSteps
<1>2. rs_entry' = [i \in Station |-> rs_entry'[i]]
  BY DEF Cycle
<1> QED
  BY <1>1, <1>2

\* The bits the nodes hold have their type after a cycle, or a flush.
LEMMA LatchesTyped ==
  ASSUME TypeOK, pos_tmp' = [u \in Fu |-> LET p == SettledPos(u) IN [k \in Inner |-> p[k]]]
  PROVE  pos_tmp' \in [Fu -> [Inner -> {0, 1}]]
<1>1. ASSUME NEW u \in Fu PROVE [k \in Inner |-> SettledPos(u)[k]] \in [Inner -> {0, 1}]
  BY PositionTree, Nodes
<1> QED
  BY <1>1

\* What executes or has completed is still in flight after a cycle.
LEMMA AwaitedTyped ==
  ASSUME TypeOK, Room, AwakeInUse, Held, NEW cdb, NEW n, Clocked(cdb, n)
  PROVE  executing' \cup complete' \subseteq InFlight' /\ executing' \cap complete' = {}
<1> DEFINE c == Count(head, tail)
<1>1. /\ executing' = (executing \cup Issued \cup OtherBank) \ cdb
      /\ complete' = (complete \cup cdb) \ {After(head, k) : k \in 0 .. (n - 1)}
      /\ cdb \subseteq executing /\ executing \cap complete = {}
  BY DEF Clocked, Cycle, TypeOK
<1>2. ASSUME NEW x \in executing \cup Issued, x \notin cdb
      PROVE  x \in InFlight' \ complete'
  <2>1. x \in Tag /\ Count(head, x) < c /\ x \notin complete
    <3>1. CASE x \in executing
      BY <1>1, <3>1, Ages
    <3>2. CASE x \in Issued
      <4>1. PICK i \in issue_en : x = rs_entry[i].tag
        BY <3>2 DEF Issued
      <4>2. i \in Station /\ rs_entry[i].in_use
        BY IssuedInUse
      <4> QED
        BY <4>1, <4>2, Ages DEF Held
    <3> QED
      BY <3>1, <3>2
  <2> QED
    BY <1>2, <2>1, StillAwaited
<1>3. ASSUME NEW x \in OtherBank PROVE x \in InFlight' \ complete'
  <2>1. PICK l \in Occupied(pipe_rename_pkt) : x = LaneTag(l)
    BY DEF OtherBank, Occupied
  <2>2. /\ x \in Tag /\ Count(head, x) = c + Position(pipe_rename_pkt, l)
        /\ Position(pipe_rename_pkt, l) \in 0 .. (DispatchCount - 1)
    BY <2>1, Ages
  <2>3. c \in Nat /\ DispatchCount \in Nat
    BY InFlightIs, DispatchCounted
  <2>4. ~(Count(head, x) < c) /\ Count(head, x) < c + DispatchCount
    <3> HIDE DEF c
    <3> QED
      BY <2>2, <2>3
  <2> QED
    BY <2>2, <2>4, StillAwaited
<1>4. ASSUME NEW x \in complete' PROVE x \in InFlight'
  <2>1. x \in complete \cup executing /\ x \notin {After(head, k) : k \in 0 .. (n - 1)}
    BY <1>1
  <2>2. x \in Tag /\ Count(head, x) < c
    BY <2>1, Ages
  <2>3. /\ n \in Nat /\ Count(head, x) \in Nat /\ c \in Nat /\ DispatchCount \in Nat
        /\ ~(Count(head, x) < n)
        /\ x \in InFlight' <=> n <= Count(head, x) /\ Count(head, x) < c + DispatchCount
    BY <2>1, <2>2, Ages, WindowMoves, InFlightIs, DispatchCounted DEF Clocked, Cycle
  <2> HIDE DEF c
  <2> QED
    BY <2>2, <2>3
<1> QED
  BY <1>1, <1>2, <1>3, <1>4

---------------------------------------------------------------------------
(* What a cycle preserves *)

\* A station in use after a cycle was kept, or was loaded from a lane.
LEMMA UsedAfter ==
  ASSUME TypeOK, Room, AwakeInUse, Held, NEW cdb, Cycle(cdb),
         NEW i \in Station, rs_entry'[i].in_use
  PROVE  \/ /\ i \notin issue_en /\ rs_entry[i].in_use
            /\ rs_entry'[i] = Kept(i, cdb)
         \/ /\ i \notin issue_en /\ ~rs_entry[i].in_use
            /\ \E l \in Valid : i = Given(l) /\ rs_entry'[i] = Load(l, cdb)
<1>1. CASE rs_entry'[i] = EmptyStation
  BY <1>1, EmptyIs
<1>2. CASE /\ i \notin issue_en
           /\ rs_entry'[i] = Kept(i, cdb)
  BY <1>2, KeptIs
<1> QED
  BY <1>1, <1>2, StationSteps

\* The instructions that wait in a station are held after a cycle.
LEMMA HeldAfter ==
  ASSUME TypeOK, Room, AwakeInUse, Held, NEW cdb, NEW n, Clocked(cdb, n)
  PROVE  Held'
<1> DEFINE c == Count(head, tail)
<1>1. /\ Cycle(cdb) /\ cdb \subseteq executing
      /\ executing' = (executing \cup Issued \cup OtherBank) \ cdb
  BY DEF Clocked, Cycle
<1>2. c \in Nat /\ DispatchCount \in Nat
  BY InFlightIs, DispatchCounted
<1>3. ASSUME NEW l \in Valid
      PROVE  /\ LaneTag(l) \in Tag /\ ~(Count(head, LaneTag(l)) < c)
             /\ Count(head, LaneTag(l)) < c + DispatchCount
             /\ LaneTag(l) \notin OtherBank
  <2>1. l \in Occupied(pipe_rename_pkt)
    BY Allocation
  <2>2. /\ Count(head, LaneTag(l)) = c + Position(pipe_rename_pkt, l) /\ LaneTag(l) \in Tag
        /\ Position(pipe_rename_pkt, l) \in 0 .. (DispatchCount - 1)
    BY <2>1, Ages
  <2>3. LaneTag(l) \notin OtherBank
    <3> SUFFICES ASSUME NEW m \in Lane, pipe_rename_pkt[m] # None, m \notin Valid,
                        LaneTag(l) = LaneTag(m)
                 PROVE  FALSE
      BY DEF OtherBank
    <3>1. m \in Occupied(pipe_rename_pkt)
      BY DEF Occupied
    <3> QED
      BY <2>1, <3>1, Ages
  <2> HIDE DEF c
  <2> QED
    BY <1>2, <2>2, <2>3
<1>4. ASSUME NEW x \in Issued PROVE x \in Tag /\ Count(head, x) < c
  <2>1. PICK i \in issue_en : x = rs_entry[i].tag
    BY DEF Issued
  <2> QED
    BY <2>1, IssuedInUse, Ages
<1>5. ASSUME NEW x \in OtherBank PROVE x \in Tag /\ ~(Count(head, x) < c)
  <2>1. PICK l \in Occupied(pipe_rename_pkt) : x = LaneTag(l)
    BY DEF OtherBank, Occupied
  <2>2. /\ x \in Tag /\ Count(head, x) = c + Position(pipe_rename_pkt, l)
        /\ Position(pipe_rename_pkt, l) \in 0 .. (DispatchCount - 1)
    BY <2>1, Ages
  <2> HIDE DEF c
  <2> QED
    BY <1>2, <2>2
<1>6. ASSUME NEW i \in Station, rs_entry'[i].in_use
      PROVE  rs_entry'[i].tag \in InFlight' \ (executing' \cup complete')
  <2>1. CASE i \notin issue_en /\ rs_entry[i].in_use /\ rs_entry'[i] = Kept(i, cdb)
    <3>1. /\ rs_entry'[i].tag = rs_entry[i].tag
          /\ rs_entry[i].tag \in Tag /\ Count(head, rs_entry[i].tag) < c
          /\ rs_entry[i].tag \in InFlight \ (executing \cup complete)
      BY <2>1, KeptIs, Ages DEF Held
    <3>2. rs_entry[i].tag \notin Issued
      <4> SUFFICES ASSUME NEW j \in issue_en, rs_entry[j].tag = rs_entry[i].tag PROVE FALSE
        BY DEF Issued
      <4> QED
        BY <2>1, IssuedInUse DEF Held
    <3>3. rs_entry[i].tag \notin OtherBank
      BY <1>5, <3>1
    <3>4. rs_entry[i].tag \in InFlight' \ complete'
      BY <1>1, <3>1, StillAwaited
    <3> QED
      BY <1>1, <3>1, <3>2, <3>3, <3>4
  <2>2. ASSUME NEW l \in Valid, rs_entry'[i] = Load(l, cdb)
        PROVE  rs_entry'[i].tag \in InFlight' \ (executing' \cup complete')
    <3>1. rs_entry'[i].tag = LaneTag(l)
      BY <2>2, LoadIs
    <3>2. LaneTag(l) \in InFlight' \ complete' /\ LaneTag(l) \notin executing
      BY <1>3, StillAwaited
    <3>3. LaneTag(l) \notin Issued /\ LaneTag(l) \notin OtherBank
      BY <1>3, <1>4
    <3> QED
      BY <1>1, <3>1, <3>2, <3>3
  <2> QED
    BY <1>1, <1>6, <2>1, <2>2, UsedAfter
<1>7. ASSUME NEW i \in Station, NEW j \in Station, rs_entry'[i].in_use, rs_entry'[j].in_use,
             rs_entry'[i].tag = rs_entry'[j].tag
      PROVE  i = j
  <2> DEFINE IsKept(k) == /\ rs_entry[k].in_use /\ rs_entry'[k].tag = rs_entry[k].tag
                          /\ Count(head, rs_entry'[k].tag) < c
             IsLoaded(k) == \E l \in Valid : /\ k = Given(l) /\ rs_entry'[k].tag = LaneTag(l)
                                             /\ ~(Count(head, rs_entry'[k].tag) < c)
  <2>1. \A k \in {i, j} : IsKept(k) \/ IsLoaded(k)
    <3> TAKE k \in {i, j}
    <3>1. k \in Station /\ rs_entry'[k].in_use
      BY <1>7
    <3>2. CASE rs_entry[k].in_use /\ rs_entry'[k] = Kept(k, cdb)
      BY <3>1, <3>2, KeptIs, Ages
    <3>3. ASSUME NEW l \in Valid, k = Given(l), rs_entry'[k] = Load(l, cdb) PROVE IsLoaded(k)
      BY <1>3, <3>3, LoadIs
    <3> QED
      BY <1>1, <3>1, <3>2, <3>3, UsedAfter
  <2>2. CASE IsKept(i) /\ IsKept(j)
    BY <1>7, <2>2 DEF Held
  <2>3. CASE IsLoaded(i) /\ IsLoaded(j)
    <3>1. PICK l \in Valid : i = Given(l) /\ rs_entry'[i].tag = LaneTag(l)
      BY <2>3
    <3>2. PICK m \in Valid : j = Given(m) /\ rs_entry'[j].tag = LaneTag(m)
      BY <2>3
    <3>3. l = m
      BY <1>7, <3>1, <3>2, Allocation, Ages
    <3> QED
      BY <3>1, <3>2, <3>3
  <2> QED
    BY <1>7, <2>1, <2>2, <2>3
<1>8. ASSUME NEW t \in InFlight', t \notin executing', t \notin complete'
      PROVE  \E i \in Station : rs_entry'[i].in_use /\ rs_entry'[i].tag = t
  <2>1. t \in Tag /\ Count(head, t) \in Nat /\ Count(head, t) < c + DispatchCount
    BY <1>8, WindowMoves, Ages DEF Clocked, Cycle
  <2>2. CASE Count(head, t) < c
    <3>1. t \in InFlight \ (complete \cup cdb)
      BY <1>8, <2>1, <2>2, StillAwaited
    <3>2. t \notin executing /\ t \notin Issued
      BY <1>1, <1>8, <3>1
    <3>3. PICK i \in Station : rs_entry[i].in_use /\ rs_entry[i].tag = t
      BY <3>1, <3>2 DEF Held
    <3>4. i \notin issue_en
      BY <3>2, <3>3 DEF Issued
    <3>5. rs_entry'[i] = Kept(i, cdb)
      BY <1>1, <3>3, <3>4, StationSteps
    <3> QED
      BY <3>3, <3>5, KeptIs
  <2>3. CASE ~(Count(head, t) < c)
    <3> DEFINE k == Count(head, t) - c
    <3>1. k \in 0 .. (DispatchCount - 1) /\ Count(head, t) = c + k
      <4> HIDE DEF c
      <4> QED
        BY <1>2, <2>1, <2>3
    <3> HIDE DEF k
    <3>2. PICK l \in Occupied(pipe_rename_pkt) : Position(pipe_rename_pkt, l) = k
      BY <3>1, Positions DEF DispatchCount
    <3>3. LaneTag(l) \in Tag /\ Count(head, LaneTag(l)) = Count(head, t)
      BY <3>1, <3>2, Ages
    <3>4. LaneTag(l) = t
      BY <2>1, <3>3, InFlightIs, AroundTheCircle
    <3>5. t \notin cdb /\ t \notin executing
      BY <1>1, <2>1, <2>3, StillAwaited
    <3>6. l \in Valid
      BY <1>1, <1>8, <3>4, <3>5 DEF OtherBank, Occupied
    <3>7. Given(l) \in Station /\ ~rs_entry[Given(l)].in_use
      BY <3>6, Allocation DEF rs_avail
    <3>8. Given(l) \notin issue_en
      BY <3>7, IssuedInUse
    <3>9. PICK m \in Valid : Given(l) = Given(m) /\ rs_entry'[Given(l)] = Load(m, cdb)
      BY <1>1, <3>6, <3>7, <3>8, StationSteps
    <3>10. m = l
      BY <3>6, <3>9, Allocation
    <3> QED
      BY <3>4, <3>7, <3>9, <3>10, LoadIs
  <2> QED
    BY <2>2, <2>3
<1> QED
  BY <1>6, <1>7, <1>8 DEF Held

\* A source of an instruction in flight is no tag that joins the window now.
LEMMA SourcesNotReused ==
  ASSUME TypeOK, Room, NEW t \in Tag, NEW x \in Tag, Count(head, x) < Count(head, tail),
         Count(t, x) \in 1 .. (ROB_DEPTH - 1),
         ~(Count(head, t) < Count(head, tail))
  PROVE  ~(Count(head, t) < Count(head, tail) + DispatchCount)
<1> DEFINE c == Count(head, tail)
           a == Count(head, t)
<1>1. /\ head \in Tag /\ c \in Nat /\ DispatchCount \in Nat /\ ROB_DEPTH \in Nat \ {0}
      /\ c + DispatchCount <= ROB_DEPTH
      /\ a \in 0 .. (2 * ROB_DEPTH - 1) /\ After(head, a) = t /\ Count(head, x) \in Nat
  BY InFlightIs, DispatchCounted, AroundTheCircle DEF Room
<1>2. Count(t, x) = IF a <= Count(head, x) THEN Count(head, x) - a
                    ELSE (Count(head, x) + 2 * ROB_DEPTH) - a
  <2> HIDE DEF a
  <2> QED
    BY <1>1, Measured
<1>3. Count(head, x) < c /\ ~(a < c)
  OBVIOUS
<1> HIDE DEF c, a
<1>4. ~(a < c + DispatchCount)
  BY <1>1, <1>2, <1>3
<1> QED
  BY <1>4 DEF a, c

\* The operands are tracked through a cycle.
LEMMA OperandsAfter ==
  ASSUME IInv, NEW cdb, NEW n, Clocked(cdb, n)
  PROVE  OperandsTracked'
<1> /\ TypeOK /\ Room /\ AwakeInUse /\ Held
    /\ SourcesOlder /\ PacketSources /\ OperandsTracked
  BY DEF IInv
<1> DEFINE c == Count(head, tail)
<1>1. Cycle(cdb) /\ cdb \subseteq executing
  BY DEF Clocked
<1>2. SUFFICES ASSUME NEW i \in Station, rs_entry'[i].in_use
               PROVE  /\ rs_entry'[i].waits
                           = {t \in rs_entry'[i].srcs : t \in InFlight' \ complete'}
                      /\ rs_entry'[i].wake_up => rs_entry'[i].waits = {}
  BY DEF OperandsTracked
<1>3. CASE rs_entry[i].in_use /\ rs_entry'[i] = Kept(i, cdb)
  <2>1. /\ rs_entry'[i].srcs = rs_entry[i].srcs
        /\ rs_entry'[i].waits = rs_entry[i].waits \ cdb
        /\ rs_entry'[i].wake_up => rs_entry[i].wake_up \/ rs_entry[i].waits = {}
    BY <1>3, KeptIs
  <2>2. /\ rs_entry[i].waits = {t \in rs_entry[i].srcs : t \in InFlight \ complete}
        /\ rs_entry[i].wake_up => rs_entry[i].waits = {}
    BY <1>3 DEF OperandsTracked
  <2>3. rs_entry[i].tag \in Tag /\ Count(head, rs_entry[i].tag) < c
    BY <1>3, Ages
  <2>4. ASSUME NEW t \in rs_entry[i].srcs
        PROVE  t \in InFlight' \ complete' <=> t \in InFlight \ (complete \cup cdb)
    <3>1. t \in Tag
      BY DEF TypeOK, RsEntry
    <3>2. CASE Count(head, t) < c
      BY <3>1, <3>2, StillAwaited
    <3>3. CASE ~(Count(head, t) < c)
      <4>1. Count(t, rs_entry[i].tag) \in 1 .. (ROB_DEPTH - 1)
        BY <1>3 DEF SourcesOlder
      <4>2. ~(Count(head, t) < Count(head, tail) + DispatchCount)
        BY <2>3, <3>1, <3>3, <4>1, SourcesNotReused
      <4>3. t \notin InFlight' /\ t \notin InFlight
        BY <3>1, <3>3, <4>2, StillAwaited
      <4> QED
        BY <4>3
    <3> QED
      BY <3>2, <3>3
  <2> QED
    BY <2>1, <2>2, <2>4
<1>4. ASSUME NEW l \in Valid, rs_entry'[i] = Load(l, cdb)
      PROVE  /\ rs_entry'[i].waits = {t \in rs_entry'[i].srcs : t \in InFlight' \ complete'}
             /\ rs_entry'[i].wake_up => rs_entry'[i].waits = {}
  <2>1. /\ l \in Lane /\ pipe_rename_pkt[l] # None
        /\ pipe_rename_pkt[l].srcs \subseteq Tag
        /\ rs_entry'[i].srcs = pipe_rename_pkt[l].srcs
        /\ rs_entry'[i].waits = pipe_rename_pkt[l].srcs \ cdb
        /\ rs_entry'[i].wake_up => pipe_rename_pkt[l].srcs = {}
    BY <1>4, LoadIs
  <2>2. ASSUME NEW t \in pipe_rename_pkt[l].srcs
        PROVE  t \in InFlight' \ complete' <=> t \notin cdb
    <3>1. t \in Tag
      BY <2>1
    <3>2. CASE t \in InFlight \ complete
      <4>1. Count(head, t) < c
        BY <3>2, InFlightIs
      <4> QED
        BY <3>1, <3>2, <4>1, StillAwaited
    <3>3. ASSUME NEW k \in 0 .. (Position(pipe_rename_pkt, l) - 1), t = After(tail, k)
          PROVE  t \in InFlight' \ complete' /\ t \notin cdb
      <4>1. Position(pipe_rename_pkt, l) \in 0 .. (DispatchCount - 1)
        BY <2>1, Ages DEF Occupied
      <4>2. k \in 0 .. (DispatchCount - 1) /\ DispatchCount \in Nat
        BY <4>1, DispatchCounted
      <4>3. Count(head, t) = c + k /\ c \in Nat
        BY <3>3, <4>2, DispatchedTags, InFlightIs
      <4>4. ~(Count(head, t) < c) /\ Count(head, t) < c + DispatchCount
        <5> HIDE DEF c
        <5> QED
          BY <4>2, <4>3
      <4> QED
        BY <3>1, <4>4, StillAwaited
    <3>4. t \in InFlight \ complete \/ \E k \in 0 .. (Position(pipe_rename_pkt, l) - 1) : t = After(tail, k)
      BY <2>1 DEF PacketSources
    <3> QED
      BY <3>2, <3>3, <3>4
  <2> QED
    BY <2>1, <2>2
<1> QED
  BY <1>1, <1>2, <1>3, <1>4, UsedAfter

\* The sources stay older than the instructions that wait for them.
LEMMA SourcesAfter ==
  ASSUME IInv, NEW cdb, Cycle(cdb)
  PROVE  SourcesOlder'
<1> /\ TypeOK /\ Room /\ AwakeInUse /\ Held
    /\ SourcesOlder /\ PacketSources /\ OperandsTracked
  BY DEF IInv
<1> SUFFICES ASSUME NEW i \in Station, rs_entry'[i].in_use
             PROVE  \A t \in rs_entry'[i].srcs : Count(t, rs_entry'[i].tag) \in 1 .. (ROB_DEPTH - 1)
  BY DEF SourcesOlder
<1>1. CASE rs_entry[i].in_use /\ rs_entry'[i] = Kept(i, cdb)
  BY <1>1, KeptIs DEF SourcesOlder
<1>2. ASSUME NEW l \in Valid, rs_entry'[i] = Load(l, cdb)
      PROVE  \A t \in rs_entry'[i].srcs : Count(t, rs_entry'[i].tag) \in 1 .. (ROB_DEPTH - 1)
  BY <1>2, LoadIs DEF PacketSources
<1> QED
  BY <1>1, <1>2, UsedAfter

\* The tag, and the sources, of lane l of a group d renamed in this cycle.
RenamedTag(d, l) == After(tail, DispatchCount + Position(d, l))

RenamedSources(d, cdb, l) ==
  {After(RenamedTag(d, l), 2 * ROB_DEPTH - back) : back \in d[l].srcs}
    \cap ((InFlight \ (complete \cup cdb))
            \cup {After(tail, k) : k \in 0 .. (DispatchCount + Position(d, l) - 1)})

\* A source of a renamed lane is on the way to it, at most ROB_DEPTH - 1 back.
LEMMA RenamedIs ==
  ASSUME TypeOK, NEW cdb, NEW d \in [Lane -> Decoded \cup {None}],
         NEW l \in Lane, d[l] # None
  PROVE  /\ rename_pkt(d, cdb)[l] = [fu |-> d[l].fu, srcs |-> RenamedSources(d, cdb, l)]
         /\ rename_pkt(d, cdb)[l] \in Packet
         /\ RenamedTag(d, l) \in Tag
         /\ \A t \in RenamedSources(d, cdb, l) : Count(t, RenamedTag(d, l)) \in 1 .. (ROB_DEPTH - 1)
<1> DEFINE tag == RenamedTag(d, l)
<1>1. d[l] \in Decoded /\ d[l].fu \in Fu \cup {None} /\ d[l].srcs \subseteq 1 .. (ROB_DEPTH - 1)
  BY RsAssumption
<1>2. rename_pkt(d, cdb)[l] = [fu |-> d[l].fu, srcs |-> RenamedSources(d, cdb, l)]
  BY DEF rename_pkt, RenamedSources, RenamedTag
<1>3. tag \in Tag
  <2>1. Position(d, l) \in 0 .. (Position(d, MACHINE_WIDTH) - 1)
        /\ Position(d, MACHINE_WIDTH) \in 0 .. MACHINE_WIDTH
    BY Positions DEF Occupied
  <2>2. DispatchCount + Position(d, l) \in 0 .. (2 * ROB_DEPTH)
    BY <2>1, DispatchCounted
  <2> QED
    BY <2>2, InFlightIs, AroundTheCircle DEF RenamedTag
<1> HIDE DEF tag
<1>4. ASSUME NEW back \in 1 .. (ROB_DEPTH - 1)
      PROVE  /\ After(tag, 2 * ROB_DEPTH - back) \in Tag
             /\ Count(After(tag, 2 * ROB_DEPTH - back), tag) = back
  <2>1. /\ ROB_DEPTH \in Nat \ {0} /\ back \in Nat /\ back < ROB_DEPTH /\ back > 0
        /\ 2 * ROB_DEPTH - back \in 0 .. (2 * ROB_DEPTH)
        /\ 2 * ROB_DEPTH - back \in 0 .. (2 * ROB_DEPTH - 1)
        /\ ~(2 * ROB_DEPTH - back <= 0)
    BY DispatchCounted
  <2>2. After(tag, 2 * ROB_DEPTH - back) \in Tag
    BY <1>3, <2>1, AroundTheCircle
  <2>3. Count(tag, tag) = 0
    BY <1>3, Circle DEF Tag
  <2>4. Count(After(tag, 2 * ROB_DEPTH - back), tag) = (0 + 2 * ROB_DEPTH) - (2 * ROB_DEPTH - back)
    BY <1>3, <2>1, <2>3, Measured
  <2> QED
    BY <2>1, <2>2, <2>4
<1>5. \A t \in RenamedSources(d, cdb, l) : t \in Tag /\ Count(t, tag) \in 1 .. (ROB_DEPTH - 1)
  BY <1>1, <1>4 DEF RenamedSources, tag
<1>6. [fu |-> d[l].fu, srcs |-> RenamedSources(d, cdb, l)] \in Packet
  BY <1>1, <1>5 DEF Packet
<1> QED
  BY <1>2, <1>3, <1>5, <1>6 DEF tag

\* A lane of the renamed group is empty if it was when decoded.
LEMMA GroupsAlike ==
  ASSUME TypeOK, NEW cdb, NEW d \in [Lane -> Decoded \cup {None}]
  PROVE  /\ rename_pkt(d, cdb) \in [Lane -> Packet \cup {None}]
         /\ \A l \in Lane : rename_pkt(d, cdb)[l] = None <=> d[l] = None
         /\ \A l : Position(rename_pkt(d, cdb), l) = Position(d, l)
<1>1. \A l \in Lane : d[l] = None => rename_pkt(d, cdb)[l] = None
  BY DEF rename_pkt
<1>2. \A l \in Lane : d[l] # None => /\ rename_pkt(d, cdb)[l] \in Packet
                                     /\ rename_pkt(d, cdb)[l] # None
  BY RenamedIs, NoneAssumption
<1>3. rename_pkt(d, cdb) = [l \in Lane |-> rename_pkt(d, cdb)[l]]
  BY DEF rename_pkt
<1>4. rename_pkt(d, cdb) \in [Lane -> Packet \cup {None}]
  BY <1>1, <1>2, <1>3
<1>5. \A l : {m \in Lane : m < l /\ rename_pkt(d, cdb)[m] # None} = {m \in Lane : m < l /\ d[m] # None}
  BY <1>1, <1>2
<1> QED
  BY <1>1, <1>2, <1>4, <1>5 DEF Position

\* The sources of the group that is dispatched next.
LEMMA PacketsAfter ==
  ASSUME IInv, NEW cdb, NEW n, Clocked(cdb, n), NEW d \in [Lane -> Decoded \cup {None}],
         pipe_rename_pkt' = rename_pkt(d, cdb)
  PROVE  PacketSources'
<1> /\ TypeOK /\ Room /\ AwakeInUse /\ Held
    /\ SourcesOlder /\ PacketSources /\ OperandsTracked
  BY DEF IInv
<1> DEFINE c == Count(head, tail)
<1> SUFFICES ASSUME NEW l \in Lane, pipe_rename_pkt'[l] # None,
                    NEW t \in pipe_rename_pkt'[l].srcs
             PROVE  /\ \/ t \in InFlight' \ complete'
                       \/ \E k \in 0 .. (Position(pipe_rename_pkt', l) - 1) : t = After(tail', k)
                    /\ Count(t, LaneTag(l)') \in 1 .. (ROB_DEPTH - 1)
  BY DEF PacketSources
<1>1. d[l] # None /\ t \in RenamedSources(d, cdb, l)
  <2>1. d[l] # None
    BY GroupsAlike
  <2>2. rename_pkt(d, cdb)[l] = [fu |-> d[l].fu, srcs |-> RenamedSources(d, cdb, l)]
    BY <2>1, RenamedIs
  <2>3. t \in rename_pkt(d, cdb)[l].srcs
    OBVIOUS
  <2> QED
    BY <2>1, <2>2, <2>3
<1>2. Position(pipe_rename_pkt', l) = Position(d, l)
  BY GroupsAlike
<1>3. /\ Position(d, l) \in Nat /\ DispatchCount \in Nat /\ c \in Nat
      /\ DispatchCount + Position(d, l) < 2 * ROB_DEPTH
  <2>1. Position(d, l) \in 0 .. (Position(d, MACHINE_WIDTH) - 1)
        /\ Position(d, MACHINE_WIDTH) \in 0 .. MACHINE_WIDTH
    BY <1>1, Positions DEF Occupied
  <2> QED
    BY <2>1, DispatchCounted, InFlightIs
<1>4. tail \in Tag /\ tail' = After(tail, DispatchCount)
  BY InFlightIs DEF Clocked, Cycle
<1>5. LaneTag(l)' = RenamedTag(d, l)
  <2>1. LaneTag(l)' = After(tail', Position(pipe_rename_pkt', l))
    BY DEF LaneTag
  <2>2. After(After(tail, DispatchCount), Position(d, l)) = After(tail, DispatchCount + Position(d, l))
    BY <1>3, <1>4, OnAndOn
  <2> QED
    BY <1>2, <1>4, <2>1, <2>2 DEF RenamedTag
<1>6. Count(t, LaneTag(l)') \in 1 .. (ROB_DEPTH - 1)
  BY <1>1, <1>5, RenamedIs
<1>7. CASE t \in InFlight \ (complete \cup cdb)
  <2>1. t \in Tag /\ Count(head, t) < c
    BY <1>7, InFlightIs
  <2> QED
    BY <1>6, <1>7, <2>1, StillAwaited
<1>8. ASSUME NEW k \in 0 .. (DispatchCount + Position(d, l) - 1), t = After(tail, k)
      PROVE  \/ t \in InFlight' \ complete'
             \/ \E j \in 0 .. (Position(pipe_rename_pkt', l) - 1) : t = After(tail', j)
  <2>1. CASE k < DispatchCount
    <3>1. k \in 0 .. (DispatchCount - 1)
      BY <1>3, <2>1
    <3>2. t \in Tag /\ Count(head, t) = c + k
      BY <1>8, <3>1, DispatchedTags
    <3>3. ~(Count(head, t) < c) /\ Count(head, t) < c + DispatchCount
      <4> HIDE DEF c
      <4> QED
        BY <1>3, <3>1, <3>2
    <3> QED
      BY <3>2, <3>3, StillAwaited
  <2>2. CASE ~(k < DispatchCount)
    <3> DEFINE j == k - DispatchCount
    <3>1. /\ j \in 0 .. (Position(d, l) - 1) /\ j \in Nat /\ DispatchCount + j = k
          /\ DispatchCount + j < 2 * ROB_DEPTH
      BY <1>3, <2>2, DispatchCounted
    <3> HIDE DEF j
    <3>2. After(tail', j) = After(tail, DispatchCount + j)
      BY <1>3, <1>4, <3>1, OnAndOn
    <3> QED
      BY <1>2, <1>8, <3>1, <3>2
  <2> QED
    BY <2>1, <2>2
<1>9. \/ t \in InFlight \ (complete \cup cdb)
      \/ \E k \in 0 .. (DispatchCount + Position(d, l) - 1) : t = After(tail, k)
  BY <1>1 DEF RenamedSources
<1> QED
  BY <1>6, <1>7, <1>8, <1>9

\* There is room for the group that is dispatched next.
LEMMA RoomAfter ==
  ASSUME IInv, NEW cdb, NEW n, Clocked(cdb, n), NEW redirect \in BOOLEAN,
         NEW d \in Renamed(n, redirect), pipe_rename_pkt' = rename_pkt(d, cdb)
  PROVE  Room' /\ d \in [Lane -> Decoded \cup {None}]
<1> /\ TypeOK /\ Room /\ AwakeInUse /\ Held
    /\ SourcesOlder /\ PacketSources /\ OperandsTracked
  BY DEF IInv
<1>1. d \in [Lane -> Decoded \cup {None}] /\ (d = NoGroup \/ rename_pkt_ready(n))
  BY DEF Renamed, DecodedGroup, NoGroup
<1>2. /\ Count(head', tail') = (Count(head, tail) + DispatchCount) - n
      /\ n \in Nat /\ Count(head, tail) \in Nat /\ DispatchCount \in Nat
      /\ n <= Count(head, tail) /\ Count(head, tail) + DispatchCount <= ROB_DEPTH
  BY WindowMoves, InFlightIs, DispatchCounted DEF Clocked, Cycle, Room
<1>3. DispatchCount' = Position(d, MACHINE_WIDTH)
  <2>1. DispatchCount' = Position(pipe_rename_pkt', MACHINE_WIDTH)
    BY DEF DispatchCount
  <2> QED
    BY <1>1, <2>1, GroupsAlike
<1>4. \A l \in Lane : pipe_rename_pkt'[l] = None <=> d[l] = None
  BY <1>1, GroupsAlike
<1>5. CASE d = NoGroup
  <2>1. {m \in Lane : m < MACHINE_WIDTH /\ d[m] # None} = {}
    BY <1>5 DEF NoGroup
  <2>2. DispatchCount' = 0
    BY <1>3, <2>1, FS_EmptySet DEF Position
  <2>3. Valid' = {}
    BY <1>4, <1>5 DEF Valid, NoGroup
  <2>4. Count(head', tail') + DispatchCount' <= ROB_DEPTH
    BY <1>2, <2>2, DispatchCounted
  <2> QED
    BY <1>1, <2>3, <2>4 DEF Room
<1>6. CASE rename_pkt_ready(n)
  <2>1. /\ Position(d, MACHINE_WIDTH) \in 0 .. MACHINE_WIDTH
        /\ MACHINE_WIDTH \in Nat \ {0} /\ ROB_DEPTH \in Nat
    BY Positions, DispatchCounted
  <2>2. ((Count(head, tail) - n) + DispatchCount) + MACHINE_WIDTH <= ROB_DEPTH
    BY <1>6 DEF rename_pkt_ready
  <2>3. Count(head', tail') + DispatchCount' <= ROB_DEPTH
    BY <1>2, <1>3, <2>1, <2>2
  <2>4. MACHINE_WIDTH - 1 \in Lane
    BY <2>1 DEF Lane
  <2>5. rs_avail_cnt > MACHINE_WIDTH - 1
    BY <1>6, <2>4 DEF rename_pkt_ready, dispatch_pkt_ready
  <2>6. rs_avail_cnt \in Int /\ Cardinality(rs_avail') \in Nat /\ Cardinality(rs_avail') >= rs_avail_cnt
    BY StationsLeft DEF Clocked
  <2>7. Cardinality(rs_avail') >= MACHINE_WIDTH
    BY <2>1, <2>5, <2>6
  <2> QED
    BY <1>1, <2>3, <2>7 DEF Room
<1> QED
  BY <1>1, <1>5, <1>6

---------------------------------------------------------------------------
(* The steps *)

\* The bank is empty, and nothing is in flight.
Emptied ==
  /\ rs_entry = [i \in Station |-> EmptyStation]
  /\ pipe_rename_pkt = NoGroup
  /\ head = 0 /\ tail = 0
  /\ executing = {} /\ complete = {}
  /\ pipe_flush = FALSE
  /\ pos_tmp \in [Fu -> [Inner -> {0, 1}]]

\* An empty bank satisfies the invariant.
LEMMA EmptiedInv == Emptied => IInv
<1> SUFFICES ASSUME Emptied PROVE IInv
  OBVIOUS
<1>1. /\ 0 \in Tag /\ Count(0, 0) = 0 /\ ROB_DEPTH \in Nat
  BY Circle DEF Tag
<1>2. InFlight = {}
  <2>1. 0 .. (Count(head, tail) - 1) = {}
    BY <1>1 DEF Emptied
  <2> QED
    BY <2>1 DEF InFlight
<1>3. \A i \in Station : rs_entry[i] = EmptyStation
  BY DEF Emptied
<1>4. TypeOK
  <2>1. pipe_rename_pkt \in [Lane -> Packet \cup {None}]
    BY DEF Emptied, NoGroup
  <2>2. rs_entry \in [Station -> RsEntry]
    BY EmptyIs DEF Emptied
  <2> QED
    BY <1>1, <1>3, <2>1, <2>2, EmptyIs DEF Emptied, TypeOK
<1>5. \A l \in Lane : pipe_rename_pkt[l] = None
  BY DEF Emptied, NoGroup
<1>6. Room
  <2>1. {m \in Lane : m < MACHINE_WIDTH /\ pipe_rename_pkt[m] # None} = {}
    BY <1>5
  <2>2. DispatchCount = 0
    BY <2>1, FS_EmptySet DEF DispatchCount, Position
  <2>3. Valid = {}
    BY <1>5 DEF Valid
  <2>4. Count(head, tail) + DispatchCount <= ROB_DEPTH
    BY <1>1, <2>2 DEF Emptied
  <2> QED
    BY <2>3, <2>4 DEF Room
<1>7. AwakeInUse /\ Held /\ SourcesOlder /\ PacketSources /\ OperandsTracked
  BY <1>2, <1>3, <1>5, EmptyIs
  DEF AwakeInUse, Held, SourcesOlder, PacketSources, OperandsTracked
<1> QED
  BY <1>4, <1>6, <1>7 DEF IInv

\* The invariant holds at reset.
LEMMA InitInv == Init => IInv
<1>1. Init => Emptied
  BY DEF Init, Emptied
<1> QED
  BY <1>1, EmptiedInv

\* A flush empties the bank.
LEMMA FlushInv == IInv /\ FlushCycle => IInv'
<1> SUFFICES ASSUME IInv, FlushCycle PROVE IInv'
  OBVIOUS
<1>1. rs_entry' = [i \in Station |-> EmptyStation]
  BY DEF FlushCycle, NextStation
<1>2. pos_tmp' \in [Fu -> [Inner -> {0, 1}]]
  BY LatchesTyped DEF FlushCycle, IInv
<1>3. Emptied'
  BY <1>1, <1>2 DEF FlushCycle, Emptied
<1> QED
  BY <1>3, EmptiedInv, PTL

\* A cycle preserves the invariant.
LEMMA CycleInv ==
  ASSUME IInv, NEW cdb \in SUBSET executing, Cycle(cdb), NEW n \in Retirable,
         NEW redirect \in BOOLEAN, NEW d \in Renamed(n, redirect), Advance(d, cdb, n, redirect)
  PROVE  IInv'
<1> TypeOK /\ Room /\ AwakeInUse /\ Held
  BY DEF IInv
<1>1. Clocked(cdb, n) /\ pipe_rename_pkt' = rename_pkt(d, cdb) /\ pipe_flush' = redirect
  BY DEF Clocked, Advance
<1>2. Room' /\ d \in [Lane -> Decoded \cup {None}]
  BY <1>1, RoomAfter
<1>3. PacketSources'
  BY <1>1, <1>2, PacketsAfter
<1>4. /\ rs_entry' \in [Station -> RsEntry]
      /\ \A i \in Station : rs_entry'[i].waits \subseteq rs_entry'[i].srcs
      /\ \A i \in Station : rs_entry'[i].wake_up => rs_entry'[i].in_use
  BY StationsTyped
<1>5. TypeOK'
  <2>1. pos_tmp' \in [Fu -> [Inner -> {0, 1}]]
    BY LatchesTyped DEF Cycle
  <2>2. pipe_rename_pkt' \in [Lane -> Packet \cup {None}]
    BY <1>1, <1>2, GroupsAlike
  <2>3. head' \in Tag /\ tail' \in Tag
    BY <1>1, WindowMoves DEF Clocked, Cycle
  <2>4. executing' \cup complete' \subseteq InFlight' /\ executing' \cap complete' = {}
    BY <1>1, AwaitedTyped
  <2> QED
    BY <1>1, <1>4, <2>1, <2>2, <2>3, <2>4 DEF TypeOK
<1>6. AwakeInUse'
  BY <1>4 DEF AwakeInUse
<1>7. Held'
  BY <1>1, HeldAfter
<1>8. SourcesOlder'
  BY SourcesAfter
<1>9. OperandsTracked'
  BY <1>1, OperandsAfter
<1> QED
  BY <1>2, <1>3, <1>5, <1>6, <1>7, <1>8, <1>9 DEF IInv

\* Every step preserves the invariant.
LEMMA NextInv == IInv /\ [Next]_vars => IInv'
<1> SUFFICES ASSUME IInv, [Next]_vars PROVE IInv'
  OBVIOUS
<1>1. CASE FlushCycle
  BY <1>1, FlushInv
<1>2. ASSUME NEW cdb \in SUBSET executing, Cycle(cdb), NEW n \in Retirable,
             NEW redirect \in (IF n = 0 THEN {FALSE} ELSE BOOLEAN),
             NEW d \in Renamed(n, redirect), Advance(d, cdb, n, redirect)
      PROVE  IInv'
  <2>1. redirect \in BOOLEAN
    OBVIOUS
  <2> QED
    BY <1>2, <2>1, CycleInv
<1>3. CASE UNCHANGED vars
  BY <1>3 DEF vars, IInv, TypeOK, RsEntry, Room, Valid, rs_avail, AwakeInUse, Held, SourcesOlder,
              PacketSources, LaneTag, DispatchCount, OperandsTracked, InFlight
<1> QED
  BY <1>1, <1>2, <1>3 DEF Next

\* The invariant holds in every state.
LEMMA SpecInv == Spec => []IInv
<1>1. Init => IInv
  BY InitInv
<1>2. IInv /\ [Next]_vars => IInv'
  BY NextInv
<1> QED
  BY <1>1, <1>2, PTL DEF Spec

---------------------------------------------------------------------------
(* The theorems *)

\* The stations, the latches of the trees and the dispatch register have their
\* types, and what executes or has completed is in flight (rs_bank.sv, rs1.sv).
THEOREM BankTyped == Spec => []TypeOK
<1>1. IInv => TypeOK
  BY DEF IInv
<1> QED
  BY <1>1, SpecInv, PTL

\* An instruction dispatched to the bank is in exactly one station until it is
\* issued or flushed (rs_array.sv, with the selector of psel_gen.v).
THEOREM EveryInstructionIsHeld == Spec => []EveryInstructionHeld
<1>1. IInv => EveryInstructionHeld
  BY HeldIs DEF IInv
<1> QED
  BY <1>1, SpecInv, PTL

\* A station waits for exactly the sources that are not written, and is awake only
\* when there are none (the ready bits and wake_up of rs1.sv).
THEOREM OperandsAreTracked == Spec => []OperandsTracked
<1>1. IInv => OperandsTracked
  BY DEF IInv
<1> QED
  BY <1>1, SpecInv, PTL

\* A comparator tree picks the oldest request unless one of its latches is stale
\* (sort.sv).
THEOREM OldestUnlessLatchesStale == Spec => []OldestUnlessStale
<1>1. IInv => OldestUnlessStale
  BY OldestGranted DEF IInv
<1> QED
  BY <1>1, SpecInv, PTL
============================================================================
