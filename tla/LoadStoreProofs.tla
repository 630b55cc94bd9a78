-------------------------- MODULE LoadStoreProofs --------------------------
(***************************************************************************)
(* Proofs about the load/store queue, for every depth of the two queues,   *)
(* every width, memory, and set of accesses of the program.                *)
(*                                                                         *)
(* Stores: those that retired reach memory once and in order; seen from    *)
(* memory the store queue is the buffer of StoreBuffer.                    *)
(*                                                                         *)
(* Loads: while the cache refuses no load, a load returns what the stores  *)
(* before it in program order and memory make of its bytes; and whatever   *)
(* the cache refuses, a load that sleeps has a store to wake it, and no    *)
(* load that must be replayed retires.                                     *)
(***************************************************************************)
EXTENDS LoadStoreQueue, PselGenTheorems

---------------------------------------------------------------------------
(* A circular queue of d slots between two pointers with a position bit *)

\* How far pointer t is beyond pointer h.
Distance(h, t, d) == IF h.pos = t.pos THEN t.ptr - h.ptr ELSE (t.ptr + d) - h.ptr

\* How far slot i is beyond the slot p, and the slot n beyond p.
AgeOf(p, i, d) == (i + d - p) % d
SlotAt(p, n, d) == (p + n) % d

\* A remainder without division, as far as the queues need it.
LEMMA RemainderIs ==
  ASSUME NEW d \in Nat \ {0}, NEW x \in 0 .. (2 * d - 1)
  PROVE  x % d = IF x < d THEN x ELSE x - d
  OBVIOUS

\* The age of a slot.
LEMMA AgeIs ==
  ASSUME NEW d \in Nat \ {0}, NEW p \in 0 .. (d - 1), NEW i \in 0 .. (d - 1)
  PROVE  /\ AgeOf(p, i, d) = IF i >= p THEN i - p ELSE (i + d) - p
         /\ AgeOf(p, i, d) \in 0 .. (d - 1)
<1>1. /\ i + d - p \in 0 .. (2 * d - 1)
      /\ i + d - p < d <=> i < p
      /\ (i + d - p) - d = i - p
  OBVIOUS
<1>2. AgeOf(p, i, d) = IF i + d - p < d THEN i + d - p ELSE (i + d - p) - d
  BY <1>1, RemainderIs DEF AgeOf
<1> QED
  BY <1>1, <1>2

\* The slot of an age.
LEMMA SlotIs ==
  ASSUME NEW d \in Nat \ {0}, NEW p \in 0 .. (d - 1), NEW n \in 0 .. (d - 1)
  PROVE  /\ SlotAt(p, n, d) = IF p + n < d THEN p + n ELSE (p + n) - d
         /\ SlotAt(p, n, d) \in 0 .. (d - 1)
<1>1. p + n \in 0 .. (2 * d - 1)
  OBVIOUS
<1>2. SlotAt(p, n, d) = IF p + n < d THEN p + n ELSE (p + n) - d
  BY <1>1, RemainderIs DEF SlotAt
<1> QED
  BY <1>2

\* A slot is at its age, and an age is that of its slot.
LEMMA AgesAndSlots ==
  ASSUME NEW d \in Nat \ {0}, NEW p \in 0 .. (d - 1), NEW i \in 0 .. (d - 1)
  PROVE  /\ SlotAt(p, AgeOf(p, i, d), d) = i
         /\ AgeOf(p, SlotAt(p, i, d), d) = i
<1>1. SlotAt(p, AgeOf(p, i, d), d) = i
  <2> DEFINE k == AgeOf(p, i, d)
  <2>1. k \in 0 .. (d - 1) /\ k = IF i >= p THEN i - p ELSE (i + d) - p
    BY AgeIs
  <2> HIDE DEF k
  <2>2. SlotAt(p, k, d) = IF p + k < d THEN p + k ELSE (p + k) - d
    BY <2>1, SlotIs
  <2>3. SlotAt(p, k, d) = i
    BY <2>1, <2>2
  <2> QED
    BY <2>3 DEF k
<1>2. AgeOf(p, SlotAt(p, i, d), d) = i
  <2> DEFINE k == SlotAt(p, i, d)
  <2>1. k \in 0 .. (d - 1) /\ k = IF p + i < d THEN p + i ELSE (p + i) - d
    BY SlotIs
  <2> HIDE DEF k
  <2>2. AgeOf(p, k, d) = IF k >= p THEN k - p ELSE (k + d) - p
    BY <2>1, AgeIs
  <2>3. AgeOf(p, k, d) = i
    BY <2>1, <2>2
  <2> QED
    BY <2>3 DEF k
<1> QED
  BY <1>1, <1>2

\* Different slots have different ages.
LEMMA AgesDiffer ==
  ASSUME NEW d \in Nat \ {0}, NEW p \in 0 .. (d - 1),
         NEW i \in 0 .. (d - 1), NEW j \in 0 .. (d - 1), AgeOf(p, i, d) = AgeOf(p, j, d)
  PROVE  i = j
  BY AgesAndSlots

\* Moving a pointer: the bit changes when the slot wraps.
LEMMA PlusIs ==
  ASSUME NEW d \in Nat \ {0}, d % 2 = 0, NEW p \in Pointer(d), NEW n \in Nat, 2 * n <= d
  PROVE  /\ Plus(p, n, d) \in Pointer(d)
         /\ Plus(p, n, d).ptr = IF p.ptr + n < d THEN p.ptr + n ELSE (p.ptr + n) - d
         /\ Plus(p, n, d).pos = IF p.ptr + n < d THEN p.pos ELSE 1 - p.pos
<1>1. p.ptr \in 0 .. (d - 1) /\ p.pos \in {0, 1} /\ p.ptr + n \in 0 .. (2 * d - 1)
  BY DEF Pointer
<1> DEFINE next == (p.ptr + n) % d
           overflow == 2 * p.ptr >= d /\ 2 * next < d
<1>2. next = IF p.ptr + n < d THEN p.ptr + n ELSE (p.ptr + n) - d
  BY <1>1, RemainderIs
<1>3. Plus(p, n, d) = [ptr |-> next, pos |-> IF overflow THEN 1 - p.pos ELSE p.pos]
  BY DEF Plus
<1> HIDE DEF next
<1>4. overflow <=> ~ (p.ptr + n < d)
  BY <1>1, <1>2
<1>5. next \in 0 .. (d - 1)
  BY <1>1, <1>2
<1> HIDE DEF overflow
<1>6. (IF overflow THEN 1 - p.pos ELSE p.pos) \in {0, 1}
  BY <1>1
<1> QED
  BY <1>2, <1>3, <1>4, <1>5, <1>6 DEF Pointer

\* An empty queue is one whose pointers are equal.
LEMMA EmptyQueue ==
  ASSUME NEW d \in Nat \ {0}, NEW h \in Pointer(d), NEW t \in Pointer(d),
         Distance(h, t, d) \in 0 .. d
  PROVE  /\ h = t <=> Distance(h, t, d) = 0
         /\ t.ptr = IF h.ptr + Distance(h, t, d) < d THEN h.ptr + Distance(h, t, d)
                                                     ELSE (h.ptr + Distance(h, t, d)) - d
<1>1. /\ h.ptr \in 0 .. (d - 1) /\ h.pos \in {0, 1}
      /\ t.ptr \in 0 .. (d - 1) /\ t.pos \in {0, 1}
  BY DEF Pointer
<1>2. Distance(h, t, d) = 0 => h.ptr = t.ptr /\ h.pos = t.pos
  BY <1>1 DEF Distance
<1>3. h.ptr = t.ptr /\ h.pos = t.pos => h = t
  BY DEF Pointer
<1>4. h = t => Distance(h, t, d) = 0
  BY <1>1 DEF Distance
<1>5. t.ptr = IF h.ptr + Distance(h, t, d) < d THEN h.ptr + Distance(h, t, d)
                                               ELSE (h.ptr + Distance(h, t, d)) - d
  BY <1>1 DEF Distance
<1> QED
  BY <1>2, <1>3, <1>4, <1>5

\* The slots from the tail on continue the ages of the queue.
LEMMA BeyondTheTail ==
  ASSUME NEW d \in Nat \ {0}, NEW h \in Pointer(d), NEW t \in Pointer(d),
         Distance(h, t, d) \in 0 .. d, NEW n \in Nat, Distance(h, t, d) + n < d
  PROVE  /\ SlotAt(t.ptr, n, d) \in 0 .. (d - 1)
         /\ AgeOf(h.ptr, SlotAt(t.ptr, n, d), d) = Distance(h, t, d) + n
<1> DEFINE c == Distance(h, t, d)
           i == SlotAt(t.ptr, n, d)
<1>1. h.ptr \in 0 .. (d - 1) /\ t.ptr \in 0 .. (d - 1) /\ c \in 0 .. d /\ c + n < d /\ n \in 0 .. (d - 1)
  BY DEF Pointer
<1>2. t.ptr = IF h.ptr + c < d THEN h.ptr + c ELSE (h.ptr + c) - d
  BY EmptyQueue
<1>3. i \in 0 .. (d - 1) /\ i = IF t.ptr + n < d THEN t.ptr + n ELSE (t.ptr + n) - d
  BY <1>1, SlotIs
<1>4. AgeOf(h.ptr, i, d) = IF i >= h.ptr THEN i - h.ptr ELSE (i + d) - h.ptr
  BY <1>1, <1>3, AgeIs
<1> HIDE DEF c, i
<1>5. AgeOf(h.ptr, i, d) = c + n
  BY <1>1, <1>2, <1>3, <1>4
<1> QED
  BY <1>3, <1>5 DEF c, i

\* The slot before the tail is the last of a queue that is not empty.
LEMMA BeforeTheTail ==
  ASSUME NEW d \in Nat \ {0}, NEW h \in Pointer(d), NEW t \in Pointer(d),
         Distance(h, t, d) \in 0 .. d, NEW n \in Nat,
         Distance(h, t, d) + n \in 1 .. d
  PROVE  /\ SlotAt(t.ptr, n + (d - 1), d) \in 0 .. (d - 1)
         /\ AgeOf(h.ptr, SlotAt(t.ptr, n + (d - 1), d), d) = (Distance(h, t, d) + n) - 1
<1> DEFINE c == Distance(h, t, d)
<1>1. h.ptr \in 0 .. (d - 1) /\ t.ptr \in 0 .. (d - 1) /\ c \in 0 .. d /\ c + n \in 1 .. d
  BY DEF Pointer
<1>2. t.ptr = IF h.ptr + c < d THEN h.ptr + c ELSE (h.ptr + c) - d
  BY EmptyQueue
<1> DEFINE x == t.ptr + (n + (d - 1))
<1>3. x \in Nat /\ x < 3 * d
  BY <1>1
<1>4. x % d = IF x < d THEN x ELSE IF x < 2 * d THEN x - d ELSE x - 2 * d
  <2> HIDE DEF x
  <2> QED
    BY <1>3
<1>5. SlotAt(t.ptr, n + (d - 1), d) = x % d
  BY DEF SlotAt
<1> DEFINE i == x % d
<1> HIDE DEF c
<1>6. i \in 0 .. (d - 1)
  BY <1>1, <1>3, <1>4
<1>7. AgeOf(h.ptr, i, d) = IF i >= h.ptr THEN i - h.ptr ELSE (i + d) - h.ptr
  BY <1>1, <1>6, AgeIs
<1>8. i >= h.ptr => i - h.ptr = (c + n) - 1
  <2> HIDE DEF i
  <2>1. i = IF x < d THEN x ELSE IF x < 2 * d THEN x - d ELSE x - 2 * d
    BY <1>4 DEF i
  <2> QED
    BY <1>1, <1>2, <2>1
<1>9. i < h.ptr => (i + d) - h.ptr = (c + n) - 1
  <2> HIDE DEF i
  <2>1. i = IF x < d THEN x ELSE IF x < 2 * d THEN x - d ELSE x - 2 * d
    BY <1>4 DEF i
  <2> QED
    BY <1>1, <1>2, <2>1
<1>10. AgeOf(h.ptr, i, d) = (c + n) - 1
  <2> HIDE DEF i
  <2> QED
    BY <1>1, <1>6, <1>7, <1>8, <1>9
<1> QED
  BY <1>5, <1>6, <1>10 DEF c

\* What moving the tail and the head does to the length and to the ages.
LEMMA PointersMove ==
  ASSUME NEW d \in Nat \ {0}, d % 2 = 0, NEW h \in Pointer(d), NEW t \in Pointer(d),
         Distance(h, t, d) \in 0 .. d, NEW n \in Nat, 2 * n <= d
  PROVE  /\ Distance(h, t, d) + n <= d =>
              Distance(h, Plus(t, n, d), d) = Distance(h, t, d) + n
         /\ n <= Distance(h, t, d) =>
              Distance(Plus(h, n, d), t, d) = Distance(h, t, d) - n
         /\ \A i \in 0 .. (d - 1) :
              AgeOf(Plus(h, n, d).ptr, i, d) =
                IF AgeOf(h.ptr, i, d) >= n THEN AgeOf(h.ptr, i, d) - n
                                           ELSE (AgeOf(h.ptr, i, d) + d) - n
<1>1. /\ h.ptr \in 0 .. (d - 1) /\ h.pos \in {0, 1}
      /\ t.ptr \in 0 .. (d - 1) /\ t.pos \in {0, 1}
  BY DEF Pointer
<1> DEFINE u == Plus(t, n, d)
           g == Plus(h, n, d)
<1>2. /\ u.ptr = IF t.ptr + n < d THEN t.ptr + n ELSE (t.ptr + n) - d
      /\ u.pos = IF t.ptr + n < d THEN t.pos ELSE 1 - t.pos
  BY PlusIs
<1>3. /\ g.ptr = IF h.ptr + n < d THEN h.ptr + n ELSE (h.ptr + n) - d
      /\ g.pos = IF h.ptr + n < d THEN h.pos ELSE 1 - h.pos
      /\ g.ptr \in 0 .. (d - 1)
  BY PlusIs DEF Pointer
<1> HIDE DEF u, g
<1>4. Distance(h, t, d) + n <= d => Distance(h, u, d) = Distance(h, t, d) + n
  BY <1>1, <1>2 DEF Distance
<1>5. n <= Distance(h, t, d) => Distance(g, t, d) = Distance(h, t, d) - n
  BY <1>1, <1>3 DEF Distance
<1>6. ASSUME NEW i \in 0 .. (d - 1)
      PROVE  AgeOf(g.ptr, i, d) = IF AgeOf(h.ptr, i, d) >= n
                                    THEN AgeOf(h.ptr, i, d) - n
                                    ELSE (AgeOf(h.ptr, i, d) + d) - n
  <2>1. AgeOf(h.ptr, i, d) = IF i >= h.ptr THEN i - h.ptr ELSE (i + d) - h.ptr
    BY <1>1, AgeIs
  <2>2. AgeOf(g.ptr, i, d) = IF i >= g.ptr THEN i - g.ptr ELSE (i + d) - g.ptr
    BY <1>3, AgeIs
  <2> QED
    BY <1>1, <1>3, <2>1, <2>2
<1> QED
  BY <1>4, <1>5, <1>6 DEF u, g

---------------------------------------------------------------------------
(* Counting the lanes of a group *)

\* Below counts the lanes of a set one after the other.
LEMMA LanesCounted ==
  ASSUME NEW S \in SUBSET Lane
  PROVE  /\ IsFiniteSet(S) /\ Cardinality(S) \in 0 .. MACHINE_WIDTH
         /\ Below(MACHINE_WIDTH, S) = Cardinality(S)
         /\ \A l \in Int : Below(l, S) \in 0 .. Cardinality(S)
         /\ \A m, l \in Int : m <= l => Below(m, S) <= Below(l, S)
         /\ \A m \in S : \A l \in Int : m < l => Below(m, S) + 1 <= Below(l, S)
         /\ \A m \in S : Below(m + 1, S) = Below(m, S) + 1
         /\ \A n \in 0 .. (Cardinality(S) - 1) : \E l \in S : Below(l, S) = n
<1>1. MACHINE_WIDTH \in Nat \ {0} /\ S \in SUBSET (0 .. (MACHINE_WIDTH - 1))
  BY LsqAssumption DEF Lane
<1>2. IsFiniteSet(S) /\ Cardinality(S) \in Nat
  BY <1>1, RequestsFinite
<1>0. \A q \in S : q \in Int /\ q < MACHINE_WIDTH
  BY <1>1
<1> DEFINE L(l) == {q \in S : q < l}
<1>3. ASSUME NEW l PROVE IsFiniteSet(L(l)) /\ Cardinality(L(l)) \in 0 .. Cardinality(S)
  <2>1. L(l) \in SUBSET S
    OBVIOUS
  <2>2. IsFiniteSet(L(l)) /\ Cardinality(L(l)) <= Cardinality(S) /\ Cardinality(L(l)) \in Nat
    BY <1>2, <2>1, FS_Subset, FS_CardinalityType
  <2> QED
    BY <1>2, <2>2
<1>4. ASSUME NEW m \in Int, NEW l \in Int, m <= l PROVE Cardinality(L(m)) <= Cardinality(L(l))
  <2>1. \A q \in S : q < m => q < l
    BY <1>0, <1>4
  <2>2. L(m) \in SUBSET L(l)
    BY <2>1
  <2>3. IsFiniteSet(L(l))
    BY <1>3
  <2> HIDE DEF L
  <2> QED
    BY <2>2, <2>3, FS_Subset
<1>5. ASSUME NEW m \in S PROVE Cardinality(L(m + 1)) = Cardinality(L(m)) + 1
  <2>1. \A q \in S : /\ q < m + 1 <=> q < m \/ q = m
                     /\ q < m => q # m
    BY <1>0
  <2>2. L(m + 1) = L(m) \cup {m} /\ m \notin L(m)
    BY <2>1
  <2>3. IsFiniteSet(L(m))
    BY <1>3
  <2> HIDE DEF L
  <2> QED
    BY <2>2, <2>3, FS_AddElement
<1>6. Cardinality(S) <= MACHINE_WIDTH
  <2>1. IsFiniteSet(0 .. (MACHINE_WIDTH - 1)) /\ Cardinality(0 .. (MACHINE_WIDTH - 1)) = MACHINE_WIDTH
    BY <1>1, FS_Interval
  <2> QED
    BY <1>1, <2>1, FS_Subset
<1>7. L(MACHINE_WIDTH) = S
  BY <1>0
<1>8. \A l : Below(l, S) = Cardinality(L(l))
  BY DEF Below
<1>9. \A n \in 0 .. (Cardinality(S) - 1) : \E l \in S : Below(l, S) = n
  BY <1>1, EveryRankOccurs
<1> HIDE DEF L
<1>10. ASSUME NEW m \in S, NEW l \in Int, m < l PROVE Below(m, S) + 1 <= Below(l, S)
  <2>1. m \in Int /\ m + 1 \in Int /\ m + 1 <= l
    BY <1>1, <1>10
  <2>2. Cardinality(L(m + 1)) <= Cardinality(L(l))
    BY <1>4, <2>1
  <2> QED
    BY <1>5, <1>8, <2>2
<1>11. IsFiniteSet(S) /\ Cardinality(S) \in 0 .. MACHINE_WIDTH
  BY <1>1, <1>2, <1>6
<1>12. Below(MACHINE_WIDTH, S) = Cardinality(S)
  BY <1>7, <1>8
<1>13. \A l \in Int : Below(l, S) \in 0 .. Cardinality(S)
  BY <1>3, <1>8
<1>14. \A m, l \in Int : m <= l => Below(m, S) <= Below(l, S)
  BY <1>4, <1>8
<1>15. \A m \in S : Below(m + 1, S) = Below(m, S) + 1
  BY <1>5, <1>8
<1> QED
  BY <1>9, <1>10, <1>11, <1>12, <1>13, <1>14, <1>15

\* A load is not a store.
LEMMA AccessKinds == \A op \in Loads : op \notin Stores
<1>1. ASSUME NEW op \in Loads, op \in Stores PROVE FALSE
  <2>1. op \in [addr : Addr, bytes : (SUBSET Byte) \ {{}}]
    BY LsqAssumption
  <2>2. op \in [addr : Addr, bytes : (SUBSET Byte) \ {{}}, val : Val]
    BY <1>1, LsqAssumption
  <2>3. DOMAIN op = {"addr", "bytes"}
    BY <2>1
  <2>4. DOMAIN op = {"addr", "bytes", "val"}
    BY <2>2
  <2>5. "val" \notin {"addr", "bytes"}
    OBVIOUS
  <2> QED
    BY <2>3, <2>4, <2>5
<1> QED
  BY <1>1

\* The lanes of the group with a store, with a load, with either.
StoreLanes == {l \in Lane : IsStore(pipe_rename_pkt[l])}
LoadLanes == {l \in Lane : IsLoad(pipe_rename_pkt[l])}
Occupied == {l \in Lane : pipe_rename_pkt[l] # None}

\* The instruction of a lane with the tag it is given.
Tagged(l) ==
  IF IsStore(pipe_rename_pkt[l]) THEN [kind |-> "st", tag |-> dispatch_st_resp(l)]
                                 ELSE [kind |-> "ld", tag |-> dispatch_ld_resp(l)]

\* Tags number the stores and the loads of a group.
LEMMA LaneCounts ==
  ASSUME pipe_rename_pkt \in Group
  PROVE  /\ \A l : StoresBefore(l) = Below(l, StoreLanes)
         /\ \A l : LoadsBefore(l) = Below(l, LoadLanes)
         /\ st_dispatch_cnt = Cardinality(StoreLanes)
         /\ ld_dispatch_cnt = Cardinality(LoadLanes)
         /\ Occupied = StoreLanes \cup LoadLanes
         /\ StoreLanes \cap LoadLanes = {}
<1>1. \A l : StoresBefore(l) = Below(l, StoreLanes)
  <2> TAKE l
  <2>1. {m \in Lane : m < l /\ IsStore(pipe_rename_pkt[m])} = {q \in StoreLanes : q < l}
    BY DEF StoreLanes
  <2> QED
    BY <2>1 DEF StoresBefore, Below
<1>2. \A l : LoadsBefore(l) = Below(l, LoadLanes)
  <2> TAKE l
  <2>1. {m \in Lane : m < l /\ IsLoad(pipe_rename_pkt[m])} = {q \in LoadLanes : q < l}
    BY DEF LoadLanes
  <2> QED
    BY <2>1 DEF LoadsBefore, Below
<1>3. StoreLanes \in SUBSET Lane /\ LoadLanes \in SUBSET Lane
  BY DEF StoreLanes, LoadLanes
<1>4. Below(MACHINE_WIDTH, StoreLanes) = Cardinality(StoreLanes)
  BY <1>3, LanesCounted
<1>5. Below(MACHINE_WIDTH, LoadLanes) = Cardinality(LoadLanes)
  BY <1>3, LanesCounted
<1>6. \A l \in Lane : pipe_rename_pkt[l] \in Loads \cup Stores \cup {None}
  BY DEF Group
<1>7. None \notin Loads \cup Stores
  BY LsqAssumption
<1>8. Occupied = StoreLanes \cup LoadLanes /\ StoreLanes \cap LoadLanes = {}
  BY <1>6, <1>7, AccessKinds DEF Occupied, StoreLanes, LoadLanes, IsStore, IsLoad
<1> QED
  BY <1>1, <1>2, <1>4, <1>5, <1>8 DEF st_dispatch_cnt, ld_dispatch_cnt

\* The dispatched instructions are those of the occupied lanes in their order.
LEMMA DispatchedIs ==
  /\ DOMAIN Dispatched = 1 .. Cardinality(Occupied)
  /\ Len(Dispatched) = Cardinality(Occupied)
  /\ Dispatched \in Seq({Tagged(l) : l \in Occupied})
  /\ \A l \in Occupied : Below(l, Occupied) + 1 \in DOMAIN Dispatched
                         /\ Dispatched[Below(l, Occupied) + 1] = Tagged(l)
  /\ \A k \in DOMAIN Dispatched : \E l \in Occupied : k = Below(l, Occupied) + 1
<1> DEFINE lane(k) == CHOOSE l \in Occupied : Below(l, Occupied) = k - 1
           n == Cardinality(Occupied)
<1>1. Occupied \in SUBSET Lane
  BY DEF Occupied
<1>2. /\ n \in Nat
      /\ \A l \in Int : Below(l, Occupied) \in 0 .. n
      /\ \A m \in Occupied : \A l \in Int : m < l => Below(m, Occupied) + 1 <= Below(l, Occupied)
      /\ \A m \in Occupied : Below(m + 1, Occupied) = Below(m, Occupied) + 1
      /\ \A k \in 0 .. (n - 1) : \E l \in Occupied : Below(l, Occupied) = k
  BY <1>1, LanesCounted
<1>3. \A l \in Occupied : l \in Int /\ l + 1 \in Int
  BY <1>1, LsqAssumption DEF Lane
<1>4. Dispatched = [k \in 1 .. n |-> Tagged(lane(k))]
  <2>1. Dispatched = [k \in 1 .. n |-> Tagged(CHOOSE l \in Occupied : Cardinality({m \in Occupied : m < l}) = k - 1)]
    BY Zenon DEF Dispatched, Tagged, Occupied
  <2> QED
    BY <2>1, Zenon DEF Below
<1>5. ASSUME NEW k \in 1 .. n PROVE lane(k) \in Occupied /\ Below(lane(k), Occupied) = k - 1
  <2>1. k - 1 \in 0 .. (n - 1)
    BY <1>2
  <2>2. \E l \in Occupied : Below(l, Occupied) = k - 1
    BY <1>2, <2>1
  <2> QED
    BY <2>2
<1>6. ASSUME NEW l \in Occupied PROVE Below(l, Occupied) + 1 \in 1 .. n /\ lane(Below(l, Occupied) + 1) = l
  <2> DEFINE k == Below(l, Occupied) + 1
  <2>1. Below(l, Occupied) \in 0 .. n /\ Below(l + 1, Occupied) \in 0 .. n
    BY <1>2, <1>3
  <2>2. Below(l, Occupied) + 1 <= n
    BY <1>2, <2>1
  <2>3. k \in 1 .. n /\ k - 1 = Below(l, Occupied)
    BY <1>2, <2>1, <2>2
  <2>4. lane(k) \in Occupied /\ Below(lane(k), Occupied) = Below(l, Occupied)
    BY <1>5, <2>3
  <2> HIDE DEF lane
  <2>5. lane(k) = l
    <3>1. lane(k) \in Int /\ l \in Int
      BY <1>3, <2>4
    <3> QED
      BY <1>2, <2>1, <2>4, <3>1
  <2> QED
    BY <2>3, <2>5
<1> HIDE DEF lane, n
<1>7. /\ DOMAIN Dispatched = 1 .. n
      /\ \A k \in 1 .. n : Dispatched[k] = Tagged(lane(k))
  BY <1>4
<1>8. ASSUME NEW k \in 1 .. n PROVE k = Below(lane(k), Occupied) + 1
  <2>1. Below(lane(k), Occupied) = k - 1
    BY <1>5
  <2> QED
    BY <2>1
<1>9. Dispatched \in [1 .. n -> {Tagged(l) : l \in Occupied}]
  BY <1>4, <1>5
<1>10. Dispatched \in Seq({Tagged(l) : l \in Occupied}) /\ Len(Dispatched) = n
  BY <1>2, <1>9, LengthIs
<1> QED
  BY <1>5, <1>6, <1>7, <1>8, <1>10 DEF n
---------------------------------------------------------------------------
(* Program order: the ages of the instructions of one kind in a sequence *)

\* The instructions of this kind in s take, in their order, the ages from lo
\* to hi - 1, each once.
Runs(s, kind, age, lo, hi) ==
  /\ \A k \in DOMAIN s : s[k].kind = kind => age[s[k].tag] \in lo .. (hi - 1)
  /\ \A j, k \in DOMAIN s :
       s[j].kind = kind /\ s[k].kind = kind /\ j < k => age[s[j].tag] < age[s[k].tag]
  /\ \A n \in lo .. (hi - 1) : \E k \in DOMAIN s : s[k].kind = kind /\ age[s[k].tag] = n

TagsOf(s, kind) == {s[k].tag : k \in {j \in DOMAIN s : s[j].kind = kind}}

\* The parts of a concatenation.
LEMMA Concatenated ==
  ASSUME NEW A, NEW s \in Seq(A), NEW t \in Seq(A)
  PROVE  /\ s \o t \in Seq(A)
         /\ Len(s) \in Nat /\ Len(t) \in Nat /\ Len(s \o t) = Len(s) + Len(t)
         /\ DOMAIN s = 1 .. Len(s) /\ DOMAIN t = 1 .. Len(t)
         /\ DOMAIN (s \o t) = 1 .. (Len(s) + Len(t))
         /\ \A k \in DOMAIN s : k \in DOMAIN (s \o t) /\ (s \o t)[k] = s[k]
         /\ \A k \in DOMAIN t : k + Len(s) \in DOMAIN (s \o t) /\ (s \o t)[k + Len(s)] = t[k]
         /\ \A k \in DOMAIN (s \o t) : k > Len(s) => k - Len(s) \in DOMAIN t
<1>1. s \o t \in Seq(A) /\ Len(s) \in Nat /\ Len(t) \in Nat /\ Len(s \o t) = Len(s) + Len(t)
  BY ConcatProperties, LenProperties
<1>2. /\ DOMAIN s = 1 .. Len(s) /\ DOMAIN t = 1 .. Len(t)
      /\ DOMAIN (s \o t) = 1 .. (Len(s) + Len(t))
  BY <1>1, LenProperties
<1>3. \A i \in 1 .. (Len(s) + Len(t)) :
        (s \o t)[i] = IF i <= Len(s) THEN s[i] ELSE t[i - Len(s)]
  BY ConcatProperties
<1> QED
  BY <1>1, <1>2, <1>3

\* When all ages shrink by n the run moves by n.
LEMMA RunsShift ==
  ASSUME NEW s, NEW kind, NEW age, NEW older, NEW lo \in Int, NEW hi \in Int, NEW n \in Int,
         Runs(s, kind, age, lo, hi),
         \A k \in DOMAIN s : s[k].kind = kind => older[s[k].tag] = age[s[k].tag] - n
  PROVE  Runs(s, kind, older, lo - n, hi - n)
<1>1. \A k \in DOMAIN s : s[k].kind = kind => age[s[k].tag] \in lo .. (hi - 1)
  BY DEF Runs
<1>2. \A k \in DOMAIN s : s[k].kind = kind => older[s[k].tag] \in (lo - n) .. ((hi - n) - 1)
  BY <1>1
<1>3. \A j, k \in DOMAIN s :
        s[j].kind = kind /\ s[k].kind = kind /\ j < k => older[s[j].tag] < older[s[k].tag]
  <2> TAKE j, k \in DOMAIN s
  <2> HAVE s[j].kind = kind /\ s[k].kind = kind /\ j < k
  <2>1. age[s[j].tag] < age[s[k].tag]
    BY DEF Runs
  <2>2. age[s[j].tag] \in Int /\ age[s[k].tag] \in Int
    BY <1>1
  <2> QED
    BY <2>1, <2>2
<1>4. \A m \in (lo - n) .. ((hi - n) - 1) :
        \E k \in DOMAIN s : s[k].kind = kind /\ older[s[k].tag] = m
  <2> TAKE m \in (lo - n) .. ((hi - n) - 1)
  <2>1. m + n \in lo .. (hi - 1)
    OBVIOUS
  <2>2. PICK k \in DOMAIN s : s[k].kind = kind /\ age[s[k].tag] = m + n
    BY <2>1 DEF Runs
  <2> QED
    BY <2>2
<1> QED
  BY <1>2, <1>3, <1>4 DEF Runs

\* Two runs that meet join.
LEMMA RunsJoin ==
  ASSUME NEW A, NEW s \in Seq(A), NEW t \in Seq(A), NEW kind, NEW age,
         NEW lo \in Int, NEW mid \in Int, NEW hi \in Int, lo <= mid, mid <= hi,
         Runs(s, kind, age, lo, mid), Runs(t, kind, age, mid, hi)
  PROVE  Runs(s \o t, kind, age, lo, hi)
<1> DEFINE u == s \o t
<1>1. /\ Len(s) \in Nat /\ DOMAIN s = 1 .. Len(s)
      /\ DOMAIN u \subseteq Nat
      /\ \A k \in DOMAIN s : k \in DOMAIN u /\ u[k] = s[k]
      /\ \A k \in DOMAIN t : k + Len(s) \in DOMAIN u /\ u[k + Len(s)] = t[k]
      /\ \A k \in DOMAIN u : k > Len(s) => k - Len(s) \in DOMAIN t
  BY Concatenated, SMTT(20)
<1>2. \A k \in DOMAIN u : k \in DOMAIN s \/ (k > Len(s) /\ k - Len(s) \in DOMAIN t /\ u[k] = t[k - Len(s)])
  <2> TAKE k \in DOMAIN u
  <2>1. k \in Nat /\ k >= 1
    BY Concatenated
  <2> HIDE DEF u
  <2>2. CASE k <= Len(s)
    BY <1>1, <2>1, <2>2
  <2>3. CASE k > Len(s)
    <3>1. k - Len(s) \in DOMAIN t
      BY <1>1, <2>3
    <3>2. u[(k - Len(s)) + Len(s)] = t[k - Len(s)]
      BY <1>1, <3>1
    <3>3. (k - Len(s)) + Len(s) = k
      BY <1>1, <2>1
    <3> QED
      BY <2>3, <3>1, <3>2, <3>3
  <2> QED
    BY <1>1, <2>1, <2>2, <2>3
<1> HIDE DEF u
<1>3. ASSUME NEW k \in DOMAIN u, u[k].kind = kind
      PROVE  /\ k \in DOMAIN s => age[u[k].tag] \in lo .. (mid - 1)
             /\ k \notin DOMAIN s => age[u[k].tag] \in mid .. (hi - 1)
  BY <1>1, <1>2, <1>3 DEF Runs
<1>4. ASSUME NEW j \in DOMAIN u, NEW k \in DOMAIN u, u[j].kind = kind, u[k].kind = kind, j < k
      PROVE  age[u[j].tag] < age[u[k].tag]
  <2>1. CASE k \in DOMAIN s
    <3>1. j \in DOMAIN s
      BY <1>1, <1>2, <1>4, <2>1
    <3> QED
      BY <1>1, <1>4, <2>1, <3>1 DEF Runs
  <2>2. CASE j \in DOMAIN s /\ k \notin DOMAIN s
    <3>1. age[u[j].tag] \in lo .. (mid - 1) /\ age[u[k].tag] \in mid .. (hi - 1)
      BY <1>3, <1>4, <2>2
    <3> QED
      BY <3>1
  <2>3. CASE j \notin DOMAIN s /\ k \notin DOMAIN s
    <3>1. /\ j - Len(s) \in DOMAIN t /\ u[j] = t[j - Len(s)]
          /\ k - Len(s) \in DOMAIN t /\ u[k] = t[k - Len(s)]
      BY <1>2, <2>3
    <3>2. j - Len(s) < k - Len(s)
      BY <1>1, <1>4
    <3> QED
      BY <1>4, <3>1, <3>2 DEF Runs
  <2> QED
    BY <1>1, <1>2, <1>4, <2>1, <2>2, <2>3
<1>5. ASSUME NEW n \in lo .. (hi - 1) PROVE \E k \in DOMAIN u : u[k].kind = kind /\ age[u[k].tag] = n
  <2>1. CASE n < mid
    <3>1. n \in lo .. (mid - 1)
      BY <2>1
    <3>2. PICK k \in DOMAIN s : s[k].kind = kind /\ age[s[k].tag] = n
      BY <3>1 DEF Runs
    <3> QED
      BY <1>1, <3>2
  <2>2. CASE n >= mid
    <3>1. n \in mid .. (hi - 1)
      BY <2>2
    <3>2. PICK k \in DOMAIN t : t[k].kind = kind /\ age[t[k].tag] = n
      BY <3>1 DEF Runs
    <3> QED
      BY <1>1, <3>2
  <2> QED
    BY <2>1, <2>2
<1>6. \A k \in DOMAIN u : u[k].kind = kind => age[u[k].tag] \in lo .. (hi - 1)
  BY <1>3
<1>7. Runs(u, kind, age, lo, hi)
  BY <1>4, <1>5, <1>6 DEF Runs
<1> QED
  BY <1>7 DEF u

\* A run is cut where the sequence is: the number of tags in the first part
\* says where.
LEMMA RunsCut ==
  ASSUME NEW A, NEW s \in Seq(A), NEW t \in Seq(A), NEW kind, NEW age,
         NEW lo \in Int, NEW hi \in Int, lo <= hi,
         Runs(s \o t, kind, age, lo, hi)
  PROVE  LET m == Cardinality(TagsOf(s, kind))
         IN  /\ m \in 0 .. (hi - lo)
             /\ Runs(s, kind, age, lo, lo + m)
             /\ Runs(t, kind, age, lo + m, hi)
<1> DEFINE u == s \o t
           T == TagsOf(s, kind)
           S == {age[x] - lo : x \in T}
<1>1. /\ Len(s) \in Nat /\ DOMAIN s = 1 .. Len(s) /\ DOMAIN t \subseteq Nat
      /\ \A k \in DOMAIN t : k >= 1
      /\ DOMAIN u \subseteq Nat
      /\ \A k \in DOMAIN s : k \in DOMAIN u /\ u[k] = s[k]
      /\ \A k \in DOMAIN t : k + Len(s) \in DOMAIN u /\ u[k + Len(s)] = t[k]
      /\ \A k \in DOMAIN u : k > Len(s) => k - Len(s) \in DOMAIN t
      /\ \A k \in DOMAIN u : k >= 1
  BY Concatenated
<1>2. /\ \A k \in DOMAIN u : u[k].kind = kind => age[u[k].tag] \in lo .. (hi - 1)
      /\ \A j, k \in DOMAIN u :
           u[j].kind = kind /\ u[k].kind = kind /\ j < k => age[u[j].tag] < age[u[k].tag]
      /\ \A n \in lo .. (hi - 1) : \E k \in DOMAIN u : u[k].kind = kind /\ age[u[k].tag] = n
  BY DEF Runs
<1> HIDE DEF u
<1>3. \A x \in T : \E k \in DOMAIN s : s[k].kind = kind /\ s[k].tag = x
  BY DEF TagsOf
<1>4. \A k \in DOMAIN s : s[k].kind = kind => s[k].tag \in T
  BY DEF TagsOf
<1> HIDE DEF T
<1>5. ASSUME NEW x \in T PROVE age[x] \in lo .. (hi - 1)
  BY <1>1, <1>2, <1>3
<1>6. S \in SUBSET (0 .. ((hi - lo) - 1))
  BY <1>5
<1>7. ASSUME NEW i \in S, NEW j \in 0 .. i PROVE j \in S
  <2>1. PICK x \in T : i = age[x] - lo
    OBVIOUS
  <2>2. PICK k \in DOMAIN s : s[k].kind = kind /\ s[k].tag = x
    BY <1>3
  <2>3. age[x] \in lo .. (hi - 1) /\ i \in Int
    BY <1>5, <2>1
  <2>4. j + lo \in lo .. (hi - 1) /\ j + lo <= age[x]
    BY <2>1, <2>3
  <2>5. PICK q \in DOMAIN u : u[q].kind = kind /\ age[u[q].tag] = j + lo
    BY <1>2, <2>4
  <2>6. k \in DOMAIN u /\ u[k] = s[k]
    BY <1>1
  <2>7. q <= k
    <3>1. k < q => age[u[k].tag] < age[u[q].tag]
      BY <1>2, <2>2, <2>5, <2>6
    <3>2. ~ (k < q)
      BY <2>2, <2>3, <2>4, <2>5, <2>6, <3>1
    <3> QED
      BY <1>1, <2>6, <3>2
  <2>8. q \in DOMAIN s
    BY <1>1, <2>7
  <2>9. u[q].tag \in T
    BY <1>1, <1>4, <2>5, <2>8
  <2> QED
    BY <2>4, <2>5, <2>9
<1>8. hi - lo \in Nat
  OBVIOUS
<1>9. Cardinality(S) \in 0 .. (hi - lo) /\ S = 0 .. (Cardinality(S) - 1)
  <2>1. \A i \in S : \A j \in 0 .. i : j \in S
    BY <1>7
  <2> HIDE DEF S
  <2> QED
    BY <1>6, <1>8, <2>1, PrefixIsInterval
<1>10. ASSUME NEW x \in T, NEW y \in T, age[x] = age[y] PROVE x = y
  <2>1. PICK j \in DOMAIN s : s[j].kind = kind /\ s[j].tag = x
    BY <1>3
  <2>2. PICK k \in DOMAIN s : s[k].kind = kind /\ s[k].tag = y
    BY <1>3
  <2>3. age[x] \in Int /\ age[y] \in Int
    BY <1>5
  <2>4. ~ (j < k) /\ ~ (k < j)
    BY <1>1, <1>2, <1>10, <2>1, <2>2, <2>3, SMTT(20)
  <2>5. j = k
    BY <1>1, <2>4
  <2> QED
    BY <2>1, <2>2, <2>5
<1>11. Cardinality(S) = Cardinality(T)
  <2> DEFINE g == [i \in S |-> CHOOSE x \in T : age[x] - lo = i]
  <2>1. ASSUME NEW i \in S PROVE g[i] \in T /\ age[g[i]] - lo = i
    <3>1. \E x \in T : age[x] - lo = i
      OBVIOUS
    <3> QED
      BY <3>1
  <2>2. g \in [S -> T]
    BY <2>1
  <2>3. \A i, j \in S : g[i] = g[j] => i = j
    BY <2>1
  <2>4. ASSUME NEW x \in T PROVE \E i \in S : g[i] = x
    <3> DEFINE i == age[x] - lo
    <3>1. i \in S
      OBVIOUS
    <3>2. g[i] \in T /\ age[g[i]] - lo = age[x] - lo
      BY <2>1, <3>1
    <3>3. age[g[i]] \in Int /\ age[x] \in Int
      BY <1>5, <3>2
    <3> HIDE DEF g, i
    <3>4. age[g[i]] = age[x]
      BY <3>2, <3>3
    <3> QED
      BY <1>10, <3>1, <3>2, <3>4
  <2> HIDE DEF S, g
  <2>5. g \in Bijection(S, T)
    BY <2>2, <2>3, <2>4 DEF Bijection, Injection, Surjection, IsInjective
  <2>6. IsFiniteSet(S)
    BY <1>9, FS_Interval
  <2>7. ExistsBijection(S, T)
    BY <2>5 DEF ExistsBijection
  <2> QED
    BY <2>6, <2>7, FS_Bijection
<1> DEFINE m == Cardinality(T)
<1>12. m \in 0 .. (hi - lo) /\ S = 0 .. (m - 1)
  BY <1>9, <1>11
<1>13. ASSUME NEW k \in DOMAIN s, s[k].kind = kind PROVE age[s[k].tag] \in lo .. ((lo + m) - 1)
  <2>1. s[k].tag \in T
    BY <1>4, <1>13
  <2>2. age[s[k].tag] - lo \in S
    BY <2>1
  <2>3. age[s[k].tag] \in Int
    BY <1>5, <2>1
  <2> HIDE DEF S, m
  <2> QED
    BY <1>12, <2>2, <2>3
<1>14. ASSUME NEW k \in DOMAIN t, t[k].kind = kind PROVE age[t[k].tag] \in (lo + m) .. (hi - 1)
  <2> DEFINE q == k + Len(s)
  <2>1. q \in DOMAIN u /\ u[q] = t[k] /\ q \in Nat /\ q > Len(s)
    BY <1>1
  <2> HIDE DEF q
  <2>2. age[t[k].tag] \in lo .. (hi - 1)
    BY <1>2, <1>14, <2>1
  <2>3. ~ (age[t[k].tag] < lo + m)
    <3>1. SUFFICES ASSUME age[t[k].tag] < lo + m PROVE FALSE
      OBVIOUS
    <3>2. age[t[k].tag] - lo \in S
      <4> HIDE DEF S, m
      <4> QED
        BY <1>12, <2>2, <3>1
    <3>3. PICK x \in T : age[t[k].tag] - lo = age[x] - lo
      BY <3>2
    <3>4. PICK j \in DOMAIN s : s[j].kind = kind /\ s[j].tag = x
      BY <1>3
    <3>5. j \in DOMAIN u /\ u[j] = s[j] /\ j < q
      BY <1>1, <2>1
    <3>6. age[u[j].tag] < age[u[q].tag]
      BY <1>2, <1>14, <2>1, <3>4, <3>5
    <3>7. age[x] \in Int
      BY <1>5
    <3> HIDE DEF S, m
    <3> QED
      BY <2>1, <2>2, <3>3, <3>4, <3>5, <3>6, <3>7, SMTT(20)
  <2> HIDE DEF S, m
  <2> QED
    BY <1>12, <2>2, <2>3
<1>15. ASSUME NEW n \in lo .. ((lo + m) - 1) PROVE \E k \in DOMAIN s : s[k].kind = kind /\ age[s[k].tag] = n
  <2>1. n - lo \in S
    <3> HIDE DEF S, m
    <3> QED
      BY <1>12
  <2>2. PICK x \in T : n - lo = age[x] - lo
    BY <2>1
  <2>3. age[x] \in Int
    BY <1>5
  <2>4. age[x] = n
    BY <2>2, <2>3
  <2> QED
    BY <1>3, <2>4
<1>16. ASSUME NEW n \in (lo + m) .. (hi - 1) PROVE \E k \in DOMAIN t : t[k].kind = kind /\ age[t[k].tag] = n
  <2>1. n \in lo .. (hi - 1) /\ n >= lo + m
    <3> HIDE DEF m
    <3> QED
      BY <1>12
  <2>2. PICK q \in DOMAIN u : u[q].kind = kind /\ age[u[q].tag] = n
    BY <1>2, <2>1
  <2>3. q \notin DOMAIN s
    <3>1. ASSUME q \in DOMAIN s PROVE FALSE
      <4>1. age[s[q].tag] \in lo .. ((lo + m) - 1) /\ u[q] = s[q]
        BY <1>1, <1>13, <2>2, <3>1
      <4> HIDE DEF m
      <4> QED
        BY <1>12, <2>1, <2>2, <4>1
    <3> QED
      BY <3>1
  <2>4. q > Len(s) /\ q - Len(s) \in DOMAIN t
    BY <1>1, <2>3
  <2>5. u[(q - Len(s)) + Len(s)] = t[q - Len(s)] /\ (q - Len(s)) + Len(s) = q
    BY <1>1, <2>4
  <2> QED
    BY <2>2, <2>4, <2>5
<1>17. \A j, k \in DOMAIN s :
         s[j].kind = kind /\ s[k].kind = kind /\ j < k => age[s[j].tag] < age[s[k].tag]
  BY <1>1, <1>2
<1>18. \A j, k \in DOMAIN t :
         t[j].kind = kind /\ t[k].kind = kind /\ j < k => age[t[j].tag] < age[t[k].tag]
  <2> TAKE j, k \in DOMAIN t
  <2> HAVE t[j].kind = kind /\ t[k].kind = kind /\ j < k
  <2>1. j + Len(s) < k + Len(s)
    BY <1>1
  <2>2. /\ j + Len(s) \in DOMAIN u /\ u[j + Len(s)] = t[j]
        /\ k + Len(s) \in DOMAIN u /\ u[k + Len(s)] = t[k]
    BY <1>1
  <2>3. \A p, q \in DOMAIN u :
          u[p] = t[j] /\ u[q] = t[k] /\ p < q => age[t[j].tag] < age[t[k].tag]
    BY <1>2
  <2> QED
    BY <2>1, <2>2, <2>3
<1> HIDE DEF m
<1>19. Runs(s, kind, age, lo, lo + m)
  BY <1>13, <1>15, <1>17 DEF Runs
<1>20. Runs(t, kind, age, lo + m, hi)
  BY <1>14, <1>16, <1>18 DEF Runs
<1> QED
  BY <1>12, <1>19, <1>20 DEF m, T
\* The instructions of one kind in the dispatched group continue the ages of
\* their queue.
LEMMA GroupRuns ==
  ASSUME NEW kind, NEW S \in SUBSET Occupied, NEW age, NEW c \in Int,
         \A l \in Occupied : Tagged(l).kind = kind <=> l \in S,
         \A l \in S : age[Tagged(l).tag] = c + Below(l, S)
  PROVE  Runs(Dispatched, kind, age, c, c + Cardinality(S))
<1>1. /\ \A l \in Occupied : Below(l, Occupied) + 1 \in DOMAIN Dispatched
                             /\ Dispatched[Below(l, Occupied) + 1] = Tagged(l)
      /\ \A k \in DOMAIN Dispatched : \E l \in Occupied : k = Below(l, Occupied) + 1
  BY DispatchedIs
<1>2. S \in SUBSET Lane /\ Occupied \in SUBSET Lane
  BY DEF Occupied
<1>3. \A l \in Occupied : l \in Int /\ l + 1 \in Int
  BY <1>2, LsqAssumption DEF Lane
<1>4. /\ \A l \in Int : Below(l, Occupied) \in 0 .. Cardinality(Occupied)
      /\ \A m, l \in Int : m <= l => Below(m, Occupied) <= Below(l, Occupied)
  BY <1>2, LanesCounted
<1>5. /\ Cardinality(S) \in Nat
      /\ \A l \in Int : Below(l, S) \in 0 .. Cardinality(S)
      /\ \A m \in S : \A l \in Int : m < l => Below(m, S) + 1 <= Below(l, S)
      /\ \A m \in S : Below(m + 1, S) = Below(m, S) + 1
      /\ \A n \in 0 .. (Cardinality(S) - 1) : \E l \in S : Below(l, S) = n
  BY <1>2, LanesCounted
<1>6. \A l \in S : Below(l, S) \in 0 .. (Cardinality(S) - 1)
  <2> TAKE l \in S
  <2>1. Below(l, S) \in 0 .. Cardinality(S) /\ Below(l + 1, S) \in 0 .. Cardinality(S)
    BY <1>3, <1>5
  <2> QED
    BY <1>5, <2>1
<1>7. ASSUME NEW k \in DOMAIN Dispatched, Dispatched[k].kind = kind
      PROVE  \E l \in S : k = Below(l, Occupied) + 1 /\ age[Dispatched[k].tag] = c + Below(l, S)
  <2>1. PICK l \in Occupied : k = Below(l, Occupied) + 1
    BY <1>1
  <2>2. Dispatched[k] = Tagged(l)
    BY <1>1, <2>1
  <2>3. l \in S
    BY <1>7, <2>2
  <2> QED
    BY <2>1, <2>2, <2>3
<1>8. \A k \in DOMAIN Dispatched :
        Dispatched[k].kind = kind => age[Dispatched[k].tag] \in c .. ((c + Cardinality(S)) - 1)
  <2> TAKE k \in DOMAIN Dispatched
  <2> HAVE Dispatched[k].kind = kind
  <2>1. PICK l \in S : age[Dispatched[k].tag] = c + Below(l, S)
    BY <1>7
  <2>2. Below(l, S) \in 0 .. (Cardinality(S) - 1)
    BY <1>6
  <2> QED
    BY <1>5, <2>1, <2>2
<1>9. \A j, k \in DOMAIN Dispatched :
        Dispatched[j].kind = kind /\ Dispatched[k].kind = kind /\ j < k =>
          age[Dispatched[j].tag] < age[Dispatched[k].tag]
  <2> TAKE j, k \in DOMAIN Dispatched
  <2> HAVE Dispatched[j].kind = kind /\ Dispatched[k].kind = kind /\ j < k
  <2>1. PICK p \in S : j = Below(p, Occupied) + 1 /\ age[Dispatched[j].tag] = c + Below(p, S)
    BY <1>7
  <2>2. PICK q \in S : k = Below(q, Occupied) + 1 /\ age[Dispatched[k].tag] = c + Below(q, S)
    BY <1>7
  <2>3. /\ p \in Int /\ q \in Int
        /\ Below(p, Occupied) \in Int /\ Below(q, Occupied) \in Int
        /\ Below(p, S) \in Int /\ Below(q, S) \in Int
    BY <1>3, <1>4, <1>5
  <2>4. p < q
    <3>1. q <= p => Below(q, Occupied) <= Below(p, Occupied)
      BY <1>4, <2>3
    <3> QED
      BY <2>1, <2>2, <2>3, <3>1
  <2>5. Below(p, S) + 1 <= Below(q, S)
    BY <1>5, <2>3, <2>4
  <2> QED
    BY <2>1, <2>2, <2>3, <2>5
<1>10. \A n \in c .. ((c + Cardinality(S)) - 1) :
         \E k \in DOMAIN Dispatched : Dispatched[k].kind = kind /\ age[Dispatched[k].tag] = n
  <2> TAKE n \in c .. ((c + Cardinality(S)) - 1)
  <2>1. n - c \in 0 .. (Cardinality(S) - 1)
    BY <1>5
  <2>2. PICK l \in S : Below(l, S) = n - c
    BY <1>5, <2>1
  <2>3. Dispatched[Below(l, Occupied) + 1] = Tagged(l) /\ Below(l, Occupied) + 1 \in DOMAIN Dispatched
    BY <1>1
  <2>4. age[Tagged(l).tag] = n /\ Tagged(l).kind = kind
    BY <2>2
  <2> QED
    BY <2>3, <2>4
<1> QED
  BY <1>8, <1>9, <1>10 DEF Runs

---------------------------------------------------------------------------
(* What a byte of memory is worth after some of the queued stores *)

\* A non-empty set of naturals below a bound has a greatest element.
LEMMA GreatestElement ==
  ASSUME NEW n \in Nat, NEW S \in SUBSET (0 .. n), S # {}
  PROVE  \E x \in S : \A y \in S : y <= x
<1> DEFINE T == {n - x : x \in S}
<1>1. T \in SUBSET Nat /\ T # {}
  <2>1. \A x \in S : n - x \in Nat
    OBVIOUS
  <2> QED
    BY <2>1
<1>2. PICK t \in T : \A u \in T : t <= u
  BY <1>1, LeastElement
<1>3. PICK x \in S : t = n - x
  BY <1>2
<1>4. \A y \in S : n - x <= n - y
  BY <1>2, <1>3
<1>5. \A y \in S : y <= x
  BY <1>4
<1> QED
  BY <1>5

\* The greatest of a set of naturals.
LEMMA MaxOfIs ==
  ASSUME NEW n \in Nat, NEW S \in SUBSET (0 .. n), S # {}
  PROVE  MaxOf(S) \in S /\ \A y \in S : y <= MaxOf(S)
  BY GreatestElement DEF MaxOf

\* The least of a set of naturals.
LEMMA MinOfIs ==
  ASSUME NEW n \in Nat, NEW S \in SUBSET (0 .. n), S # {}
  PROVE  MinOf(S) \in S /\ \A y \in S : MinOf(S) <= y
<1>1. S \in SUBSET Nat
  OBVIOUS
<1> QED
  BY <1>1, LeastElement DEF MinOf

\* The stores of S, entries of ent, that write byte b of word a.
Writers(ent, S, a, b) == {i \in S : ent[i].st.addr = a /\ b \in ent[i].st.bytes}

\* v is what the youngest of them writes, or what mem holds.
IsValue(v, ent, age, mem, S, a, b) ==
  \/ Writers(ent, S, a, b) = {} /\ v = mem[a][b]
  \/ \E i \in Writers(ent, S, a, b) :
       /\ \A j \in Writers(ent, S, a, b) : age[j] <= age[i]
       /\ v = ent[i].st.val

\* There is one such value.
LEMMA ValueUnique ==
  ASSUME NEW ent, NEW age, NEW mem, NEW S, NEW a, NEW b, NEW v, NEW w,
         \A i \in S : age[i] \in Int,
         \A i, j \in S : age[i] = age[j] => i = j,
         IsValue(v, ent, age, mem, S, a, b), IsValue(w, ent, age, mem, S, a, b)
  PROVE  v = w
<1> DEFINE W == Writers(ent, S, a, b)
<1>1. W \subseteq S
  BY DEF Writers
<1>2. CASE W = {}
  BY <1>2 DEF IsValue
<1>3. CASE W # {}
  <2>1. PICK i \in W : (\A j \in W : age[j] <= age[i]) /\ v = ent[i].st.val
    BY <1>3 DEF IsValue
  <2>2. PICK k \in W : (\A j \in W : age[j] <= age[k]) /\ w = ent[k].st.val
    BY <1>3 DEF IsValue
  <2>3. age[i] <= age[k] /\ age[k] <= age[i] /\ age[i] \in Int /\ age[k] \in Int
    BY <1>1, <2>1, <2>2
  <2>4. i = k
    BY <1>1, <2>3
  <2> QED
    BY <2>1, <2>2, <2>4
<1> QED
  BY <1>2, <1>3

\* Stores that write somewhere else do not matter.
LEMMA ValueOfWriters ==
  ASSUME NEW ent, NEW age, NEW mem, NEW S, NEW T, NEW a, NEW b, NEW v,
         Writers(ent, S, a, b) = Writers(ent, T, a, b),
         IsValue(v, ent, age, mem, S, a, b)
  PROVE  IsValue(v, ent, age, mem, T, a, b)
  BY DEF IsValue

\* A cycle in which no store leaves for memory.
LEMMA ValueStays ==
  ASSUME NEW ent, NEW age, NEW mem, NEW ent2, NEW age2, NEW mem2, NEW S, NEW a, NEW b, NEW v,
         \A i \in S : ent2[i].st = ent[i].st /\ age2[i] = age[i],
         mem2[a][b] = mem[a][b],
         IsValue(v, ent, age, mem, S, a, b)
  PROVE  IsValue(v, ent2, age2, mem2, S, a, b)
<1>1. Writers(ent2, S, a, b) = Writers(ent, S, a, b)
  BY DEF Writers
<1>2. Writers(ent, S, a, b) \subseteq S
  BY DEF Writers
<1> QED
  BY <1>1, <1>2 DEF IsValue

\* A cycle in which the oldest store of S, h, leaves for memory.
LEMMA ValueMoves ==
  ASSUME NEW ent, NEW age, NEW mem, NEW ent2, NEW age2, NEW mem2, NEW S, NEW a, NEW b, NEW v,
         NEW h \in S, age[h] = 0,
         \A i \in S \ {h} : ent2[i].st = ent[i].st /\ age[i] \in Nat \ {0} /\ age2[i] = age[i] - 1,
         mem2[a][b] = IF ent[h].st.addr = a /\ b \in ent[h].st.bytes
                        THEN ent[h].st.val ELSE mem[a][b],
         IsValue(v, ent, age, mem, S, a, b)
  PROVE  IsValue(v, ent2, age2, mem2, S \ {h}, a, b)
<1> DEFINE W == Writers(ent, S, a, b)
           X == Writers(ent2, S \ {h}, a, b)
<1>1. X = W \ {h} /\ W \subseteq S
  BY DEF Writers
<1>2. h \in W <=> ent[h].st.addr = a /\ b \in ent[h].st.bytes
  BY DEF Writers
<1>3. CASE W = {}
  <2>1. v = mem[a][b] /\ X = {} /\ mem2[a][b] = mem[a][b]
    BY <1>1, <1>2, <1>3 DEF IsValue
  <2> QED
    BY <2>1 DEF IsValue
<1>4. CASE W # {}
  <2>1. PICK i \in W : (\A j \in W : age[j] <= age[i]) /\ v = ent[i].st.val
    BY <1>4 DEF IsValue
  <2>2. CASE i = h
    <3>1. \A j \in W : j = h
      <4> TAKE j \in W
      <4>1. age[j] <= 0
        BY <2>1, <2>2
      <4> QED
        BY <1>1, <4>1
    <3>2. X = {} /\ v = mem2[a][b]
      BY <1>1, <1>2, <2>1, <2>2, <3>1
    <3> QED
      BY <3>2 DEF IsValue
  <2>3. CASE i # h
    <3>1. i \in X /\ v = ent2[i].st.val
      BY <1>1, <2>1, <2>3
    <3>2. \A j \in X : age2[j] <= age2[i]
      <4> TAKE j \in X
      <4>1. age[j] <= age[i] /\ j \in S \ {h} /\ i \in S \ {h}
        BY <1>1, <2>1, <3>1
      <4> QED
        BY <4>1
    <3> QED
      BY <3>1, <3>2 DEF IsValue
  <2> QED
    BY <2>2, <2>3
<1> QED
  BY <1>3, <1>4

\* Younger stores are added: T after S.
LEMMA ValueExtends ==
  ASSUME NEW ent, NEW age, NEW mem, NEW S, NEW T, NEW a, NEW b, NEW v, NEW w,
         \A i \in S : \A j \in T : age[i] <= age[j],
         IsValue(v, ent, age, mem, S, a, b),
         IF Writers(ent, T, a, b) = {} THEN w = v
         ELSE \E i \in Writers(ent, T, a, b) :
                /\ \A j \in Writers(ent, T, a, b) : age[j] <= age[i]
                /\ w = ent[i].st.val
  PROVE  IsValue(w, ent, age, mem, S \cup T, a, b)
<1>1. /\ Writers(ent, S \cup T, a, b) = Writers(ent, S, a, b) \cup Writers(ent, T, a, b)
      /\ Writers(ent, S, a, b) \subseteq S
      /\ Writers(ent, T, a, b) \subseteq T
  BY DEF Writers
<1>2. CASE Writers(ent, T, a, b) = {}
  <2>1. Writers(ent, S \cup T, a, b) = Writers(ent, S, a, b) /\ w = v
    BY <1>1, <1>2
  <2> QED
    BY <2>1 DEF IsValue
<1>3. CASE Writers(ent, T, a, b) # {}
  <2>1. PICK i \in Writers(ent, T, a, b) :
               /\ \A j \in Writers(ent, T, a, b) : age[j] <= age[i]
               /\ w = ent[i].st.val
    BY <1>3
  <2>2. \A j \in Writers(ent, S \cup T, a, b) : age[j] <= age[i]
    BY <1>1, <2>1
  <2>3. i \in Writers(ent, S \cup T, a, b)
    BY <1>1
  <2> QED
    BY <2>1, <2>2, <2>3 DEF IsValue
<1> QED
  BY <1>2, <1>3

\* A value exists for any set of slots.
LEMMA ValueExists ==
  ASSUME NEW ent, NEW age, NEW mem, NEW S, NEW a, NEW b, NEW n \in Nat,
         \A i \in S : age[i] \in 0 .. n
  PROVE  Writers(ent, S, a, b) # {} =>
           \E i \in Writers(ent, S, a, b) : \A j \in Writers(ent, S, a, b) : age[j] <= age[i]
<1> DEFINE W == Writers(ent, S, a, b)
           A == {age[i] : i \in W}
<1>1. W \subseteq S
  BY DEF Writers
<1> SUFFICES ASSUME W # {} PROVE \E i \in W : \A j \in W : age[j] <= age[i]
  OBVIOUS
<1>2. A \in SUBSET (0 .. n) /\ A # {}
  BY <1>1
<1>3. PICK x \in A : \A y \in A : y <= x
  BY <1>2, GreatestElement
<1> QED
  BY <1>3

\* A store to memory.
LEMMA WriteIs ==
  ASSUME NEW m \in [Addr -> [Byte -> Val]], NEW st \in Stores, NEW a \in Addr, NEW b \in Byte
  PROVE  /\ Write(m, st) \in [Addr -> [Byte -> Val]]
         /\ Write(m, st)[a][b] = IF st.addr = a /\ b \in st.bytes THEN st.val ELSE m[a][b]
<1>1. st.addr \in Addr /\ st.val \in Val
  BY LsqAssumption
<1>2. Write(m, st) = [m EXCEPT ![st.addr] = [x \in Byte |-> IF x \in st.bytes THEN st.val ELSE m[st.addr][x]]]
  BY DEF Write
<1>3. [x \in Byte |-> IF x \in st.bytes THEN st.val ELSE m[st.addr][x]] \in [Byte -> Val]
  BY <1>1
<1> QED
  BY <1>1, <1>2, <1>3
---------------------------------------------------------------------------
(* The store queue: its entries by their age, and program order *)

\* The sizes as the lemmas on circular queues want them.
LEMMA Sizes ==
  /\ MACHINE_WIDTH \in Nat \ {0}
  /\ STQ_DEPTH \in Nat \ {0} /\ STQ_DEPTH % 2 = 0 /\ 2 * MACHINE_WIDTH <= STQ_DEPTH
  /\ LDQ_DEPTH \in Nat \ {0} /\ LDQ_DEPTH % 2 = 0 /\ 2 * MACHINE_WIDTH <= LDQ_DEPTH
<1>1. /\ MACHINE_WIDTH \in Nat \ {0}
      /\ STQ_DEPTH \in Nat /\ STQ_DEPTH >= 2 * MACHINE_WIDTH /\ STQ_DEPTH % 2 = 0
      /\ LDQ_DEPTH \in Nat /\ LDQ_DEPTH >= 2 * MACHINE_WIDTH /\ LDQ_DEPTH % 2 = 0
  BY LsqAssumption
<1> QED
  BY <1>1

LdFromHead(i) == AgeOf(ld_head.ptr, i, LDQ_DEPTH)

StAge == [i \in StqTag |-> FromHead(i)]
LdAge == [i \in LdqTag |-> LdFromHead(i)]

RetiredCount == Distance(st_head, st_retired, STQ_DEPTH)
StoreCount == Distance(st_head, st_tail, STQ_DEPTH)
LoadCount == Distance(ld_head, ld_tail, LDQ_DEPTH)

\* The instructions the queues have not been told to retire, in program order.
Unsettled == pipe_retire_pkt \o window

PointersInOrder ==
  /\ 0 <= RetiredCount /\ RetiredCount <= StoreCount /\ StoreCount <= STQ_DEPTH
  /\ 0 <= LoadCount /\ LoadCount <= LDQ_DEPTH

StoreEntries ==
  \A i \in StqTag :
    /\ FromHead(i) < StoreCount =>
         /\ stq_entry[i].entry_valid
         /\ stq_entry[i].st # None
         /\ stq_entry[i].retired <=> FromHead(i) < RetiredCount
         /\ stq_entry[i].retired => stq_entry[i].addr_valid
    /\ ~ (FromHead(i) < StoreCount) => stq_entry[i] = EmptyStore

\* The cache is offered the oldest store, which has retired.
OffersHead == fire_st # None => fire_st = st_head.ptr /\ RetiredCount > 0

\* What the ready signal promised: the group to be dispatched fits.
GroupFits ==
  /\ StoreCount + st_dispatch_cnt <= STQ_DEPTH
  /\ LoadCount + ld_dispatch_cnt <= LDQ_DEPTH
  /\ Len(window) + Len(Dispatched) <= ROB_DEPTH
  /\ pipe_flush => pipe_rename_pkt = NoGroup

\* The load entries between the pointers are in use, the others are not.
LoadEntries ==
  \A i \in LdqTag :
    /\ LdFromHead(i) < LoadCount => ldq_entry[i].entry_valid /\ ldq_entry[i].ld # None
    /\ ~ (LdFromHead(i) < LoadCount) => ~ldq_entry[i].entry_valid /\ ~ldq_entry[i].addr_valid

StoresInOrder == Runs(Unsettled, "st", StAge, RetiredCount, StoreCount)
LoadsInOrder == Runs(Unsettled, "ld", LdAge, 0, LoadCount)

StoresComplete ==
  \A k \in DOMAIN pipe_retire_pkt :
    pipe_retire_pkt[k].kind = "st" => stq_entry[pipe_retire_pkt[k].tag].addr_valid

RetiredStores == {i \in StqTag : stq_entry[i].entry_valid /\ stq_entry[i].retired}

CommittedIsValue ==
  \A a \in Addr, b \in Byte :
    IsValue(committed[a][b], stq_entry, StAge, memory, RetiredStores, a, b)

SInv ==
  /\ TypeOK
  /\ PointersInOrder
  /\ StoreEntries
  /\ LoadEntries
  /\ OffersHead
  /\ GroupFits
  /\ StoresInOrder
  /\ LoadsInOrder
  /\ StoresComplete

\* Pointers and counts are numbers in their ranges.
LEMMA PointerTypes ==
  ASSUME TypeOK, PointersInOrder
  PROVE  /\ st_head \in Pointer(STQ_DEPTH) /\ st_tail \in Pointer(STQ_DEPTH)
         /\ st_retired \in Pointer(STQ_DEPTH)
         /\ ld_head \in Pointer(LDQ_DEPTH) /\ ld_tail \in Pointer(LDQ_DEPTH)
         /\ st_head.ptr \in 0 .. (STQ_DEPTH - 1) /\ st_tail.ptr \in 0 .. (STQ_DEPTH - 1)
         /\ ld_head.ptr \in 0 .. (LDQ_DEPTH - 1) /\ ld_tail.ptr \in 0 .. (LDQ_DEPTH - 1)
         /\ RetiredCount \in 0 .. STQ_DEPTH /\ StoreCount \in 0 .. STQ_DEPTH
         /\ RetiredCount <= StoreCount
         /\ LoadCount \in 0 .. LDQ_DEPTH
<1>1. /\ st_head \in Pointer(STQ_DEPTH) /\ st_tail \in Pointer(STQ_DEPTH)
      /\ st_retired \in Pointer(STQ_DEPTH)
      /\ ld_head \in Pointer(LDQ_DEPTH) /\ ld_tail \in Pointer(LDQ_DEPTH)
  BY DEF TypeOK
<1>2. /\ st_head.ptr \in 0 .. (STQ_DEPTH - 1) /\ st_tail.ptr \in 0 .. (STQ_DEPTH - 1)
      /\ st_retired.ptr \in 0 .. (STQ_DEPTH - 1)
      /\ ld_head.ptr \in 0 .. (LDQ_DEPTH - 1) /\ ld_tail.ptr \in 0 .. (LDQ_DEPTH - 1)
  BY <1>1 DEF Pointer
<1>3. RetiredCount \in Int /\ StoreCount \in Int /\ LoadCount \in Int
  BY <1>2, Sizes DEF RetiredCount, StoreCount, LoadCount, Distance
<1>4. /\ RetiredCount \in 0 .. STQ_DEPTH /\ StoreCount \in 0 .. STQ_DEPTH
      /\ RetiredCount <= StoreCount
      /\ LoadCount \in 0 .. LDQ_DEPTH
  BY <1>3, Sizes DEF PointersInOrder
<1> QED
  BY <1>1, <1>2, <1>4

\* Ages of slots.
LEMMA StoreAges ==
  ASSUME TypeOK, PointersInOrder
  PROVE  /\ \A i \in StqTag : FromHead(i) \in 0 .. (STQ_DEPTH - 1) /\ StAge[i] = FromHead(i)
         /\ \A i, j \in StqTag : FromHead(i) = FromHead(j) => i = j
         /\ st_head.ptr \in StqTag /\ FromHead(st_head.ptr) = 0
<1>1. st_head.ptr \in 0 .. (STQ_DEPTH - 1)
  BY PointerTypes
<1>2. \A i : FromHead(i) = AgeOf(st_head.ptr, i, STQ_DEPTH)
  BY DEF FromHead, AgeOf
<1>3. \A i \in StqTag : FromHead(i) \in 0 .. (STQ_DEPTH - 1)
  BY <1>1, <1>2, Sizes, AgeIs DEF StqTag
<1>4. \A i, j \in StqTag : FromHead(i) = FromHead(j) => i = j
  BY <1>1, <1>2, Sizes, AgesDiffer DEF StqTag
<1>5. st_head.ptr \in StqTag /\ FromHead(st_head.ptr) = 0
  <2>1. AgeOf(st_head.ptr, st_head.ptr, STQ_DEPTH) =
          IF st_head.ptr >= st_head.ptr THEN st_head.ptr - st_head.ptr
                                        ELSE (st_head.ptr + STQ_DEPTH) - st_head.ptr
    BY <1>1, Sizes, AgeIs
  <2> QED
    BY <1>1, <1>2, <2>1 DEF StqTag
<1> QED
  BY <1>3, <1>4, <1>5 DEF StAge

\* Ages of the slots of the load queue.
LEMMA LoadAges ==
  ASSUME TypeOK, PointersInOrder
  PROVE  /\ \A i \in LdqTag : LdFromHead(i) \in 0 .. (LDQ_DEPTH - 1) /\ LdAge[i] = LdFromHead(i)
         /\ \A i, j \in LdqTag : LdFromHead(i) = LdFromHead(j) => i = j
<1>1. ld_head.ptr \in 0 .. (LDQ_DEPTH - 1)
  BY PointerTypes
<1>3. \A i \in LdqTag : LdFromHead(i) \in 0 .. (LDQ_DEPTH - 1)
  BY <1>1, Sizes, AgeIs DEF LdqTag, LdFromHead
<1>4. \A i, j \in LdqTag : LdFromHead(i) = LdFromHead(j) => i = j
  BY <1>1, Sizes, AgesDiffer DEF LdqTag, LdFromHead
<1> QED
  BY <1>3, <1>4 DEF LdAge

\* The tags of one kind in a sequence are at most as many as the sequence is long.
LEMMA TagsBounded ==
  ASSUME NEW A, NEW s \in Seq(A), NEW kind
  PROVE  /\ IsFiniteSet(TagsOf(s, kind))
         /\ Cardinality(TagsOf(s, kind)) \in Nat
         /\ Cardinality(TagsOf(s, kind)) <= Len(s)
<1> DEFINE K == {j \in DOMAIN s : s[j].kind = kind}
           f == [k \in K |-> s[k].tag]
           T == TagsOf(s, kind)
<1>1. Len(s) \in Nat /\ DOMAIN s = 1 .. Len(s)
  BY LenProperties
<1>2. IsFiniteSet(1 .. Len(s)) /\ Cardinality(1 .. Len(s)) = Len(s)
  BY <1>1, FS_Interval
<1>3. IsFiniteSet(K) /\ Cardinality(K) <= Len(s) /\ Cardinality(K) \in Nat
  <2>1. K \in SUBSET (1 .. Len(s))
    BY <1>1
  <2> HIDE DEF K
  <2> QED
    BY <1>2, <2>1, FS_Subset, FS_CardinalityType
<1>4. f \in Surjection(K, T)
  BY DEF TagsOf, Surjection
<1>5. IsFiniteSet(T) /\ Cardinality(T) <= Cardinality(K)
  <2> HIDE DEF K, f, T
  <2> QED
    BY <1>3, <1>4, FS_Surjection
<1>6. Cardinality(T) \in Nat
  BY <1>5, FS_CardinalityType
<1> HIDE DEF K, f, T
<1> QED
  BY <1>1, <1>3, <1>5, <1>6 DEF T

\* The retiring stores are those that follow the retired ones.
LEMMA RetiringStores ==
  ASSUME SInv
  PROVE  LET m == Cardinality(RetiredTags("st"))
         IN  /\ m \in 0 .. MACHINE_WIDTH
             /\ RetiredCount + m <= StoreCount
             /\ RetiredTags("st") = {i \in StqTag : /\ FromHead(i) >= RetiredCount
                                                    /\ FromHead(i) < RetiredCount + m}
             /\ Runs(pipe_retire_pkt, "st", StAge, RetiredCount, RetiredCount + m)
             /\ Runs(window, "st", StAge, RetiredCount + m, StoreCount)
<1> TypeOK /\ PointersInOrder /\ StoresInOrder
  BY DEF SInv
<1> DEFINE m == Cardinality(RetiredTags("st"))
<1>1. RetiredTags("st") = TagsOf(pipe_retire_pkt, "st")
  BY DEF RetiredTags, TagsOf
<1>2. /\ pipe_retire_pkt \in Seq(Instruction) /\ Len(pipe_retire_pkt) <= MACHINE_WIDTH
      /\ window \in Seq(Instruction)
  BY DEF TypeOK
<1>3. RetiredCount \in Int /\ StoreCount \in Int /\ RetiredCount <= StoreCount
  BY PointerTypes
<1>4. m \in Nat /\ m <= Len(pipe_retire_pkt) /\ Len(pipe_retire_pkt) \in Nat
  BY <1>1, <1>2, TagsBounded, LenProperties
<1>5. /\ m \in 0 .. (StoreCount - RetiredCount)
      /\ Runs(pipe_retire_pkt, "st", StAge, RetiredCount, RetiredCount + m)
      /\ Runs(window, "st", StAge, RetiredCount + m, StoreCount)
  BY <1>1, <1>2, <1>3, RunsCut DEF StoresInOrder, Unsettled
<1>6. \A k \in DOMAIN pipe_retire_pkt : pipe_retire_pkt[k].kind = "st" => pipe_retire_pkt[k].tag \in StqTag
  <2>1. \A k \in DOMAIN pipe_retire_pkt : pipe_retire_pkt[k] \in Instruction
    BY <1>2, LenProperties, ElementOfSeq
  <2> QED
    BY <2>1 DEF Instruction
<1>7. /\ \A i \in StqTag : FromHead(i) \in Int /\ StAge[i] = FromHead(i)
      /\ \A i, j \in StqTag : FromHead(i) = FromHead(j) => i = j
  BY StoreAges
<1> HIDE DEF m
<1>8. ASSUME NEW t \in RetiredTags("st")
      PROVE  t \in StqTag /\ FromHead(t) >= RetiredCount /\ FromHead(t) < RetiredCount + m
  <2>1. PICK k \in DOMAIN pipe_retire_pkt : pipe_retire_pkt[k].kind = "st" /\ pipe_retire_pkt[k].tag = t
    BY DEF RetiredTags
  <2>2. StAge[t] \in RetiredCount .. ((RetiredCount + m) - 1) /\ t \in StqTag
    BY <1>5, <1>6, <2>1 DEF Runs
  <2> QED
    BY <1>3, <1>4, <1>7, <2>2
<1>9. ASSUME NEW t \in StqTag, FromHead(t) >= RetiredCount, FromHead(t) < RetiredCount + m
      PROVE  t \in RetiredTags("st")
  <2>1. FromHead(t) \in RetiredCount .. ((RetiredCount + m) - 1)
    BY <1>3, <1>4, <1>7, <1>9
  <2>2. PICK k \in DOMAIN pipe_retire_pkt : pipe_retire_pkt[k].kind = "st" /\ StAge[pipe_retire_pkt[k].tag] = FromHead(t)
    BY <1>5, <2>1 DEF Runs
  <2>3. pipe_retire_pkt[k].tag = t
    BY <1>6, <1>7, <2>2
  <2> QED
    BY <2>2, <2>3 DEF RetiredTags
<1>10. RetiredTags("st") = {i \in StqTag : FromHead(i) >= RetiredCount /\ FromHead(i) < RetiredCount + m}
  BY <1>8, <1>9
<1>11. m \in 0 .. MACHINE_WIDTH /\ RetiredCount + m <= StoreCount
  BY <1>2, <1>3, <1>4, <1>5, Sizes
<1> QED
  BY <1>5, <1>10, <1>11 DEF m
---------------------------------------------------------------------------
(* The store queue in one cycle *)

Leaving(p) == IF p.st THEN 1 ELSE 0
Taken(p) == IF p.st THEN {fire_st} ELSE {}
RetiringCount == Cardinality(RetiredTags("st"))

\* How many a group puts into the queues.
LEMMA GroupCounts ==
  ASSUME TypeOK
  PROVE  /\ st_dispatch_cnt \in 0 .. MACHINE_WIDTH /\ st_dispatch_cnt = Cardinality(StoreLanes)
         /\ ld_dispatch_cnt \in 0 .. MACHINE_WIDTH /\ ld_dispatch_cnt = Cardinality(LoadLanes)
         /\ StoreLanes \in SUBSET Lane /\ LoadLanes \in SUBSET Lane
<1>1. pipe_rename_pkt \in Group
  BY DEF TypeOK
<1>2. StoreLanes \in SUBSET Lane /\ LoadLanes \in SUBSET Lane
  BY DEF StoreLanes, LoadLanes
<1>3. st_dispatch_cnt = Cardinality(StoreLanes) /\ ld_dispatch_cnt = Cardinality(LoadLanes)
  BY <1>1, LaneCounts
<1>4. Cardinality(StoreLanes) \in 0 .. MACHINE_WIDTH /\ Cardinality(LoadLanes) \in 0 .. MACHINE_WIDTH
  BY <1>2, LanesCounted
<1> QED
  BY <1>2, <1>3, <1>4

\* The cache takes the head, if anything.
LEMMA TakenIsHead ==
  ASSUME SInv, NEW p \in Ports
  PROVE  /\ p.st \in BOOLEAN /\ Leaving(p) \in {0, 1}
         /\ p.st => fire_st = st_head.ptr /\ RetiredCount > 0 /\ fire_st # None
         /\ Leaving(p) <= RetiredCount
         /\ \A i \in StqTag : i \in Taken(p) <=> FromHead(i) < Leaving(p)
<1> TypeOK /\ PointersInOrder /\ OffersHead
  BY DEF SInv
<1>1. p.st \in BOOLEAN /\ (p.st => fire_st # None)
  BY DEF Ports
<1>2. p.st => fire_st = st_head.ptr /\ RetiredCount > 0
  BY <1>1 DEF OffersHead
<1>3. Leaving(p) \in {0, 1} /\ (p.st <=> Leaving(p) = 1)
  BY <1>1 DEF Leaving
<1>4. RetiredCount \in 0 .. STQ_DEPTH
  BY PointerTypes
<1>5. Leaving(p) <= RetiredCount
  BY <1>2, <1>3, <1>4
<1>6. ASSUME NEW i \in StqTag PROVE i \in Taken(p) <=> FromHead(i) < Leaving(p)
  <2>1. /\ FromHead(i) \in 0 .. (STQ_DEPTH - 1)
        /\ FromHead(st_head.ptr) = 0 /\ st_head.ptr \in StqTag
        /\ FromHead(i) = FromHead(st_head.ptr) => i = st_head.ptr
    BY StoreAges
  <2>2. CASE p.st
    <3>1. i \in Taken(p) <=> i = st_head.ptr
      BY <1>2, <2>2 DEF Taken
    <3>2. FromHead(i) < 1 <=> FromHead(i) = 0
      BY <2>1
    <3> QED
      BY <1>3, <2>1, <2>2, <3>1, <3>2
  <2>3. CASE ~p.st
    <3>1. i \notin Taken(p) /\ Leaving(p) = 0
      BY <2>3 DEF Taken, Leaving
    <3> QED
      BY <2>1, <3>1
  <2> QED
    BY <1>1, <2>2, <2>3
<1> QED
  BY <1>1, <1>2, <1>3, <1>5, <1>6

\* The three pointers and the ages after a cycle.
LEMMA StorePointersMove ==
  ASSUME SInv, NEW p \in Ports, NEW x, StqStep(x, p.st)
  PROVE  /\ st_head' \in Pointer(STQ_DEPTH) /\ st_tail' \in Pointer(STQ_DEPTH)
         /\ st_retired' \in Pointer(STQ_DEPTH)
         /\ RetiredCount' = (RetiredCount + RetiringCount) - Leaving(p)
         /\ StoreCount' = IF pipe_flush THEN (RetiredCount + RetiringCount) - Leaving(p)
                                        ELSE (StoreCount + st_dispatch_cnt) - Leaving(p)
         /\ \A i \in StqTag :
              FromHead(i)' = IF FromHead(i) >= Leaving(p) THEN FromHead(i) - Leaving(p)
                                                          ELSE STQ_DEPTH - 1
<1> TypeOK /\ PointersInOrder /\ GroupFits
  BY DEF SInv
<1> DEFINE D == STQ_DEPTH
           m == RetiringCount
           n == Leaving(p)
           cnt == st_dispatch_cnt
<1>1. /\ st_head \in Pointer(D) /\ st_tail \in Pointer(D) /\ st_retired \in Pointer(D)
      /\ RetiredCount \in 0 .. D /\ StoreCount \in 0 .. D /\ RetiredCount <= StoreCount
      /\ Distance(st_head, st_retired, D) = RetiredCount
      /\ Distance(st_head, st_tail, D) = StoreCount
  BY PointerTypes DEF RetiredCount, StoreCount
<1>2. m \in 0 .. MACHINE_WIDTH /\ RetiredCount + m <= StoreCount
  BY RetiringStores DEF RetiringCount
<1>3. p.st \in BOOLEAN /\ n \in {0, 1} /\ n <= RetiredCount /\ (p.st => RetiredCount > 0)
  BY TakenIsHead
<1>4. cnt \in 0 .. MACHINE_WIDTH /\ StoreCount + cnt <= D
  BY GroupCounts DEF GroupFits
<1>5. D \in Nat \ {0} /\ D % 2 = 0 /\ MACHINE_WIDTH \in Nat \ {0} /\ 2 * MACHINE_WIDTH <= D
  BY Sizes
<1>6. /\ m \in Nat /\ 2 * m <= D /\ n \in Nat /\ 2 * n <= D /\ cnt \in Nat /\ 2 * cnt <= D
  BY <1>2, <1>3, <1>4, <1>5
<1>7. /\ st_head' = next_st_head(p.st) /\ st_tail' = next_st_tail /\ st_retired' = next_st_retired
  BY DEF StqStep
<1>8. next_st_retired = Plus(st_retired, m, D)
  BY DEF next_st_retired, RetiringCount
<1> HIDE DEF D, m, n, cnt
<1>9. /\ next_st_retired \in Pointer(D)
      /\ Distance(st_head, next_st_retired, D) = RetiredCount + m
  <2>1. Plus(st_retired, m, D) \in Pointer(D)
    BY <1>1, <1>5, <1>6, PlusIs
  <2>2. Distance(st_head, st_retired, D) + m <= D
    BY <1>1, <1>2, <1>5
  <2>3. Distance(st_head, Plus(st_retired, m, D), D) = Distance(st_head, st_retired, D) + m
    BY <1>1, <1>5, <1>6, <2>2, PointersMove
  <2> QED
    BY <1>1, <1>8, <2>1, <2>3
<1>10. st_head' = Plus(st_head, n, D)
  <2>1. CASE pipe_flush /\ st_head = next_st_retired
    <3>1. Distance(st_head, next_st_retired, D) = 0
      <4>1. st_head.ptr \in Int
        BY <1>1, <1>5 DEF Pointer
      <4> QED
        BY <2>1, <4>1 DEF Distance
    <3>2. RetiredCount = 0
      BY <1>1, <1>2, <1>9, <3>1
    <3>3. n = 0
      BY <1>3, <3>2
    <3>4. Plus(st_head, 0, D) \in Pointer(D) /\ Plus(st_head, 0, D).ptr = st_head.ptr /\ Plus(st_head, 0, D).pos = st_head.pos
      <4>1. st_head.ptr \in 0 .. (D - 1) /\ 2 * 0 <= D
        BY <1>1, <1>5 DEF Pointer
      <4> QED
        BY <1>1, <1>5, <4>1, PlusIs
    <3>5. Plus(st_head, 0, D) = st_head
      BY <1>1, <3>4 DEF Pointer
    <3> QED
      BY <1>7, <2>1, <3>3, <3>5 DEF next_st_head
  <2>2. CASE ~ (pipe_flush /\ st_head = next_st_retired)
    BY <1>7, <2>2 DEF next_st_head, Leaving, n, D
  <2> QED
    BY <2>1, <2>2
<1>11. /\ st_head' \in Pointer(D)
       /\ Distance(st_head', next_st_retired, D) = (RetiredCount + m) - n
  <2>1. Plus(st_head, n, D) \in Pointer(D)
    BY <1>1, <1>5, <1>6, PlusIs
  <2>2. /\ Distance(st_head, next_st_retired, D) \in 0 .. D
        /\ n <= Distance(st_head, next_st_retired, D)
    BY <1>1, <1>2, <1>3, <1>5, <1>9
  <2>3. Distance(Plus(st_head, n, D), next_st_retired, D) = Distance(st_head, next_st_retired, D) - n
    BY <1>1, <1>5, <1>6, <1>9, <2>2, PointersMove
  <2> QED
    BY <1>9, <1>10, <2>1, <2>3
<1>12. /\ st_tail' \in Pointer(D)
       /\ Distance(st_head', st_tail', D) = IF pipe_flush THEN (RetiredCount + m) - n
                                                          ELSE (StoreCount + cnt) - n
  <2>1. CASE pipe_flush
    <3>1. st_tail' = next_st_retired
      BY <1>7, <2>1 DEF next_st_tail
    <3> QED
      BY <1>9, <1>11, <2>1, <3>1
  <2>2. CASE ~pipe_flush
    <3>1. st_tail' = Plus(st_tail, cnt, D)
      BY <1>7, <2>2 DEF next_st_tail, cnt, D
    <3>2. Plus(st_tail, cnt, D) \in Pointer(D)
      BY <1>1, <1>5, <1>6, PlusIs
    <3>3. Distance(st_head, Plus(st_tail, cnt, D), D) = StoreCount + cnt
      BY <1>1, <1>4, <1>5, <1>6, PointersMove
    <3>4. /\ Distance(st_head, Plus(st_tail, cnt, D), D) \in 0 .. D
          /\ n <= Distance(st_head, Plus(st_tail, cnt, D), D)
      BY <1>1, <1>3, <1>4, <1>5, <1>6, <3>3
    <3>5. Distance(Plus(st_head, n, D), Plus(st_tail, cnt, D), D) = (StoreCount + cnt) - n
      BY <1>1, <1>5, <1>6, <3>2, <3>3, <3>4, PointersMove
    <3> QED
      BY <1>10, <2>2, <3>1, <3>2, <3>5
  <2> QED
    BY <2>1, <2>2
<1>13. RetiredCount' = (RetiredCount + m) - n
  BY <1>7, <1>11 DEF RetiredCount, D
<1>14. StoreCount' = IF pipe_flush THEN (RetiredCount + m) - n ELSE (StoreCount + cnt) - n
  BY <1>12 DEF StoreCount, D
<1>15. ASSUME NEW i \in StqTag
       PROVE  FromHead(i)' = IF FromHead(i) >= n THEN FromHead(i) - n ELSE D - 1
  <2>1. FromHead(i) = AgeOf(st_head.ptr, i, D)
    BY DEF FromHead, AgeOf, D
  <2>2. FromHead(i)' = AgeOf(st_head'.ptr, i, D)
    BY DEF FromHead, AgeOf, D
  <2>3. i \in 0 .. (D - 1)
    BY DEF StqTag, D
  <2>4. AgeOf(Plus(st_head, n, D).ptr, i, D) =
          IF AgeOf(st_head.ptr, i, D) >= n THEN AgeOf(st_head.ptr, i, D) - n
                                           ELSE (AgeOf(st_head.ptr, i, D) + D) - n
    <3>1. Distance(st_head, st_tail, D) \in 0 .. D
      BY <1>1
    <3> QED
      BY <1>1, <1>5, <1>6, <2>3, <3>1, PointersMove
  <2>5. FromHead(i) \in 0 .. (D - 1)
    BY StoreAges DEF D
  <2>6. FromHead(i) < n => (FromHead(i) + D) - n = D - 1
    BY <1>3, <1>5, <2>5
  <2> QED
    BY <1>3, <1>5, <1>10, <2>1, <2>2, <2>4, <2>5, <2>6
<1> QED
  BY <1>7, <1>9, <1>11, <1>12, <1>13, <1>14, <1>15 DEF D, m, n, cnt
\* The slots the stores of the group get.
LEMMA StoreSlots ==
  ASSUME SInv
  PROVE  /\ \A l \in StoreLanes :
              /\ StoresBefore(l) \in 0 .. (st_dispatch_cnt - 1)
              /\ dispatch_st_resp(l) \in StqTag
              /\ FromHead(dispatch_st_resp(l)) = StoreCount + StoresBefore(l)
         /\ \A k, l \in StoreLanes : k < l => StoresBefore(k) < StoresBefore(l)
         /\ \A k, l \in StoreLanes : dispatch_st_resp(k) = dispatch_st_resp(l) => k = l
         /\ \A i \in StqTag : FromHead(i) >= StoreCount /\ FromHead(i) < StoreCount + st_dispatch_cnt =>
              \E l \in StoreLanes : dispatch_st_resp(l) = i
<1> TypeOK /\ PointersInOrder /\ GroupFits
  BY DEF SInv
<1> DEFINE D == STQ_DEPTH
           cnt == st_dispatch_cnt
<1>1. /\ StoreLanes \in SUBSET Lane /\ cnt = Cardinality(StoreLanes) /\ cnt \in Nat
  BY GroupCounts, Sizes
<1>2. \A l : StoresBefore(l) = Below(l, StoreLanes)
  BY LaneCounts DEF TypeOK
<1>3. \A l \in StoreLanes : l \in Int /\ l + 1 \in Int
  BY <1>1, Sizes DEF Lane
<1>4. /\ \A l \in Int : Below(l, StoreLanes) \in 0 .. cnt
      /\ \A m \in StoreLanes : \A l \in Int : m < l => Below(m, StoreLanes) + 1 <= Below(l, StoreLanes)
      /\ \A m \in StoreLanes : Below(m + 1, StoreLanes) = Below(m, StoreLanes) + 1
      /\ \A n \in 0 .. (cnt - 1) : \E l \in StoreLanes : Below(l, StoreLanes) = n
  BY <1>1, LanesCounted
<1>5. StoreCount \in Nat /\ StoreCount + cnt <= D /\ D \in Nat \ {0}
  BY PointerTypes, Sizes DEF GroupFits
<1>6. ASSUME NEW l \in StoreLanes PROVE StoresBefore(l) \in 0 .. (cnt - 1)
  <2>1. Below(l, StoreLanes) \in 0 .. cnt /\ Below(l + 1, StoreLanes) \in 0 .. cnt
    BY <1>3, <1>4
  <2>2. Below(l, StoreLanes) + 1 <= cnt
    BY <1>4, <2>1
  <2> QED
    BY <1>1, <1>2, <2>1, <2>2
<1>7. ASSUME NEW l \in StoreLanes
      PROVE  dispatch_st_resp(l) \in StqTag /\ FromHead(dispatch_st_resp(l)) = StoreCount + StoresBefore(l)
  <2> DEFINE n == StoresBefore(l)
  <2>1. n \in Nat /\ StoreCount + n < D
    BY <1>1, <1>5, <1>6
  <2>2. dispatch_st_resp(l) = SlotAt(st_tail.ptr, n, D)
    BY DEF dispatch_st_resp, SlotAt
  <2>3. /\ st_head \in Pointer(D) /\ st_tail \in Pointer(D)
        /\ Distance(st_head, st_tail, D) = StoreCount /\ StoreCount \in 0 .. D
    BY PointerTypes DEF StoreCount
  <2> HIDE DEF n, D
  <2>4. /\ SlotAt(st_tail.ptr, n, D) \in 0 .. (D - 1)
        /\ AgeOf(st_head.ptr, SlotAt(st_tail.ptr, n, D), D) = StoreCount + n
    BY <1>5, <2>1, <2>3, BeyondTheTail
  <2> QED
    BY <2>2, <2>4 DEF n, D, StqTag, FromHead, AgeOf
<1>8. ASSUME NEW k \in StoreLanes, NEW l \in StoreLanes, k < l PROVE StoresBefore(k) < StoresBefore(l)
  <2>1. Below(k, StoreLanes) + 1 <= Below(l, StoreLanes)
    BY <1>3, <1>4, <1>8
  <2>2. Below(k, StoreLanes) \in Int /\ Below(l, StoreLanes) \in Int
    BY <1>3, <1>4
  <2> QED
    BY <1>2, <2>1, <2>2
<1>9. ASSUME NEW k \in StoreLanes, NEW l \in StoreLanes, dispatch_st_resp(k) = dispatch_st_resp(l)
      PROVE  k = l
  <2>1. StoresBefore(k) = StoresBefore(l)
    <3>1. StoreCount + StoresBefore(k) = StoreCount + StoresBefore(l)
      BY <1>7, <1>9
    <3>2. StoresBefore(k) \in Int /\ StoresBefore(l) \in Int
      BY <1>6
    <3>3. StoreCount \in Int
      BY <1>5
    <3> QED
      BY <3>1, <3>2, <3>3
  <2>2. StoresBefore(k) \in Int
    BY <1>6
  <2> QED
    BY <1>3, <1>8, <2>1, <2>2
<1>10. ASSUME NEW i \in StqTag, FromHead(i) >= StoreCount, FromHead(i) < StoreCount + cnt
       PROVE  \E l \in StoreLanes : dispatch_st_resp(l) = i
  <2>1. FromHead(i) \in Int
    BY StoreAges
  <2>2. FromHead(i) - StoreCount \in 0 .. (cnt - 1)
    BY <1>1, <1>5, <1>10, <2>1
  <2>3. PICK l \in StoreLanes : StoresBefore(l) = FromHead(i) - StoreCount
    BY <1>2, <1>4, <2>2
  <2>4. dispatch_st_resp(l) \in StqTag /\ FromHead(dispatch_st_resp(l)) = FromHead(i)
    BY <1>5, <1>7, <2>1, <2>3
  <2>5. dispatch_st_resp(l) = i
    BY <2>4, StoreAges
  <2> QED
    BY <2>5
<1> QED
  BY <1>6, <1>7, <1>8, <1>9, <1>10

\* An instruction that executes is an unexecuted one of the window.
LEMMA ExecutingStore ==
  ASSUME SInv, NEW x \in Executable, x.kind = "st"
  PROVE  /\ x.tag \in StqTag
         /\ FromHead(x.tag) >= RetiredCount + RetiringCount /\ FromHead(x.tag) < StoreCount
         /\ ~stq_entry[x.tag].addr_valid
         /\ \E k \in DOMAIN window : x = window[k]
<1> TypeOK /\ PointersInOrder
  BY DEF SInv
<1>1. x # NoExec
  BY DEF NoExec
<1>2. PICK k \in DOMAIN window : x = window[k] /\ ~Executed(window[k])
  BY <1>1 DEF Executable
<1>3. x \in Instruction
  <2>1. window \in Seq(Instruction)
    BY DEF TypeOK
  <2> QED
    BY <1>2, <2>1, ElementOfSeq, LenProperties
<1>4. x.tag \in StqTag
  BY <1>3 DEF Instruction
<1>5. StAge[x.tag] \in (RetiredCount + RetiringCount) .. (StoreCount - 1)
  <2>1. Runs(window, "st", StAge, RetiredCount + RetiringCount, StoreCount)
    BY RetiringStores DEF RetiringCount
  <2> QED
    BY <1>2, <2>1 DEF Runs
<1>6. RetiringCount \in Int /\ RetiredCount \in Int /\ StoreCount \in Int
  BY RetiringStores, PointerTypes DEF RetiringCount
<1>7. StAge[x.tag] = FromHead(x.tag) /\ FromHead(x.tag) \in Int
  BY <1>4, StoreAges
<1>8. FromHead(x.tag) >= RetiredCount + RetiringCount /\ FromHead(x.tag) < StoreCount
  BY <1>5, <1>6, <1>7
<1>9. ~stq_entry[x.tag].addr_valid
  BY <1>2 DEF Executed
<1> QED
  BY <1>2, <1>4, <1>8, <1>9

\* A store entry after a cycle, by the age it had.
LEMMA StoresAfter ==
  ASSUME SInv, NEW p \in Ports, NEW x \in Executable, StqStep(x, p.st), NEW i \in StqTag
  PROVE  /\ FromHead(i) < Leaving(p) => stq_entry'[i] = EmptyStore
         /\ /\ FromHead(i) >= Leaving(p) /\ FromHead(i) < StoreCount
            /\ ~ (pipe_flush /\ FromHead(i) >= RetiredCount + RetiringCount)
            => stq_entry'[i] = [stq_entry[i] EXCEPT !.addr_valid = @ \/ Executes(x, "st", i),
                                                    !.retired = @ \/ i \in RetiredTags("st")]
         /\ /\ FromHead(i) < StoreCount /\ pipe_flush
            /\ FromHead(i) >= RetiredCount + RetiringCount
            => stq_entry'[i] = EmptyStore
         /\ \A l \in StoreLanes : dispatch_st_resp(l) = i =>
              stq_entry'[i] = [EmptyStore EXCEPT !.entry_valid = TRUE, !.st = pipe_rename_pkt[l]]
         /\ FromHead(i) >= StoreCount + st_dispatch_cnt => stq_entry'[i] = EmptyStore
<1> TypeOK /\ PointersInOrder /\ GroupFits /\ StoreEntries
  BY DEF SInv
<1> DEFINE e == stq_entry[i]
<1>1. stq_entry'[i] = NextStore(x, p.st, i)
  BY DEF StqStep
<1>2. /\ FromHead(i) \in 0 .. (STQ_DEPTH - 1) /\ FromHead(st_head.ptr) = 0 /\ st_head.ptr \in StqTag
      /\ FromHead(i) = FromHead(st_head.ptr) => i = st_head.ptr
  BY StoreAges
<1>3. /\ RetiredCount \in Nat /\ StoreCount \in Nat /\ st_dispatch_cnt \in Nat
      /\ RetiringCount \in Nat /\ RetiredCount + RetiringCount <= StoreCount
  BY PointerTypes, GroupCounts, RetiringStores, Sizes DEF RetiringCount
<1>4. i \in RetiredTags("st") <=> FromHead(i) >= RetiredCount /\ FromHead(i) < RetiredCount + RetiringCount
  BY RetiringStores DEF RetiringCount
<1>5. /\ FromHead(i) < StoreCount => e.entry_valid /\ (e.retired <=> FromHead(i) < RetiredCount)
      /\ ~ (FromHead(i) < StoreCount) => e = EmptyStore
  BY DEF StoreEntries
<1>6. i = st_head.ptr /\ p.st <=> FromHead(i) < Leaving(p)
  BY <1>2, TakenIsHead DEF Leaving
<1>7. Leaving(p) \in {0, 1} /\ Leaving(p) <= RetiredCount
  BY TakenIsHead
<1>8. /\ \A l \in StoreLanes : /\ FromHead(dispatch_st_resp(l)) >= StoreCount
                               /\ FromHead(dispatch_st_resp(l)) < StoreCount + st_dispatch_cnt
      /\ \A k, l \in StoreLanes : dispatch_st_resp(k) = dispatch_st_resp(l) => k = l
  <2>1. \A l \in StoreLanes :
          /\ StoresBefore(l) \in 0 .. (st_dispatch_cnt - 1)
          /\ FromHead(dispatch_st_resp(l)) = StoreCount + StoresBefore(l)
    BY StoreSlots
  <2>2. \A l \in StoreLanes : /\ FromHead(dispatch_st_resp(l)) >= StoreCount
                              /\ FromHead(dispatch_st_resp(l)) < StoreCount + st_dispatch_cnt
    BY <1>3, <2>1
  <2> QED
    BY <2>2, StoreSlots
<1>9. StLane(i) = {l \in StoreLanes : dispatch_st_resp(l) = i}
  BY DEF StLane, StoreLanes
<1>10. x.kind = "st" => FromHead(x.tag) < StoreCount /\ FromHead(x.tag) >= RetiredCount + RetiringCount
  BY ExecutingStore
<1>11. EmptyStore.entry_valid = FALSE /\ EmptyStore.retired = FALSE /\ EmptyStore.addr_valid = FALSE
  BY DEF EmptyStore
<1>12. NextStore(x, p.st, i) =
         IF pipe_flush /\ e.entry_valid /\ ~e.retired /\ i \notin RetiredTags("st") THEN EmptyStore
         ELSE IF i = st_head.ptr /\ p.st THEN EmptyStore
         ELSE IF StLane(i) # {}
           THEN [e EXCEPT !.entry_valid = TRUE,
                          !.st = pipe_rename_pkt[CHOOSE l \in StLane(i) : TRUE]]
         ELSE [e EXCEPT !.addr_valid = @ \/ Executes(x, "st", i),
                        !.retired = @ \/ i \in RetiredTags("st")]
  BY Zenon DEF NextStore
<1> HIDE DEF e
<1>13. ASSUME FromHead(i) < Leaving(p) PROVE stq_entry'[i] = EmptyStore
  BY <1>1, <1>6, <1>12, <1>13
<1>14. ASSUME FromHead(i) >= Leaving(p), FromHead(i) < StoreCount,
              ~ (pipe_flush /\ FromHead(i) >= RetiredCount + RetiringCount)
       PROVE  stq_entry'[i] = [e EXCEPT !.addr_valid = @ \/ Executes(x, "st", i),
                                        !.retired = @ \/ i \in RetiredTags("st")]
  <2>1. StLane(i) = {}
    BY <1>2, <1>3, <1>8, <1>9, <1>14
  <2>2. ~ (i = st_head.ptr /\ p.st)
    BY <1>2, <1>6, <1>7, <1>14
  <2>3. ~ (pipe_flush /\ e.entry_valid /\ ~e.retired /\ i \notin RetiredTags("st"))
    BY <1>2, <1>3, <1>4, <1>5, <1>14
  <2> QED
    BY <1>1, <1>12, <2>1, <2>2, <2>3, Zenon
<1>15. ASSUME FromHead(i) < StoreCount, pipe_flush, FromHead(i) >= RetiredCount + RetiringCount
       PROVE  stq_entry'[i] = EmptyStore
  <2>1. e.entry_valid /\ ~e.retired /\ i \notin RetiredTags("st")
    BY <1>2, <1>3, <1>4, <1>5, <1>15
  <2> QED
    BY <1>1, <1>12, <1>15, <2>1, Zenon
<1>16. ASSUME FromHead(i) >= StoreCount
       PROVE  /\ e = EmptyStore /\ i \notin RetiredTags("st") /\ ~ (i = st_head.ptr /\ p.st)
              /\ ~Executes(x, "st", i)
  <2>1. e = EmptyStore
    BY <1>2, <1>3, <1>5, <1>16
  <2>2. i \notin RetiredTags("st")
    BY <1>2, <1>3, <1>4, <1>16
  <2>3. ~ (i = st_head.ptr /\ p.st)
    BY <1>2, <1>3, <1>6, <1>7, <1>16
  <2>4. ~Executes(x, "st", i)
    BY <1>2, <1>3, <1>10, <1>16 DEF Executes
  <2> QED
    BY <2>1, <2>2, <2>3, <2>4
<1>17. ASSUME NEW l \in StoreLanes, dispatch_st_resp(l) = i
       PROVE  stq_entry'[i] = [EmptyStore EXCEPT !.entry_valid = TRUE, !.st = pipe_rename_pkt[l]]
  <2>1. FromHead(i) >= StoreCount
    BY <1>8, <1>17
  <2>2. e = EmptyStore /\ ~ (i = st_head.ptr /\ p.st)
    BY <1>16, <2>1
  <2>3. StLane(i) = {l}
    BY <1>8, <1>9, <1>17
  <2>4. (CHOOSE k \in StLane(i) : TRUE) = l /\ StLane(i) # {}
    BY <2>3
  <2>5. NextStore(x, p.st, i) = [e EXCEPT !.entry_valid = TRUE, !.st = pipe_rename_pkt[CHOOSE k \in StLane(i) : TRUE]]
    BY <1>11, <1>12, <2>2, <2>4, Zenon
  <2> QED
    BY <1>1, <2>2, <2>4, <2>5
<1>18. ASSUME FromHead(i) >= StoreCount + st_dispatch_cnt PROVE stq_entry'[i] = EmptyStore
  <2>1. FromHead(i) >= StoreCount
    BY <1>2, <1>3, <1>18
  <2>2. StLane(i) = {}
    BY <1>2, <1>3, <1>8, <1>9, <1>18
  <2>3. e = EmptyStore /\ i \notin RetiredTags("st") /\ ~ (i = st_head.ptr /\ p.st) /\ ~Executes(x, "st", i)
    BY <1>16, <2>1
  <2>4. NextStore(x, p.st, i) = [e EXCEPT !.addr_valid = @ \/ Executes(x, "st", i),
                                          !.retired = @ \/ i \in RetiredTags("st")]
    BY <1>11, <1>12, <2>2, <2>3, Zenon
  <2>5. [e EXCEPT !.addr_valid = @ \/ Executes(x, "st", i),
                  !.retired = @ \/ i \in RetiredTags("st")] = EmptyStore
    <3>1. (e.addr_valid \/ Executes(x, "st", i)) = FALSE
      BY <1>11, <2>3, Zenon
    <3>2. (e.retired \/ i \in RetiredTags("st")) = FALSE
      BY <1>11, <2>3, Zenon
    <3>3. [EmptyStore EXCEPT !.addr_valid = FALSE, !.retired = FALSE] = EmptyStore
      <4>1. EmptyStore \in [entry_valid : BOOLEAN, addr_valid : BOOLEAN, retired : BOOLEAN, st : {None}]
        BY DEF EmptyStore
      <4> QED
        BY <1>11, <4>1
    <3> QED
      BY <2>3, <3>1, <3>2, <3>3, Zenon
  <2> QED
    BY <1>1, <2>4, <2>5
<1> QED
  BY <1>13, <1>14, <1>15, <1>17, <1>18 DEF e
\* A store that neither leaves nor is flushed.
Stays(p, i) ==
  /\ FromHead(i) >= Leaving(p) /\ FromHead(i) < StoreCount
  /\ ~ (pipe_flush /\ FromHead(i) >= RetiredCount + RetiringCount)

\* The fields of an empty entry and of one that is being allocated.
LEMMA NewStoreIs ==
  /\ EmptyStore \in StqEntry
  /\ ~EmptyStore.entry_valid /\ ~EmptyStore.addr_valid /\ ~EmptyStore.retired
  /\ \A st \in Stores :
       LET e == [EmptyStore EXCEPT !.entry_valid = TRUE, !.st = st]
       IN  /\ e \in StqEntry /\ e.entry_valid /\ e.st = st
           /\ ~e.addr_valid /\ ~e.retired
  BY DEF EmptyStore, StqEntry

\* An entry that is kept, with its address arriving (u) or retiring (r).
KeptStore(e, u, r) == [e EXCEPT !.addr_valid = @ \/ u, !.retired = @ \/ r]

\* Its fields.
LEMMA StayingStoreIs ==
  ASSUME NEW e \in StqEntry, NEW u \in BOOLEAN, NEW r \in BOOLEAN
  PROVE  /\ KeptStore(e, u, r) \in StqEntry /\ KeptStore(e, u, r).st = e.st
         /\ KeptStore(e, u, r).entry_valid <=> e.entry_valid
         /\ KeptStore(e, u, r).addr_valid <=> e.addr_valid \/ u
         /\ KeptStore(e, u, r).retired <=> e.retired \/ r
<1>1. /\ e.entry_valid \in BOOLEAN /\ e.addr_valid \in BOOLEAN /\ e.retired \in BOOLEAN
      /\ e.st \in Stores \cup {None}
  BY DEF StqEntry
<1> DEFINE av == e.addr_valid \/ u
           rt == e.retired \/ r
           f == [e EXCEPT !.addr_valid = av, !.retired = rt]
<1>2. av \in BOOLEAN /\ rt \in BOOLEAN
  BY <1>1
<1> HIDE DEF av, rt
<1>3. f \in StqEntry /\ f.st = e.st /\ f.entry_valid = e.entry_valid
      /\ f.addr_valid = av /\ f.retired = rt
  BY <1>2 DEF StqEntry
<1> QED
  BY <1>3, Zenon DEF KeptStore, av, rt

\* No group, no instruction.
LEMMA NothingDispatched ==
  ASSUME pipe_rename_pkt = NoGroup
  PROVE  /\ StoreLanes = {} /\ LoadLanes = {} /\ Occupied = {}
         /\ st_dispatch_cnt = 0 /\ ld_dispatch_cnt = 0 /\ Len(Dispatched) = 0
<1>1. \A l \in Lane : pipe_rename_pkt[l] = None
  BY DEF NoGroup
<1>2. None \notin Stores /\ None \notin Loads
  BY LsqAssumption
<1>3. StoreLanes = {} /\ LoadLanes = {} /\ Occupied = {}
  BY <1>1, <1>2 DEF StoreLanes, LoadLanes, Occupied, IsStore, IsLoad
<1>4. pipe_rename_pkt \in Group
  BY DEF Group, NoGroup
<1>5. Cardinality({}) = 0
  BY FS_EmptySet
<1>6. st_dispatch_cnt = Cardinality(StoreLanes) /\ ld_dispatch_cnt = Cardinality(LoadLanes)
  BY <1>4, LaneCounts
<1>7. Len(Dispatched) = Cardinality(Occupied)
  BY DispatchedIs
<1> QED
  BY <1>3, <1>5, <1>6, <1>7

\* The same by fields.
LEMMA StoreFieldsAfter ==
  ASSUME SInv, NEW p \in Ports, NEW x \in Executable, StqStep(x, p.st), NEW i \in StqTag
  PROVE  /\ stq_entry'[i] \in StqEntry
         /\ Stays(p, i) =>
              /\ stq_entry'[i].st = stq_entry[i].st
              /\ stq_entry'[i].entry_valid
              /\ stq_entry'[i].addr_valid <=> stq_entry[i].addr_valid \/ Executes(x, "st", i)
              /\ stq_entry'[i].retired <=> FromHead(i) < RetiredCount + RetiringCount
         /\ \A l \in StoreLanes : dispatch_st_resp(l) = i =>
              /\ stq_entry'[i].st = pipe_rename_pkt[l] /\ stq_entry'[i].st \in Stores
              /\ stq_entry'[i].entry_valid
              /\ ~stq_entry'[i].addr_valid
              /\ ~stq_entry'[i].retired
         /\ ~Stays(p, i) /\ (\A l \in StoreLanes : dispatch_st_resp(l) # i) =>
              stq_entry'[i] = EmptyStore
<1> TypeOK /\ PointersInOrder /\ GroupFits /\ StoreEntries
  BY DEF SInv
<1> DEFINE e == stq_entry[i]
<1>1. e \in StqEntry
  BY DEF TypeOK
<1>2. /\ FromHead(i) \in 0 .. (STQ_DEPTH - 1)
      /\ RetiredCount \in Nat /\ StoreCount \in Nat /\ st_dispatch_cnt \in Nat
      /\ RetiringCount \in Nat /\ RetiredCount + RetiringCount <= StoreCount
      /\ Leaving(p) \in {0, 1}
  BY StoreAges, PointerTypes, GroupCounts, RetiringStores, TakenIsHead, Sizes DEF RetiringCount
<1>3. i \in RetiredTags("st") <=> FromHead(i) >= RetiredCount /\ FromHead(i) < RetiredCount + RetiringCount
  BY RetiringStores DEF RetiringCount
<1>4. ASSUME Stays(p, i)
      PROVE  /\ stq_entry'[i] \in StqEntry
             /\ stq_entry'[i].st = stq_entry[i].st
             /\ stq_entry'[i].entry_valid
             /\ stq_entry'[i].addr_valid <=> stq_entry[i].addr_valid \/ Executes(x, "st", i)
             /\ stq_entry'[i].retired <=> FromHead(i) < RetiredCount + RetiringCount
  <2> DEFINE u == Executes(x, "st", i)
             r == i \in RetiredTags("st")
             f == KeptStore(e, u, r)
  <2>1. stq_entry'[i] = f
    BY <1>4, StoresAfter, ZenonT(40) DEF Stays, KeptStore
  <2>2. u \in BOOLEAN /\ r \in BOOLEAN
    BY DEF Executes
  <2>3. e.entry_valid /\ (e.retired <=> FromHead(i) < RetiredCount)
    BY <1>4 DEF Stays, StoreEntries
  <2> HIDE DEF u, r, e
  <2>4. /\ f \in StqEntry /\ f.st = e.st
        /\ f.entry_valid <=> e.entry_valid
        /\ f.addr_valid <=> e.addr_valid \/ u
        /\ f.retired <=> e.retired \/ r
    BY <1>1, <2>2, StayingStoreIs, Zenon
  <2> HIDE DEF f
  <2>5. e.retired \/ r <=> FromHead(i) < RetiredCount + RetiringCount
    BY <1>2, <1>3, <2>3 DEF r
  <2> QED
    BY <2>1, <2>3, <2>4, <2>5, Zenon DEF u, e
<1>5. ASSUME NEW l \in StoreLanes, dispatch_st_resp(l) = i
      PROVE  /\ stq_entry'[i] \in StqEntry
             /\ stq_entry'[i].st = pipe_rename_pkt[l] /\ stq_entry'[i].st \in Stores
             /\ stq_entry'[i].entry_valid
             /\ ~stq_entry'[i].addr_valid
             /\ ~stq_entry'[i].retired
  <2>1. stq_entry'[i] = [EmptyStore EXCEPT !.entry_valid = TRUE, !.st = pipe_rename_pkt[l]]
    BY <1>5, StoresAfter, Zenon
  <2>2. pipe_rename_pkt[l] \in Stores
    BY DEF StoreLanes, IsStore
  <2> QED
    BY <2>1, <2>2, NewStoreIs
<1>6. ASSUME ~Stays(p, i), \A l \in StoreLanes : dispatch_st_resp(l) # i
      PROVE  stq_entry'[i] = EmptyStore
  <2>1. CASE FromHead(i) < Leaving(p)
    BY <2>1, StoresAfter, Zenon
  <2>2. CASE FromHead(i) >= StoreCount
    <3>1. FromHead(i) >= StoreCount + st_dispatch_cnt
      <4>1. ~ (FromHead(i) >= StoreCount /\ FromHead(i) < StoreCount + st_dispatch_cnt)
        BY <1>6, StoreSlots
      <4> QED
        BY <1>2, <2>2, <4>1
    <3> QED
      BY <3>1, StoresAfter, Zenon
  <2>3. CASE FromHead(i) < StoreCount /\ pipe_flush /\ FromHead(i) >= RetiredCount + RetiringCount
    BY <2>3, StoresAfter, Zenon
  <2> QED
    BY <1>2, <1>6, <2>1, <2>2, <2>3 DEF Stays
<1>7. stq_entry'[i] \in StqEntry
  <2>1. CASE Stays(p, i)
    BY <1>4, <2>1
  <2>2. CASE \E l \in StoreLanes : dispatch_st_resp(l) = i
    BY <1>5, <2>2
  <2>3. CASE ~Stays(p, i) /\ \A l \in StoreLanes : dispatch_st_resp(l) # i
    BY <1>6, <2>3, NewStoreIs
  <2> QED
    BY <2>1, <2>2, <2>3
<1> QED
  BY <1>4, <1>5, <1>6, <1>7

\* The entries are those of the ages between the pointers again.
LEMMA StoreEntriesAfter ==
  ASSUME SInv, NEW p \in Ports, NEW x \in Executable, StqStep(x, p.st)
  PROVE  /\ StoreEntries'
         /\ stq_entry' \in [StqTag -> StqEntry]
<1> TypeOK /\ PointersInOrder /\ GroupFits /\ StoreEntries /\ StoresComplete
  BY DEF SInv
<1> DEFINE n == Leaving(p)
           cnt == st_dispatch_cnt
           am == RetiredCount + RetiringCount
<1>1. /\ RetiredCount' = am - n
      /\ StoreCount' = IF pipe_flush THEN am - n ELSE (StoreCount + cnt) - n
      /\ \A i \in StqTag : FromHead(i)' = IF FromHead(i) >= n THEN FromHead(i) - n ELSE STQ_DEPTH - 1
  BY StorePointersMove
<1>2. /\ RetiredCount \in Nat /\ StoreCount \in Nat /\ cnt \in Nat /\ STQ_DEPTH \in Nat
      /\ RetiringCount \in Nat /\ am \in Nat /\ am <= StoreCount /\ RetiredCount <= am
      /\ n \in {0, 1} /\ n <= RetiredCount
      /\ StoreCount + cnt <= STQ_DEPTH
  <2>1. RetiredCount \in Nat /\ StoreCount \in Nat /\ cnt \in Nat /\ STQ_DEPTH \in Nat
    BY PointerTypes, GroupCounts, Sizes
  <2>2. RetiringCount \in Nat /\ am <= StoreCount
    BY RetiringStores, Sizes DEF RetiringCount
  <2>3. n \in {0, 1} /\ n <= RetiredCount
    BY TakenIsHead
  <2>4. StoreCount + cnt <= STQ_DEPTH
    BY DEF GroupFits
  <2> HIDE DEF n, cnt
  <2> QED
    BY <2>1, <2>2, <2>3, <2>4
<1>3. pipe_flush => cnt = 0 /\ StoreLanes = {}
  BY NothingDispatched DEF GroupFits
<1>4. stq_entry' = [i \in StqTag |-> NextStore(x, p.st, i)]
  BY DEF StqStep
<1>5. \A i \in StqTag : stq_entry'[i] \in StqEntry
  BY StoreFieldsAfter
<1>6. stq_entry' \in [StqTag -> StqEntry]
  BY <1>4, <1>5
<1>7. ASSUME NEW i \in StqTag
      PROVE  /\ FromHead(i)' < StoreCount' =>
                  /\ stq_entry'[i].entry_valid
                  /\ stq_entry'[i].st # None
                  /\ stq_entry'[i].retired <=> FromHead(i)' < RetiredCount'
                  /\ stq_entry'[i].retired => stq_entry'[i].addr_valid
             /\ ~ (FromHead(i)' < StoreCount') => stq_entry'[i] = EmptyStore
  <2>1. FromHead(i) \in 0 .. (STQ_DEPTH - 1)
    BY StoreAges
  <2>2. CASE Stays(p, i)
    <3>1. /\ stq_entry'[i].st = stq_entry[i].st
          /\ stq_entry'[i].entry_valid
          /\ stq_entry'[i].addr_valid <=> stq_entry[i].addr_valid \/ Executes(x, "st", i)
          /\ stq_entry'[i].retired <=> FromHead(i) < am
      BY <2>2, StoreFieldsAfter
    <3>2. stq_entry[i].st # None /\ (FromHead(i) < RetiredCount => stq_entry[i].addr_valid)
      BY <2>2 DEF Stays, StoreEntries
    <3>3. FromHead(i) < am /\ ~ (FromHead(i) < RetiredCount) => stq_entry[i].addr_valid
      <4>1. SUFFICES ASSUME FromHead(i) < am, ~ (FromHead(i) < RetiredCount)
                     PROVE  stq_entry[i].addr_valid
        OBVIOUS
      <4>2. i \in RetiredTags("st")
        BY <1>2, <2>1, <4>1, RetiringStores DEF RetiringCount
      <4> QED
        BY <4>2 DEF RetiredTags, StoresComplete
    <3>4. FromHead(i) >= n /\ FromHead(i) < StoreCount /\ ~ (pipe_flush /\ FromHead(i) >= am)
      BY <2>2 DEF Stays
    <3>5. FromHead(i)' = FromHead(i) - n
      BY <1>1, <3>4
    <3> HIDE DEF am, n, cnt
    <3>6. FromHead(i)' < StoreCount' /\ (FromHead(i)' < RetiredCount' <=> FromHead(i) < am)
      BY <1>1, <1>2, <2>1, <3>4, <3>5
    <3> QED
      BY <3>1, <3>2, <3>3, <3>6
  <2>3. ASSUME NEW l \in StoreLanes, dispatch_st_resp(l) = i
        PROVE  /\ FromHead(i)' < StoreCount' /\ ~ (FromHead(i)' < RetiredCount')
               /\ stq_entry'[i].entry_valid
               /\ stq_entry'[i].st # None
               /\ ~stq_entry'[i].retired
    <3>1. ~pipe_flush
      BY <1>3
    <3>2. FromHead(i) = StoreCount + StoresBefore(l) /\ StoresBefore(l) \in 0 .. (cnt - 1)
      BY <2>3, StoreSlots
    <3>3. stq_entry'[i].entry_valid /\ stq_entry'[i].st \in Stores /\ ~stq_entry'[i].retired
      BY <2>3, StoreFieldsAfter
    <3>4. None \notin Stores
      BY LsqAssumption
    <3> HIDE DEF am, n, cnt
    <3>5. FromHead(i)' < StoreCount' /\ ~ (FromHead(i)' < RetiredCount')
      BY <1>1, <1>2, <2>1, <3>1, <3>2
    <3> QED
      BY <3>3, <3>4, <3>5
  <2>4. CASE ~Stays(p, i) /\ \A l \in StoreLanes : dispatch_st_resp(l) # i
    <3>1. stq_entry'[i] = EmptyStore
      BY <2>4, StoreFieldsAfter
    <3>2. ~ (FromHead(i) >= n /\ FromHead(i) < StoreCount /\ ~ (pipe_flush /\ FromHead(i) >= am))
      BY <2>4 DEF Stays
    <3>3. ~ (FromHead(i) >= StoreCount /\ FromHead(i) < StoreCount + cnt)
      BY <2>4, StoreSlots
    <3> HIDE DEF am, n, cnt
    <3>4. ~ (FromHead(i)' < StoreCount')
      <4>1. CASE FromHead(i) < n
        BY <1>1, <1>2, <1>3, <2>1, <4>1
      <4>2. CASE FromHead(i) >= StoreCount + cnt
        BY <1>1, <1>2, <1>3, <2>1, <4>2
      <4>3. CASE pipe_flush /\ FromHead(i) >= am /\ FromHead(i) >= n
        BY <1>1, <1>2, <1>3, <2>1, <4>3
      <4> QED
        BY <1>2, <2>1, <3>2, <3>3, <4>1, <4>2, <4>3
    <3> QED
      BY <3>1, <3>4
  <2> QED
    BY <2>2, <2>3, <2>4
<1> QED
  BY <1>6, <1>7 DEF StoreEntries

---------------------------------------------------------------------------
(* What retires and what is dispatched, in program order *)

\* What retires moves from the window to the retiring packet, in order.
LEMMA RetireSplits ==
  ASSUME NEW A, NEW s \in Seq(A), NEW t \in Seq(A), NEW n \in 0 .. Len(s)
  PROVE  /\ SubSeq(s, 1, n) \in Seq(A) /\ Len(SubSeq(s, 1, n)) = n
         /\ \A k \in 1 .. n : SubSeq(s, 1, n)[k] = s[k]
         /\ SubSeq(s, n + 1, Len(s)) \o t \in Seq(A)
         /\ Len(SubSeq(s, n + 1, Len(s)) \o t) = (Len(s) - n) + Len(t)
         /\ SubSeq(s, 1, n) \o (SubSeq(s, n + 1, Len(s)) \o t) = s \o t
<1>1. Len(s) \in Nat /\ Len(t) \in Nat /\ DOMAIN s = 1 .. Len(s)
  BY LenProperties
<1>2. \A i \in 1 .. Len(s) : s[i] \in A
  BY <1>1, ElementOfSeq
<1>3. /\ SubSeq(s, 1, n) \in Seq(A)
      /\ Len(SubSeq(s, 1, n)) = IF 1 <= n THEN (n - 1) + 1 ELSE 0
      /\ \A i \in 1 .. ((n - 1) + 1) : SubSeq(s, 1, n)[i] = s[(1 + i) - 1]
  BY <1>1, <1>2, SubSeqProperties
<1>4. /\ SubSeq(s, n + 1, Len(s)) \in Seq(A)
      /\ Len(SubSeq(s, n + 1, Len(s))) = IF n + 1 <= Len(s) THEN (Len(s) - (n + 1)) + 1 ELSE 0
  BY <1>1, <1>2, SubSeqProperties
<1> DEFINE front == SubSeq(s, 1, n)
           back == SubSeq(s, n + 1, Len(s))
           N == Len(s)
<1>5. Len(front) = n /\ Len(back) = N - n
  <2>1. Len(front) = IF 1 <= n THEN (n - 1) + 1 ELSE 0
    BY <1>3
  <2>2. Len(back) = IF n + 1 <= N THEN (N - (n + 1)) + 1 ELSE 0
    BY <1>4
  <2>3. N \in Nat /\ n \in 0 .. N
    BY <1>1
  <2> HIDE DEF front, back, N
  <2> QED
    BY <2>1, <2>2, <2>3
<1>6. \A k \in 1 .. n : SubSeq(s, 1, n)[k] = s[k]
  BY <1>3
<1>7. SubSeq(s, 1, n) \o SubSeq(s, n + 1, Len(s)) = s
  <2>1. SubSeq(s, 1, Len(s)) = s
    BY SubSeqFull
  <2>2. 1 \in 1 .. (Len(s) + 1) /\ n \in (1 - 1) .. Len(s) /\ Len(s) \in n .. Len(s)
    BY <1>1
  <2>3. SubSeq(s, 1, n) \o SubSeq(s, n + 1, Len(s)) = SubSeq(s, 1, Len(s))
    BY <2>2, ConcatAdjacentSubSeq
  <2> QED
    BY <2>1, <2>3
<1>8. /\ SubSeq(s, n + 1, Len(s)) \o t \in Seq(A)
      /\ Len(SubSeq(s, n + 1, Len(s)) \o t) = (Len(s) - n) + Len(t)
  BY <1>4, <1>5, ConcatProperties
<1>9. SubSeq(s, 1, n) \o (SubSeq(s, n + 1, Len(s)) \o t) = s \o t
  <2>1. (front \o back) \o t = front \o (back \o t)
    <3>1. front \in Seq(A) /\ back \in Seq(A)
      BY <1>3, <1>4
    <3> HIDE DEF front, back
    <3> QED
      BY <3>1, ConcatAssociative
  <2> QED
    BY <1>7, <2>1
<1> QED
  BY <1>3, <1>5, <1>6, <1>8, <1>9

RetiringLoadCount == Cardinality(RetiredTags("ld"))

\* The retiring loads are the oldest ones.
LEMMA RetiringLoads ==
  ASSUME SInv
  PROVE  LET m == RetiringLoadCount
         IN  /\ m \in 0 .. MACHINE_WIDTH /\ m <= LoadCount
             /\ RetiredTags("ld") = {i \in LdqTag : LdFromHead(i) < m}
             /\ Runs(pipe_retire_pkt, "ld", LdAge, 0, m)
             /\ Runs(window, "ld", LdAge, m, LoadCount)
<1> TypeOK /\ PointersInOrder /\ LoadsInOrder
  BY DEF SInv
<1> DEFINE m == RetiringLoadCount
<1>1. RetiredTags("ld") = TagsOf(pipe_retire_pkt, "ld")
  BY DEF RetiredTags, TagsOf
<1>2. /\ pipe_retire_pkt \in Seq(Instruction) /\ Len(pipe_retire_pkt) <= MACHINE_WIDTH
      /\ window \in Seq(Instruction)
  BY DEF TypeOK
<1>3. LoadCount \in Int /\ 0 <= LoadCount
  BY PointerTypes
<1>4. m \in Nat /\ m <= Len(pipe_retire_pkt) /\ Len(pipe_retire_pkt) \in Nat
  BY <1>1, <1>2, TagsBounded, LenProperties DEF RetiringLoadCount
<1>5. /\ m \in 0 .. LoadCount
      /\ Runs(pipe_retire_pkt, "ld", LdAge, 0, m)
      /\ Runs(window, "ld", LdAge, m, LoadCount)
  <2>1. /\ m \in 0 .. (LoadCount - 0)
        /\ Runs(pipe_retire_pkt, "ld", LdAge, 0, 0 + m)
        /\ Runs(window, "ld", LdAge, 0 + m, LoadCount)
    BY <1>1, <1>2, <1>3, RunsCut DEF LoadsInOrder, Unsettled, RetiringLoadCount
  <2>2. 0 + m = m /\ LoadCount - 0 = LoadCount
    BY <1>3, <1>4
  <2> QED
    BY <2>1, <2>2
<1>6. \A k \in DOMAIN pipe_retire_pkt : pipe_retire_pkt[k].kind = "ld" => pipe_retire_pkt[k].tag \in LdqTag
  <2>1. \A k \in DOMAIN pipe_retire_pkt : pipe_retire_pkt[k] \in Instruction
    BY <1>2, LenProperties, ElementOfSeq
  <2> QED
    BY <2>1 DEF Instruction
<1>7. /\ \A i \in LdqTag : LdFromHead(i) \in 0 .. (LDQ_DEPTH - 1) /\ LdAge[i] = LdFromHead(i)
      /\ \A i, j \in LdqTag : LdFromHead(i) = LdFromHead(j) => i = j
  BY LoadAges
<1> HIDE DEF m
<1>8. ASSUME NEW t \in RetiredTags("ld") PROVE t \in LdqTag /\ LdFromHead(t) < m
  <2>1. PICK k \in DOMAIN pipe_retire_pkt : pipe_retire_pkt[k].kind = "ld" /\ pipe_retire_pkt[k].tag = t
    BY DEF RetiredTags
  <2>2. LdAge[t] \in 0 .. (m - 1) /\ t \in LdqTag
    BY <1>5, <1>6, <2>1 DEF Runs
  <2> QED
    BY <1>4, <1>7, <2>2
<1>9. ASSUME NEW t \in LdqTag, LdFromHead(t) < m PROVE t \in RetiredTags("ld")
  <2>1. LdFromHead(t) \in 0 .. (m - 1)
    BY <1>4, <1>7, <1>9, Sizes
  <2>2. PICK k \in DOMAIN pipe_retire_pkt : pipe_retire_pkt[k].kind = "ld" /\ LdAge[pipe_retire_pkt[k].tag] = LdFromHead(t)
    BY <1>5, <2>1 DEF Runs
  <2>3. pipe_retire_pkt[k].tag = t
    BY <1>6, <1>7, <2>2
  <2> QED
    BY <2>2, <2>3 DEF RetiredTags
<1>10. RetiredTags("ld") = {i \in LdqTag : LdFromHead(i) < m}
  BY <1>8, <1>9
<1>11. m \in 0 .. MACHINE_WIDTH /\ m <= LoadCount
  BY <1>2, <1>3, <1>4, <1>5, Sizes
<1> QED
  BY <1>5, <1>10, <1>11 DEF m

\* The pointers of the load queue and the ages after a cycle without a flush.
LEMMA LoadPointersMove ==
  ASSUME SInv, ld_head' = next_ld_head, ld_tail' = next_ld_tail
  PROVE  /\ ld_head' \in Pointer(LDQ_DEPTH) /\ ld_tail' \in Pointer(LDQ_DEPTH)
         /\ LoadCount' = (LoadCount + ld_dispatch_cnt) - RetiringLoadCount
         /\ \A i \in LdqTag :
              LdFromHead(i)' = IF LdFromHead(i) >= RetiringLoadCount
                                 THEN LdFromHead(i) - RetiringLoadCount
                                 ELSE (LdFromHead(i) + LDQ_DEPTH) - RetiringLoadCount
<1> TypeOK /\ PointersInOrder /\ GroupFits
  BY DEF SInv
<1> DEFINE D == LDQ_DEPTH
           m == RetiringLoadCount
           cnt == ld_dispatch_cnt
<1>1. /\ ld_head \in Pointer(D) /\ ld_tail \in Pointer(D)
      /\ LoadCount \in 0 .. D /\ Distance(ld_head, ld_tail, D) = LoadCount
  BY PointerTypes DEF LoadCount
<1>2. m \in 0 .. MACHINE_WIDTH /\ m <= LoadCount
  BY RetiringLoads
<1>3. cnt \in 0 .. MACHINE_WIDTH /\ LoadCount + cnt <= D
  BY GroupCounts DEF GroupFits
<1>4. D \in Nat \ {0} /\ D % 2 = 0 /\ MACHINE_WIDTH \in Nat \ {0} /\ 2 * MACHINE_WIDTH <= D
  BY Sizes
<1>5. m \in Nat /\ 2 * m <= D /\ cnt \in Nat /\ 2 * cnt <= D
  BY <1>2, <1>3, <1>4
<1>6. ld_head' = Plus(ld_head, m, D) /\ ld_tail' = Plus(ld_tail, cnt, D)
  BY DEF next_ld_head, next_ld_tail, RetiringLoadCount
<1>7. \A i \in LdqTag : /\ LdFromHead(i) = AgeOf(ld_head.ptr, i, D)
                        /\ LdFromHead(i)' = AgeOf(ld_head'.ptr, i, D)
                        /\ i \in 0 .. (D - 1)
  BY DEF LdFromHead, LdqTag
<1> HIDE DEF D, m, cnt
<1>8. ld_head' \in Pointer(D) /\ ld_tail' \in Pointer(D)
  BY <1>1, <1>4, <1>5, <1>6, PlusIs
<1>9. Distance(ld_head, ld_tail', D) = LoadCount + cnt
  BY <1>1, <1>3, <1>4, <1>5, <1>6, PointersMove
<1>10. Distance(ld_head', ld_tail', D) = (LoadCount + cnt) - m
  <2>1. Distance(ld_head, ld_tail', D) \in 0 .. D /\ m <= Distance(ld_head, ld_tail', D)
    BY <1>1, <1>2, <1>3, <1>4, <1>5, <1>9
  <2> QED
    BY <1>1, <1>4, <1>5, <1>6, <1>8, <1>9, <2>1, PointersMove
<1>11. ASSUME NEW i \in LdqTag
       PROVE  AgeOf(ld_head'.ptr, i, D) = IF AgeOf(ld_head.ptr, i, D) >= m
                                            THEN AgeOf(ld_head.ptr, i, D) - m
                                            ELSE (AgeOf(ld_head.ptr, i, D) + D) - m
  <2>1. Distance(ld_head, ld_tail, D) \in 0 .. D
    BY <1>1
  <2> QED
    BY <1>1, <1>4, <1>5, <1>6, <1>7, <2>1, PointersMove
<1>12. LoadCount' = (LoadCount + cnt) - m
  BY <1>10 DEF LoadCount, D
<1> QED
  BY <1>7, <1>8, <1>11, <1>12 DEF D, m, cnt

\* The slots the loads of the group get.
LEMMA LoadSlots ==
  ASSUME SInv
  PROVE  /\ \A l \in LoadLanes :
              /\ LoadsBefore(l) \in 0 .. (ld_dispatch_cnt - 1)
              /\ dispatch_ld_resp(l) \in LdqTag
              /\ LdFromHead(dispatch_ld_resp(l)) = LoadCount + LoadsBefore(l)
         /\ \A k, l \in LoadLanes : k < l => LoadsBefore(k) < LoadsBefore(l)
         /\ \A k, l \in LoadLanes : dispatch_ld_resp(k) = dispatch_ld_resp(l) => k = l
         /\ \A i \in LdqTag : LdFromHead(i) >= LoadCount /\ LdFromHead(i) < LoadCount + ld_dispatch_cnt =>
              \E l \in LoadLanes : dispatch_ld_resp(l) = i
<1> TypeOK /\ PointersInOrder /\ GroupFits
  BY DEF SInv
<1> DEFINE D == LDQ_DEPTH
           cnt == ld_dispatch_cnt
<1>1. /\ LoadLanes \in SUBSET Lane /\ cnt = Cardinality(LoadLanes) /\ cnt \in Nat
  BY GroupCounts, Sizes
<1>2. \A l : LoadsBefore(l) = Below(l, LoadLanes)
  BY LaneCounts DEF TypeOK
<1>3. \A l \in LoadLanes : l \in Int /\ l + 1 \in Int
  BY <1>1, Sizes DEF Lane
<1>4. /\ \A l \in Int : Below(l, LoadLanes) \in 0 .. cnt
      /\ \A m \in LoadLanes : \A l \in Int : m < l => Below(m, LoadLanes) + 1 <= Below(l, LoadLanes)
      /\ \A m \in LoadLanes : Below(m + 1, LoadLanes) = Below(m, LoadLanes) + 1
      /\ \A n \in 0 .. (cnt - 1) : \E l \in LoadLanes : Below(l, LoadLanes) = n
  BY <1>1, LanesCounted
<1>5. LoadCount \in Nat /\ LoadCount + cnt <= D /\ D \in Nat \ {0}
  BY PointerTypes, Sizes DEF GroupFits
<1>6. ASSUME NEW l \in LoadLanes PROVE LoadsBefore(l) \in 0 .. (cnt - 1)
  <2>1. Below(l, LoadLanes) \in 0 .. cnt /\ Below(l + 1, LoadLanes) \in 0 .. cnt
    BY <1>3, <1>4
  <2>2. Below(l, LoadLanes) + 1 <= cnt
    BY <1>4, <2>1
  <2> QED
    BY <1>1, <1>2, <2>1, <2>2
<1>7. ASSUME NEW l \in LoadLanes
      PROVE  dispatch_ld_resp(l) \in LdqTag /\ LdFromHead(dispatch_ld_resp(l)) = LoadCount + LoadsBefore(l)
  <2> DEFINE n == LoadsBefore(l)
  <2>1. n \in Nat /\ LoadCount + n < D
    BY <1>1, <1>5, <1>6
  <2>2. dispatch_ld_resp(l) = SlotAt(ld_tail.ptr, n, D)
    BY DEF dispatch_ld_resp, SlotAt
  <2>3. /\ ld_head \in Pointer(D) /\ ld_tail \in Pointer(D)
        /\ Distance(ld_head, ld_tail, D) = LoadCount /\ LoadCount \in 0 .. D
    BY PointerTypes DEF LoadCount
  <2> HIDE DEF n, D
  <2>4. /\ SlotAt(ld_tail.ptr, n, D) \in 0 .. (D - 1)
        /\ AgeOf(ld_head.ptr, SlotAt(ld_tail.ptr, n, D), D) = LoadCount + n
    BY <1>5, <2>1, <2>3, BeyondTheTail
  <2> QED
    BY <2>2, <2>4 DEF n, D, LdqTag, LdFromHead
<1>8. ASSUME NEW k \in LoadLanes, NEW l \in LoadLanes, k < l PROVE LoadsBefore(k) < LoadsBefore(l)
  <2>1. Below(k, LoadLanes) + 1 <= Below(l, LoadLanes)
    BY <1>3, <1>4, <1>8
  <2>2. Below(k, LoadLanes) \in Int /\ Below(l, LoadLanes) \in Int
    BY <1>3, <1>4
  <2> QED
    BY <1>2, <2>1, <2>2
<1>9. ASSUME NEW k \in LoadLanes, NEW l \in LoadLanes, dispatch_ld_resp(k) = dispatch_ld_resp(l)
      PROVE  k = l
  <2>1. LoadsBefore(k) = LoadsBefore(l)
    <3>1. LoadCount + LoadsBefore(k) = LoadCount + LoadsBefore(l)
      BY <1>7, <1>9
    <3>2. LoadsBefore(k) \in Int /\ LoadsBefore(l) \in Int
      BY <1>6
    <3>3. LoadCount \in Int
      BY <1>5
    <3> QED
      BY <3>1, <3>2, <3>3
  <2>2. LoadsBefore(k) \in Int
    BY <1>6
  <2> QED
    BY <1>3, <1>8, <2>1, <2>2
<1>10. ASSUME NEW i \in LdqTag, LdFromHead(i) >= LoadCount, LdFromHead(i) < LoadCount + cnt
       PROVE  \E l \in LoadLanes : dispatch_ld_resp(l) = i
  <2>1. LdFromHead(i) \in Int
    BY LoadAges
  <2>2. LdFromHead(i) - LoadCount \in 0 .. (cnt - 1)
    BY <1>1, <1>5, <1>10, <2>1
  <2>3. PICK l \in LoadLanes : LoadsBefore(l) = LdFromHead(i) - LoadCount
    BY <1>2, <1>4, <2>2
  <2>4. dispatch_ld_resp(l) \in LdqTag /\ LdFromHead(dispatch_ld_resp(l)) = LdFromHead(i)
    BY <1>5, <1>7, <2>1, <2>3
  <2>5. dispatch_ld_resp(l) = i
    BY <2>4, LoadAges
  <2> QED
    BY <2>5
<1> QED
  BY <1>6, <1>7, <1>8, <1>9, <1>10

\* The dispatched instructions and their ages.
LEMMA DispatchedRuns ==
  ASSUME SInv
  PROVE  /\ Dispatched \in Seq(Instruction)
         /\ Len(Dispatched) \in 0 .. MACHINE_WIDTH
         /\ Runs(Dispatched, "st", StAge, StoreCount, StoreCount + st_dispatch_cnt)
         /\ Runs(Dispatched, "ld", LdAge, LoadCount, LoadCount + ld_dispatch_cnt)
<1> TypeOK /\ PointersInOrder
  BY DEF SInv
<1>1. Occupied = StoreLanes \cup LoadLanes /\ StoreLanes \cap LoadLanes = {}
  BY LaneCounts DEF TypeOK
<1>2. /\ \A l \in StoreLanes : Tagged(l) = [kind |-> "st", tag |-> dispatch_st_resp(l)]
      /\ \A l \in LoadLanes : Tagged(l) = [kind |-> "ld", tag |-> dispatch_ld_resp(l)]
  <2>1. \A l \in StoreLanes : IsStore(pipe_rename_pkt[l])
    BY DEF StoreLanes
  <2>2. \A l \in LoadLanes : ~IsStore(pipe_rename_pkt[l])
    BY <1>1 DEF StoreLanes, LoadLanes
  <2> QED
    BY <2>1, <2>2 DEF Tagged
<1>3. \A l \in StoreLanes : Tagged(l) \in Instruction /\ Tagged(l).kind = "st" /\ Tagged(l).tag = dispatch_st_resp(l)
  BY <1>2, StoreSlots DEF Instruction
<1>4. \A l \in LoadLanes : Tagged(l) \in Instruction /\ Tagged(l).kind = "ld" /\ Tagged(l).tag = dispatch_ld_resp(l)
  BY <1>2, LoadSlots DEF Instruction
<1>5. Dispatched \in Seq(Instruction)
  <2>1. Dispatched \in Seq({Tagged(l) : l \in Occupied})
    BY DispatchedIs
  <2>2. {Tagged(l) : l \in Occupied} \subseteq Instruction
    BY <1>1, <1>3, <1>4
  <2>3. \A k \in 1 .. Len(Dispatched) : Dispatched[k] \in Instruction
    BY <2>1, <2>2, ElementOfSeq
  <2>4. Len(Dispatched) \in Nat /\ Dispatched \in [1 .. Len(Dispatched) -> {Tagged(l) : l \in Occupied}]
    BY <2>1, LenProperties
  <2>5. Dispatched \in [1 .. Len(Dispatched) -> Instruction]
    BY <2>3, <2>4
  <2> QED
    BY <2>4, <2>5, LengthIs
<1>6. Len(Dispatched) \in 0 .. MACHINE_WIDTH
  <2>1. Occupied \in SUBSET Lane
    BY DEF Occupied
  <2> QED
    BY <2>1, DispatchedIs, LanesCounted
<1>7. /\ \A l : StoresBefore(l) = Below(l, StoreLanes)
      /\ \A l : LoadsBefore(l) = Below(l, LoadLanes)
      /\ st_dispatch_cnt = Cardinality(StoreLanes) /\ ld_dispatch_cnt = Cardinality(LoadLanes)
  BY LaneCounts DEF TypeOK
<1>8. StoreCount \in Int /\ LoadCount \in Int
  BY PointerTypes
<1>9. Runs(Dispatched, "st", StAge, StoreCount, StoreCount + Cardinality(StoreLanes))
  <2>1. \A l \in Occupied : Tagged(l).kind = "st" <=> l \in StoreLanes
    BY <1>1, <1>3, <1>4
  <2>2. \A l \in StoreLanes : StAge[Tagged(l).tag] = StoreCount + Below(l, StoreLanes)
    BY <1>3, <1>7, StoreSlots, StoreAges
  <2>3. StoreLanes \in SUBSET Occupied
    BY <1>1
  <2> QED
    BY <1>8, <2>1, <2>2, <2>3, GroupRuns
<1>10. Runs(Dispatched, "ld", LdAge, LoadCount, LoadCount + Cardinality(LoadLanes))
  <2>1. \A l \in Occupied : Tagged(l).kind = "ld" <=> l \in LoadLanes
    BY <1>1, <1>3, <1>4
  <2>2. \A l \in LoadLanes : LdAge[Tagged(l).tag] = LoadCount + Below(l, LoadLanes)
    BY <1>4, <1>7, LoadSlots, LoadAges
  <2>3. LoadLanes \in SUBSET Occupied
    BY <1>1
  <2> QED
    BY <1>8, <2>1, <2>2, <2>3, GroupRuns
<1> QED
  BY <1>5, <1>6, <1>7, <1>9, <1>10

\* The instructions that stay or enter the window, typed.
LEMMA WindowAfter ==
  ASSUME SInv, NEW g, NEW misp \in BOOLEAN, NEW n \in Retirable(misp), Advance(g, n, misp)
  PROVE  /\ n \in 0 .. MACHINE_WIDTH /\ n <= Len(window)
         /\ pipe_retire_pkt' \in Seq(Instruction) /\ Len(pipe_retire_pkt') <= MACHINE_WIDTH
         /\ \A k \in DOMAIN pipe_retire_pkt' :
              k \in DOMAIN window /\ pipe_retire_pkt'[k] = window[k] /\ Complete(window[k])
         /\ window' \in Seq(Instruction) /\ Len(window') <= ROB_DEPTH
         /\ Len(window') = (Len(window) - n) + Len(Dispatched)
         /\ Unsettled' = window \o Dispatched
         /\ window \o Dispatched \in Seq(Instruction)
<1> TypeOK /\ GroupFits
  BY DEF SInv
<1>1. window \in Seq(Instruction) /\ Len(window) \in Nat /\ DOMAIN window = 1 .. Len(window)
  BY LenProperties DEF TypeOK
<1>2. Dispatched \in Seq(Instruction) /\ Len(Dispatched) \in Nat
  BY DispatchedRuns
<1>3. n \in 0 .. MACHINE_WIDTH /\ n <= Len(window) /\ \A k \in 1 .. n : Complete(window[k])
  <2>1. n \in 0 .. (IF misp THEN MACHINE_WIDTH - 1 ELSE MACHINE_WIDTH)
    BY DEF Retirable
  <2>2. n \in 0 .. MACHINE_WIDTH
    BY <2>1, Sizes
  <2> QED
    BY <2>2 DEF Retirable
<1>4. /\ pipe_retire_pkt' = SubSeq(window, 1, n)
      /\ window' = SubSeq(window, n + 1, Len(window)) \o Dispatched
  BY DEF Advance
<1>5. n \in 0 .. Len(window)
  BY <1>1, <1>3
<1>6. /\ pipe_retire_pkt' \in Seq(Instruction) /\ Len(pipe_retire_pkt') = n
      /\ \A k \in 1 .. n : pipe_retire_pkt'[k] = window[k]
      /\ window' \in Seq(Instruction) /\ Len(window') = (Len(window) - n) + Len(Dispatched)
      /\ pipe_retire_pkt' \o window' = window \o Dispatched
  <2> DEFINE s == window
             t == Dispatched
  <2>1. s \in Seq(Instruction) /\ t \in Seq(Instruction) /\ n \in 0 .. Len(s)
    BY <1>1, <1>2, <1>5
  <2> HIDE DEF s, t
  <2>2. /\ SubSeq(s, 1, n) \in Seq(Instruction) /\ Len(SubSeq(s, 1, n)) = n
        /\ \A k \in 1 .. n : SubSeq(s, 1, n)[k] = s[k]
        /\ SubSeq(s, n + 1, Len(s)) \o t \in Seq(Instruction)
        /\ Len(SubSeq(s, n + 1, Len(s)) \o t) = (Len(s) - n) + Len(t)
        /\ SubSeq(s, 1, n) \o (SubSeq(s, n + 1, Len(s)) \o t) = s \o t
    BY <2>1, RetireSplits, ZenonT(40)
  <2> QED
    BY <1>4, <2>2, Zenon DEF s, t
<1>7. DOMAIN pipe_retire_pkt' = 1 .. n
  BY <1>6, LenProperties
<1>8. Len(window') <= ROB_DEPTH
  <2>1. Len(window) + Len(Dispatched) <= ROB_DEPTH /\ ROB_DEPTH \in Nat
    BY LsqAssumption DEF GroupFits
  <2> QED
    BY <1>1, <1>2, <1>5, <1>6, <2>1
<1>9. Unsettled' = window \o Dispatched
  BY <1>6 DEF Unsettled
<1>10. window \o Dispatched \in Seq(Instruction)
  BY <1>1, <1>2, ConcatProperties
<1>11. Len(pipe_retire_pkt') <= MACHINE_WIDTH
  BY <1>3, <1>6
<1> QED
  BY <1>1, <1>3, <1>5, <1>6, <1>7, <1>8, <1>9, <1>10, <1>11

\* An element of a sequence of instructions has a tag of its kind.
LEMMA TagKinds ==
  ASSUME NEW s \in Seq(Instruction), NEW k \in DOMAIN s
  PROVE  /\ s[k] \in Instruction /\ s[k].kind \in {"st", "ld"}
         /\ s[k].kind = "st" => s[k].tag \in StqTag
         /\ s[k].kind = "ld" => s[k].tag \in LdqTag
<1>1. s[k] \in Instruction
  BY LenProperties, ElementOfSeq
<1> QED
  BY <1>1 DEF Instruction

\* Stores and loads still follow each other in program order after a cycle.
LEMMA InOrderAfter ==
  ASSUME SInv, NEW p \in Ports, NEW x \in Executable, NEW r, Cycle(x, p, r),
         NEW g, NEW misp \in BOOLEAN, NEW n \in Retirable(misp), Advance(g, n, misp)
  PROVE  StoresInOrder' /\ LoadsInOrder'
<1> TypeOK /\ PointersInOrder
  BY DEF SInv
<1> DEFINE u == window \o Dispatched
           am == RetiredCount + RetiringCount
           m == RetiringLoadCount
           sc == st_dispatch_cnt
           lc == ld_dispatch_cnt
<1>1. Unsettled' = u /\ u \in Seq(Instruction)
  BY WindowAfter
<1>2. /\ window \in Seq(Instruction) /\ Dispatched \in Seq(Instruction)
      /\ Runs(Dispatched, "st", StAge, StoreCount, StoreCount + sc)
      /\ Runs(Dispatched, "ld", LdAge, LoadCount, LoadCount + lc)
  BY DispatchedRuns DEF TypeOK
<1>3. /\ Runs(window, "st", StAge, am, StoreCount)
      /\ am \in Nat /\ StoreCount \in Nat /\ am <= StoreCount /\ RetiredCount <= am
  <2>1. RetiringCount \in 0 .. MACHINE_WIDTH /\ am <= StoreCount /\ Runs(window, "st", StAge, am, StoreCount)
    BY RetiringStores DEF RetiringCount
  <2>2. RetiredCount \in Nat /\ StoreCount \in Nat /\ MACHINE_WIDTH \in Nat
    BY PointerTypes, Sizes
  <2> QED
    BY <2>1, <2>2
<1>4. /\ Runs(window, "ld", LdAge, m, LoadCount)
      /\ m \in Nat /\ LoadCount \in Nat /\ m <= LoadCount
  BY RetiringLoads, PointerTypes, Sizes
<1>5. sc \in Nat /\ lc \in Nat
  BY GroupCounts, Sizes
<1>6. StqStep(x, p.st) /\ ld_head' = next_ld_head /\ ld_tail' = next_ld_tail /\ ~pipe_flush
  BY DEF Cycle
<1>7. /\ RetiredCount' = am - Leaving(p) /\ StoreCount' = (StoreCount + sc) - Leaving(p)
      /\ \A i \in StqTag : FromHead(i)' = IF FromHead(i) >= Leaving(p) THEN FromHead(i) - Leaving(p)
                                                                      ELSE STQ_DEPTH - 1
      /\ Leaving(p) \in Nat /\ Leaving(p) <= RetiredCount /\ RetiredCount \in Nat
  <2>1. Leaving(p) \in Nat /\ Leaving(p) <= RetiredCount /\ RetiredCount \in Nat
    BY TakenIsHead, PointerTypes
  <2>2. /\ RetiredCount' = am - Leaving(p)
        /\ StoreCount' = IF pipe_flush THEN am - Leaving(p) ELSE (StoreCount + sc) - Leaving(p)
        /\ \A i \in StqTag : FromHead(i)' = IF FromHead(i) >= Leaving(p) THEN FromHead(i) - Leaving(p)
                                                                        ELSE STQ_DEPTH - 1
    BY <1>6, StorePointersMove, Zenon
  <2> HIDE DEF am, sc
  <2> QED
    BY <1>6, <2>1, <2>2, Zenon
<1>8. /\ LoadCount' = (LoadCount + lc) - m
      /\ \A i \in LdqTag : LdFromHead(i)' = IF LdFromHead(i) >= m THEN LdFromHead(i) - m
                                                                 ELSE (LdFromHead(i) + LDQ_DEPTH) - m
  BY <1>6, LoadPointersMove
<1>9. /\ \A i \in StqTag : FromHead(i) \in Int /\ StAge[i] = FromHead(i) /\ StAge'[i] = FromHead(i)'
      /\ \A i \in LdqTag : LdFromHead(i) \in Int /\ LdAge[i] = LdFromHead(i) /\ LdAge'[i] = LdFromHead(i)'
  BY StoreAges, LoadAges DEF StAge, LdAge
<1> HIDE DEF u, am, m, sc, lc
<1>10. Runs(u, "st", StAge, am, StoreCount + sc)
  <2>1. am <= StoreCount /\ StoreCount <= StoreCount + sc /\ StoreCount + sc \in Int
    BY <1>3, <1>5
  <2> QED
    BY <1>2, <1>3, <2>1, RunsJoin DEF u
<1>11. Runs(u, "ld", LdAge, m, LoadCount + lc)
  <2>1. LoadCount <= LoadCount + lc /\ LoadCount + lc \in Int
    BY <1>4, <1>5
  <2> QED
    BY <1>2, <1>4, <2>1, RunsJoin DEF u
<1>12. Runs(u, "st", StAge', am - Leaving(p), (StoreCount + sc) - Leaving(p))
  <2>1. ASSUME NEW k \in DOMAIN u, u[k].kind = "st"
        PROVE  StAge'[u[k].tag] = StAge[u[k].tag] - Leaving(p)
    <3>1. u[k].tag \in StqTag
      BY <1>1, <2>1, TagKinds
    <3>2. StAge[u[k].tag] \in am .. ((StoreCount + sc) - 1)
      BY <1>10, <2>1 DEF Runs
    <3>3. FromHead(u[k].tag) >= Leaving(p)
      BY <1>3, <1>5, <1>7, <1>9, <3>1, <3>2
    <3> QED
      BY <1>7, <1>9, <3>1, <3>3
  <2>2. am \in Int /\ StoreCount + sc \in Int /\ Leaving(p) \in Int
    BY <1>3, <1>5, <1>7
  <2> QED
    BY <1>10, <2>1, <2>2, RunsShift
<1>13. Runs(u, "ld", LdAge', 0, (LoadCount + lc) - m)
  <2>1. ASSUME NEW k \in DOMAIN u, u[k].kind = "ld"
        PROVE  LdAge'[u[k].tag] = LdAge[u[k].tag] - m
    <3>1. u[k].tag \in LdqTag
      BY <1>1, <2>1, TagKinds
    <3>2. LdAge[u[k].tag] \in m .. ((LoadCount + lc) - 1)
      BY <1>11, <2>1 DEF Runs
    <3>3. LdFromHead(u[k].tag) >= m
      BY <1>4, <1>5, <1>9, <3>1, <3>2
    <3> QED
      BY <1>8, <1>9, <3>1, <3>3
  <2>2. m \in Int /\ LoadCount + lc \in Int /\ m - m = 0
    BY <1>4, <1>5
  <2>3. Runs(u, "ld", LdAge', m - m, (LoadCount + lc) - m)
    BY <1>11, <2>1, <2>2, RunsShift
  <2> QED
    BY <2>2, <2>3
<1>14. StoresInOrder'
  BY <1>1, <1>7, <1>12 DEF StoresInOrder, am, sc
<1>15. LoadsInOrder'
  BY <1>1, <1>8, <1>13 DEF LoadsInOrder, m, lc
<1> QED
  BY <1>14, <1>15

---------------------------------------------------------------------------
(* The group that was let through, and the pointers *)

\* The room between two pointers is what their distance leaves.
LEMMA RoomIs ==
  ASSUME NEW d \in Nat, NEW h \in Pointer(d), NEW t \in Pointer(d)
  PROVE  Room(h, t, d) = d - Distance(h, t, d)
<1>1. h.ptr \in Int /\ t.ptr \in Int
  BY DEF Pointer
<1> QED
  BY <1>1 DEF Room, Distance

\* The sizes of a group.
LEMMA GroupSizes ==
  pipe_rename_pkt \in Group =>
    /\ st_dispatch_cnt \in 0 .. MACHINE_WIDTH /\ ld_dispatch_cnt \in 0 .. MACHINE_WIDTH
    /\ Len(Dispatched) \in 0 .. MACHINE_WIDTH
<1> SUFFICES ASSUME pipe_rename_pkt \in Group
             PROVE  /\ st_dispatch_cnt \in 0 .. MACHINE_WIDTH /\ ld_dispatch_cnt \in 0 .. MACHINE_WIDTH
                    /\ Len(Dispatched) \in 0 .. MACHINE_WIDTH
  OBVIOUS
<1>1. StoreLanes \in SUBSET Lane /\ LoadLanes \in SUBSET Lane /\ Occupied \in SUBSET Lane
  BY DEF StoreLanes, LoadLanes, Occupied
<1>2. /\ st_dispatch_cnt = Cardinality(StoreLanes) /\ ld_dispatch_cnt = Cardinality(LoadLanes)
      /\ Len(Dispatched) = Cardinality(Occupied)
  BY LaneCounts, DispatchedIs
<1>3. /\ Cardinality(StoreLanes) \in 0 .. MACHINE_WIDTH /\ Cardinality(LoadLanes) \in 0 .. MACHINE_WIDTH
      /\ Cardinality(Occupied) \in 0 .. MACHINE_WIDTH
  BY <1>1, LanesCounted
<1> QED
  BY <1>2, <1>3

\* The sizes of an empty one.
LEMMA NoGroupSizes ==
  pipe_rename_pkt = NoGroup => st_dispatch_cnt = 0 /\ ld_dispatch_cnt = 0 /\ Len(Dispatched) = 0
  BY NothingDispatched

\* The same of the group renamed in this cycle.
LEMMA NextGroupSizes ==
  /\ (pipe_rename_pkt \in Group)' =>
       (/\ st_dispatch_cnt \in 0 .. MACHINE_WIDTH /\ ld_dispatch_cnt \in 0 .. MACHINE_WIDTH
        /\ Len(Dispatched) \in 0 .. MACHINE_WIDTH)'
  /\ (pipe_rename_pkt = NoGroup)' =>
       (st_dispatch_cnt = 0 /\ ld_dispatch_cnt = 0 /\ Len(Dispatched) = 0)'
  BY GroupSizes, NoGroupSizes, PTL

\* The pointers after a cycle.
LEMMA PointersAfter ==
  ASSUME SInv, NEW p \in Ports, NEW x, NEW r, Cycle(x, p, r)
  PROVE  /\ PointersInOrder'
         /\ StoreCount' = (StoreCount + st_dispatch_cnt) - Leaving(p)
         /\ RetiredCount' = (RetiredCount + RetiringCount) - Leaving(p)
         /\ {st_head, st_tail, st_retired}' \subseteq Pointer(STQ_DEPTH)
         /\ {ld_head, ld_tail}' \subseteq Pointer(LDQ_DEPTH)
<1> TypeOK /\ PointersInOrder /\ GroupFits
  BY DEF SInv
<1>1. StqStep(x, p.st) /\ ld_head' = next_ld_head /\ ld_tail' = next_ld_tail /\ ~pipe_flush
  BY DEF Cycle
<1>2. /\ RetiredCount' = (RetiredCount + RetiringCount) - Leaving(p)
      /\ StoreCount' = (StoreCount + st_dispatch_cnt) - Leaving(p)
      /\ st_head' \in Pointer(STQ_DEPTH) /\ st_tail' \in Pointer(STQ_DEPTH)
      /\ st_retired' \in Pointer(STQ_DEPTH)
  BY <1>1, StorePointersMove
<1>3. /\ LoadCount' = (LoadCount + ld_dispatch_cnt) - RetiringLoadCount
      /\ ld_head' \in Pointer(LDQ_DEPTH) /\ ld_tail' \in Pointer(LDQ_DEPTH)
  BY <1>1, LoadPointersMove
<1>4. /\ RetiredCount \in Nat /\ StoreCount \in Nat /\ LoadCount \in Nat
      /\ st_dispatch_cnt \in Nat /\ ld_dispatch_cnt \in Nat
      /\ StoreCount + st_dispatch_cnt <= STQ_DEPTH /\ LoadCount + ld_dispatch_cnt <= LDQ_DEPTH
  BY PointerTypes, GroupCounts, Sizes DEF GroupFits
<1>5. /\ RetiringCount \in Nat /\ RetiredCount + RetiringCount <= StoreCount
      /\ RetiringLoadCount \in Nat /\ RetiringLoadCount <= LoadCount
      /\ Leaving(p) \in {0, 1} /\ Leaving(p) <= RetiredCount
  BY RetiringStores, RetiringLoads, TakenIsHead, Sizes DEF RetiringCount
<1>6. STQ_DEPTH \in Nat /\ LDQ_DEPTH \in Nat
  BY Sizes
<1>7. /\ 0 <= RetiredCount' /\ RetiredCount' <= StoreCount' /\ StoreCount' <= STQ_DEPTH
      /\ 0 <= LoadCount' /\ LoadCount' <= LDQ_DEPTH
  BY <1>2, <1>3, <1>4, <1>5, <1>6
<1>8. PointersInOrder'
  BY <1>7 DEF PointersInOrder
<1> QED
  BY <1>2, <1>3, <1>8

\* The group that was let through fits.
LEMMA GroupAfter ==
  ASSUME SInv, NEW p \in Ports, NEW x, NEW r, Cycle(x, p, r),
         NEW misp \in BOOLEAN, NEW n \in Retirable(misp), NEW g \in Renamed(p, n, misp),
         Advance(g, n, misp)
  PROVE  /\ GroupFits'
         /\ pipe_rename_pkt' \in Group
<1> TypeOK /\ PointersInOrder /\ GroupFits
  BY DEF SInv
<1>1. pipe_rename_pkt' = g /\ pipe_flush' = misp
  BY DEF Advance
<1>2. /\ StoreCount' \in Int /\ StoreCount' <= STQ_DEPTH
      /\ LoadCount' \in Int /\ LoadCount' <= LDQ_DEPTH
      /\ STQ_DEPTH \in Nat /\ LDQ_DEPTH \in Nat /\ MACHINE_WIDTH \in Nat /\ ROB_DEPTH \in Nat
  <2>1. PointersInOrder' /\ {st_head, st_tail, st_retired}' \subseteq Pointer(STQ_DEPTH)
        /\ {ld_head, ld_tail}' \subseteq Pointer(LDQ_DEPTH)
    BY PointersAfter
  <2>2. /\ st_head' \in Pointer(STQ_DEPTH) /\ st_tail' \in Pointer(STQ_DEPTH)
        /\ ld_head' \in Pointer(LDQ_DEPTH) /\ ld_tail' \in Pointer(LDQ_DEPTH)
    BY <2>1
  <2>3. STQ_DEPTH \in Nat /\ LDQ_DEPTH \in Nat /\ MACHINE_WIDTH \in Nat /\ ROB_DEPTH \in Nat
    BY Sizes, LsqAssumption
  <2>4. StoreCount' = Distance(st_head', st_tail', STQ_DEPTH) /\ LoadCount' = Distance(ld_head', ld_tail', LDQ_DEPTH)
    BY DEF StoreCount, LoadCount
  <2>5. Distance(st_head', st_tail', STQ_DEPTH) \in Int /\ Distance(ld_head', ld_tail', LDQ_DEPTH) \in Int
    BY <2>2, <2>3 DEF Distance, Pointer
  <2>6. StoreCount' <= STQ_DEPTH /\ LoadCount' <= LDQ_DEPTH
    BY <2>1 DEF PointersInOrder
  <2> QED
    BY <2>3, <2>4, <2>5, <2>6
<1>3. /\ Len(window') = (Len(window) - n) + Len(Dispatched) /\ Len(window') <= ROB_DEPTH
      /\ n \in Int /\ Len(window) \in Nat /\ Len(Dispatched) \in Nat /\ Len(window') \in Nat
  <2>1. window' \in Seq(Instruction) /\ window \in Seq(Instruction) /\ Dispatched \in Seq(Instruction)
    BY WindowAfter, DispatchedRuns DEF TypeOK
  <2>2. Len(window) \in Nat /\ Len(Dispatched) \in Nat /\ Len(window') \in Nat
    BY <2>1, LenProperties
  <2> QED
    BY <2>2, WindowAfter
<1>4. CASE g = NoGroup
  <2>1. (pipe_rename_pkt = NoGroup)' /\ pipe_rename_pkt' \in Group
    BY <1>1, <1>4 DEF NoGroup, Group
  <2>2. st_dispatch_cnt' = 0 /\ ld_dispatch_cnt' = 0 /\ Len(Dispatched)' = 0
    BY <2>1, NextGroupSizes, Zenon
  <2>3. /\ StoreCount' + st_dispatch_cnt' <= STQ_DEPTH
        /\ LoadCount' + ld_dispatch_cnt' <= LDQ_DEPTH
        /\ Len(window') + Len(Dispatched)' <= ROB_DEPTH
    <3>1. StoreCount' + st_dispatch_cnt' <= STQ_DEPTH
      <4>1. StoreCount' \in Int /\ StoreCount' <= STQ_DEPTH /\ STQ_DEPTH \in Nat
        BY <1>2
      <4>2. st_dispatch_cnt' = 0
        BY <2>2
      <4>3. StoreCount' + 0 <= STQ_DEPTH
        <5>1. \A a, b \in Int : a <= b => a + 0 <= b
          OBVIOUS
        <5>2. StoreCount' \in Int /\ STQ_DEPTH \in Int /\ StoreCount' <= STQ_DEPTH
          BY <4>1
        <5> QED
          BY <5>1, <5>2, Zenon
      <4> QED
        BY <4>2, <4>3
    <3>2. LoadCount' + ld_dispatch_cnt' <= LDQ_DEPTH
      <4>1. LoadCount' \in Int /\ LoadCount' <= LDQ_DEPTH /\ LDQ_DEPTH \in Nat
        BY <1>2
      <4>2. ld_dispatch_cnt' = 0
        BY <2>2
      <4>3. LoadCount' + 0 <= LDQ_DEPTH
        <5>1. \A a, b \in Int : a <= b => a + 0 <= b
          OBVIOUS
        <5>2. LoadCount' \in Int /\ LDQ_DEPTH \in Int /\ LoadCount' <= LDQ_DEPTH
          BY <4>1
        <5> QED
          BY <5>1, <5>2, Zenon
      <4> QED
        BY <4>2, <4>3
    <3>3. Len(window') + Len(Dispatched)' <= ROB_DEPTH
      BY <1>2, <1>3, <2>2
    <3> QED
      BY <3>1, <3>2, <3>3
  <2>4. GroupFits'
    BY <2>1, <2>3 DEF GroupFits
  <2> QED
    BY <2>1, <2>4
<1>5. CASE g # NoGroup
  <2>1. /\ ~misp /\ dispatch_pkt_ready(p.st) /\ g \in Group
        /\ ((Len(window) - n) + Len(Dispatched)) + MACHINE_WIDTH <= ROB_DEPTH
    BY <1>3, <1>5 DEF Renamed
  <2>2. pipe_rename_pkt' \in Group /\ (pipe_rename_pkt \in Group)' /\ ~pipe_flush'
    BY <1>1, <2>1 DEF Group
  <2>3. /\ st_dispatch_cnt' \in 0 .. MACHINE_WIDTH /\ ld_dispatch_cnt' \in 0 .. MACHINE_WIDTH
        /\ Len(Dispatched)' \in 0 .. MACHINE_WIDTH
    BY <2>2, NextGroupSizes, Zenon
  <2>4. /\ st_head' = next_st_head(p.st) /\ st_tail' = next_st_tail
        /\ ld_head' = next_ld_head /\ ld_tail' = next_ld_tail
    BY DEF Cycle, StqStep
  <2>5. /\ Room(st_head', st_tail', STQ_DEPTH) >= MACHINE_WIDTH
        /\ Room(ld_head', ld_tail', LDQ_DEPTH) >= MACHINE_WIDTH
    BY <2>1, <2>4 DEF dispatch_pkt_ready
  <2>6. /\ Room(st_head', st_tail', STQ_DEPTH) = STQ_DEPTH - StoreCount'
        /\ Room(ld_head', ld_tail', LDQ_DEPTH) = LDQ_DEPTH - LoadCount'
    <3>1. /\ st_head' \in Pointer(STQ_DEPTH) /\ st_tail' \in Pointer(STQ_DEPTH)
          /\ ld_head' \in Pointer(LDQ_DEPTH) /\ ld_tail' \in Pointer(LDQ_DEPTH)
      BY PointersAfter
    <3> QED
      BY <1>2, <3>1, RoomIs DEF StoreCount, LoadCount
  <2>7. /\ StoreCount' + st_dispatch_cnt' <= STQ_DEPTH
        /\ LoadCount' + ld_dispatch_cnt' <= LDQ_DEPTH
        /\ Len(window') + Len(Dispatched)' <= ROB_DEPTH
    <3>0. \A c, d \in Int, k \in 0 .. MACHINE_WIDTH : d - c >= MACHINE_WIDTH => c + k <= d
      BY <1>2
    <3>1. StoreCount' + st_dispatch_cnt' <= STQ_DEPTH
      <4>1. StoreCount' \in Int /\ STQ_DEPTH \in Int
        BY <1>2
      <4>2. st_dispatch_cnt' \in 0 .. MACHINE_WIDTH
        BY <2>3
      <4>3. STQ_DEPTH - StoreCount' >= MACHINE_WIDTH
        BY <2>5, <2>6
      <4> QED
        BY <3>0, <4>1, <4>2, <4>3
    <3>2. LoadCount' + ld_dispatch_cnt' <= LDQ_DEPTH
      <4>1. LoadCount' \in Int /\ LDQ_DEPTH \in Int
        BY <1>2
      <4>2. ld_dispatch_cnt' \in 0 .. MACHINE_WIDTH
        BY <2>3
      <4>3. LDQ_DEPTH - LoadCount' >= MACHINE_WIDTH
        BY <2>5, <2>6
      <4> QED
        BY <3>0, <4>1, <4>2, <4>3
    <3>3. Len(window') + Len(Dispatched)' <= ROB_DEPTH
      BY <1>2, <1>3, <2>1, <2>3, <2>5, <2>6
    <3> QED
      BY <3>1, <3>2, <3>3
  <2>8. GroupFits'
    BY <2>2, <2>7 DEF GroupFits
  <2> QED
    BY <2>2, <2>8
<1> QED
  BY <1>4, <1>5

\* The store offered next is the oldest, and retired.
LEMMA OfferAfter ==
  ASSUME SInv, NEW p \in Ports, NEW x, StqStep(x, p.st)
  PROVE  OffersHead' /\ fire_st' \in StqTag \cup {None}
<1> TypeOK /\ PointersInOrder /\ StoreEntries
  BY DEF SInv
<1>1. fire_st' = next_fire_st(p.st) /\ st_head' = next_st_head(p.st)
  BY DEF StqStep
<1>2. CASE fire_st' = None
  BY <1>2 DEF OffersHead
<1>3. CASE fire_st' # None
  <2>1. /\ ~pipe_flush /\ ~p.st /\ fire_st' = st_head.ptr
        /\ \E i \in StqTag : stq_entry[i].entry_valid /\ stq_entry[i].retired
    BY <1>1, <1>3 DEF next_fire_st
  <2>2. PICK i \in StqTag : stq_entry[i].entry_valid /\ stq_entry[i].retired
    BY <2>1
  <2>3. FromHead(i) < RetiredCount
    <3>1. FromHead(i) < StoreCount
      <4>1. ~EmptyStore.entry_valid
        BY DEF EmptyStore
      <4> QED
        BY <2>2, <4>1 DEF StoreEntries
    <3> QED
      BY <2>2, <3>1 DEF StoreEntries
  <2>4. st_head' = Plus(st_head, 0, STQ_DEPTH)
    BY <1>1, <2>1 DEF next_st_head
  <2>5. st_head'.ptr = st_head.ptr
    <3>1. st_head \in Pointer(STQ_DEPTH) /\ st_head.ptr \in 0 .. (STQ_DEPTH - 1) /\ STQ_DEPTH \in Nat \ {0} /\ STQ_DEPTH % 2 = 0
      BY PointerTypes, Sizes
    <3>2. 2 * 0 <= STQ_DEPTH /\ st_head.ptr + 0 = st_head.ptr /\ st_head.ptr < STQ_DEPTH
      BY <3>1
    <3>3. Plus(st_head, 0, STQ_DEPTH).ptr = IF st_head.ptr + 0 < STQ_DEPTH THEN st_head.ptr + 0 ELSE (st_head.ptr + 0) - STQ_DEPTH
      BY <3>1, <3>2, PlusIs
    <3> QED
      BY <2>4, <3>2, <3>3
  <2>6. RetiredCount' = (RetiredCount + RetiringCount) - Leaving(p)
    BY StorePointersMove
  <2>7. /\ Leaving(p) = 0 /\ RetiredCount \in Nat /\ RetiringCount \in Nat
        /\ FromHead(i) \in Nat
    BY <2>1, PointerTypes, RetiringStores, StoreAges, Sizes DEF Leaving, RetiringCount
  <2>8. RetiredCount' > 0
    BY <2>3, <2>6, <2>7
  <2>9. st_head.ptr \in StqTag
    BY StoreAges
  <2> QED
    BY <2>1, <2>5, <2>8, <2>9 DEF OffersHead
<1> QED
  BY <1>2, <1>3

\* What retires next has its address.
LEMMA CompleteAfter ==
  ASSUME SInv, NEW p \in Ports, NEW x \in Executable, NEW r, Cycle(x, p, r),
         NEW g, NEW misp \in BOOLEAN, NEW n \in Retirable(misp), Advance(g, n, misp)
  PROVE  StoresComplete'
<1> TypeOK /\ PointersInOrder
  BY DEF SInv
<1>1. ASSUME NEW k \in DOMAIN pipe_retire_pkt', pipe_retire_pkt'[k].kind = "st"
      PROVE  stq_entry'[pipe_retire_pkt'[k].tag].addr_valid
  <2>1. k \in DOMAIN window /\ pipe_retire_pkt'[k] = window[k] /\ Complete(window[k])
    BY WindowAfter
  <2> DEFINE i == window[k].tag
  <2>2. window[k].kind = "st" /\ i \in StqTag /\ stq_entry[i].addr_valid
    BY <1>1, <2>1, TagKinds DEF Complete, TypeOK
  <2>3. StqStep(x, p.st) /\ ~pipe_flush
    BY DEF Cycle
  <2>4. Stays(p, i)
    <3>1. StAge[i] \in (RetiredCount + RetiringCount) .. (StoreCount - 1)
      BY <2>1, <2>2, RetiringStores DEF Runs, RetiringCount
    <3>2. RetiredCount \in Nat /\ RetiringCount \in Nat /\ StoreCount \in Nat
      BY PointerTypes, RetiringStores, Sizes DEF RetiringCount
    <3>3. StAge[i] = FromHead(i) /\ FromHead(i) \in Nat
      BY <2>2, StoreAges
    <3>4. Leaving(p) \in {0, 1} /\ Leaving(p) <= RetiredCount
      BY TakenIsHead
    <3> QED
      BY <2>3, <3>1, <3>2, <3>3, <3>4 DEF Stays
  <2>5. stq_entry'[i].addr_valid
    BY <2>2, <2>3, <2>4, StoreFieldsAfter
  <2> QED
    BY <2>1, <2>5
<1> QED
  BY <1>1 DEF StoresComplete

---------------------------------------------------------------------------
(* Memory and the committed memory in one cycle *)

\* The entry of a store in the queue holds a store.
LEMMA QueuedStore ==
  ASSUME SInv, NEW i \in StqTag, FromHead(i) < StoreCount
  PROVE  /\ stq_entry[i].st \in Stores /\ stq_entry[i].entry_valid
         /\ stq_entry[i].retired <=> FromHead(i) < RetiredCount
         /\ stq_entry[i].retired => stq_entry[i].addr_valid
<1> TypeOK /\ PointersInOrder /\ StoreEntries
  BY DEF SInv
<1>1. stq_entry[i] \in StqEntry
  BY DEF TypeOK
<1>2. stq_entry[i].st \in Stores \cup {None}
  BY <1>1 DEF StqEntry
<1> QED
  BY <1>2 DEF StoreEntries

\* What memory is after the cycle.
LEMMA MemoryAfter ==
  ASSUME SInv, NEW p \in Ports, memory' = next_memory(p)
  PROVE  /\ memory' \in [Addr -> [Byte -> Val]]
         /\ ~p.st => memory' = memory
         /\ p.st => /\ stq_entry[fire_st].st \in Stores
                    /\ \A a \in Addr, b \in Byte :
                         memory'[a][b] = IF stq_entry[fire_st].st.addr = a /\ b \in stq_entry[fire_st].st.bytes
                                           THEN stq_entry[fire_st].st.val ELSE memory[a][b]
<1> TypeOK /\ PointersInOrder
  BY DEF SInv
<1>1. memory \in [Addr -> [Byte -> Val]]
  BY DEF TypeOK
<1>2. ~p.st => memory' = memory
  BY DEF next_memory
<1>3. ASSUME p.st PROVE stq_entry[fire_st].st \in Stores
  <2>1. fire_st = st_head.ptr /\ RetiredCount > 0 /\ p.st
    BY <1>3, TakenIsHead
  <2>2. st_head.ptr \in StqTag /\ FromHead(st_head.ptr) = 0
    BY StoreAges
  <2>3. RetiredCount \in Nat /\ StoreCount \in Nat /\ RetiredCount <= StoreCount
    BY PointerTypes
  <2>4. FromHead(fire_st) < StoreCount /\ fire_st \in StqTag
    BY <2>1, <2>2, <2>3
  <2> QED
    BY <2>4, QueuedStore
<1>4. p.st => memory' = Write(memory, stq_entry[fire_st].st)
  BY DEF next_memory
<1>5. p.st \in BOOLEAN
  BY TakenIsHead
<1>6. CASE p.st
  <2> DEFINE st == stq_entry[fire_st].st
  <2>1. st \in Stores /\ memory' = Write(memory, st)
    BY <1>3, <1>4, <1>6
  <2> HIDE DEF st
  <2>2. memory' \in [Addr -> [Byte -> Val]]
    <3>1. Write(memory, st) \in [Addr -> [Byte -> Val]]
      <4>1. CASE Addr = {} \/ Byte = {}
        <5>1. st.addr \in Addr /\ st.bytes \in SUBSET Byte /\ st.bytes # {}
          BY <2>1, LsqAssumption
        <5> QED
          BY <4>1, <5>1
      <4>2. CASE Addr # {} /\ Byte # {}
        <5>1. PICK a \in Addr, b \in Byte : TRUE
          BY <4>2
        <5> QED
          BY <1>1, <2>1, <5>1, WriteIs
      <4> QED
        BY <4>1, <4>2
    <3> QED
      BY <2>1, <3>1
  <2>3. \A a \in Addr, b \in Byte :
          memory'[a][b] = IF st.addr = a /\ b \in st.bytes THEN st.val ELSE memory[a][b]
    BY <1>1, <2>1, WriteIs
  <2> QED
    BY <1>6, <2>1, <2>2, <2>3 DEF st
<1>7. CASE ~p.st
  BY <1>1, <1>2, <1>7
<1> QED
  BY <1>5, <1>6, <1>7

\* What the stores of S make of memory does not change when they stay, or when
\* the oldest leaves for memory.
LEMMA ValueAfter ==
  ASSUME SInv, NEW p \in Ports, NEW x \in Executable, StqStep(x, p.st), memory' = next_memory(p),
         NEW S \in SUBSET StqTag, \A i \in S \ Taken(p) : Stays(p, i), p.st => fire_st \in S,
         NEW a \in Addr, NEW b \in Byte, NEW v,
         IsValue(v, stq_entry, StAge, memory, S, a, b)
  PROVE  IsValue(v, stq_entry', StAge', memory', S \ Taken(p), a, b)
<1> TypeOK /\ PointersInOrder
  BY DEF SInv
<1>1. \A i \in StqTag : FromHead(i) \in 0 .. (STQ_DEPTH - 1) /\ StAge[i] = FromHead(i) /\ StAge'[i] = FromHead(i)'
  BY StoreAges DEF StAge
<1>2. \A i \in S \ Taken(p) : stq_entry'[i].st = stq_entry[i].st
  BY StoreFieldsAfter
<1>3. \A i \in S \ Taken(p) : FromHead(i)' = FromHead(i) - Leaving(p)
  BY StorePointersMove DEF Stays
<1>4. p.st \in BOOLEAN
  BY TakenIsHead
<1>5. CASE ~p.st
  <2>1. Taken(p) = {} /\ Leaving(p) = 0 /\ memory' = memory
    BY <1>5, MemoryAfter DEF Taken, Leaving
  <2>2. S \ Taken(p) = S
    BY <2>1
  <2>3. \A i \in S : stq_entry'[i].st = stq_entry[i].st /\ StAge'[i] = StAge[i]
    BY <1>1, <1>2, <1>3, <2>1
  <2>4. IsValue(v, stq_entry', StAge', memory', S, a, b)
    BY <2>1, <2>3, ValueStays
  <2> QED
    BY <2>2, <2>4
<1>6. CASE p.st
  <2>1. /\ fire_st \in S /\ Taken(p) = {fire_st} /\ Leaving(p) = 1
        /\ fire_st = st_head.ptr /\ FromHead(fire_st) = 0
    BY <1>6, TakenIsHead, StoreAges DEF Taken, Leaving
  <2>2. StAge[fire_st] = 0
    BY <1>1, <2>1
  <2>3. ASSUME NEW i \in S \ {fire_st}
        PROVE  /\ stq_entry'[i].st = stq_entry[i].st
               /\ StAge[i] \in Nat \ {0} /\ StAge'[i] = StAge[i] - 1
    <3>1. FromHead(i) # 0
      BY <2>1, StoreAges
    <3> QED
      BY <1>1, <1>2, <1>3, <2>1, <3>1
  <2>4. memory'[a][b] = IF stq_entry[fire_st].st.addr = a /\ b \in stq_entry[fire_st].st.bytes
                          THEN stq_entry[fire_st].st.val ELSE memory[a][b]
    BY <1>6, MemoryAfter
  <2>5. IsValue(v, stq_entry', StAge', memory', S \ {fire_st}, a, b)
    BY <2>1, <2>2, <2>3, <2>4, ValueMoves
  <2> QED
    BY <2>1, <2>5
<1> QED
  BY <1>4, <1>5, <1>6

\* The retired stores are the oldest ones, and those that retire follow them.
LEMMA RetiredAre ==
  ASSUME SInv
  PROVE  /\ RetiredStores = {i \in StqTag : FromHead(i) < RetiredCount}
         /\ RetiredStores \cup RetiredTags("st") = {i \in StqTag : FromHead(i) < RetiredCount + RetiringCount}
<1> TypeOK /\ PointersInOrder /\ StoreEntries
  BY DEF SInv
<1>1. /\ RetiredCount \in Nat /\ StoreCount \in Nat /\ RetiredCount <= StoreCount
      /\ RetiringCount \in Nat
  BY PointerTypes, RetiringStores, Sizes DEF RetiringCount
<1>2. \A i \in StqTag : FromHead(i) \in Nat
  BY StoreAges
<1>3. ~EmptyStore.entry_valid
  BY DEF EmptyStore
<1>4. \A i \in StqTag : stq_entry[i].entry_valid /\ stq_entry[i].retired <=> FromHead(i) < RetiredCount
  <2> TAKE i \in StqTag
  <2>1. CASE FromHead(i) < StoreCount
    BY <2>1, QueuedStore
  <2>2. CASE ~ (FromHead(i) < StoreCount)
    <3>1. ~stq_entry[i].entry_valid
      BY <1>3, <2>2 DEF StoreEntries
    <3> QED
      BY <1>1, <1>2, <2>2, <3>1
  <2> QED
    BY <2>1, <2>2
<1>5. RetiredStores = {i \in StqTag : FromHead(i) < RetiredCount}
  BY <1>4 DEF RetiredStores
<1>6. RetiredTags("st") = {i \in StqTag : FromHead(i) >= RetiredCount /\ FromHead(i) < RetiredCount + RetiringCount}
  BY RetiringStores DEF RetiringCount
<1> QED
  BY <1>1, <1>2, <1>5, <1>6

\* A retired store leaves only for memory.
LEMMA RetiredStoresAfter ==
  ASSUME SInv, NEW p \in Ports, NEW x \in Executable, StqStep(x, p.st)
  PROVE  /\ RetiredStores' = (RetiredStores \cup RetiredTags("st")) \ Taken(p)
         /\ \A i \in RetiredStores' : Stays(p, i)
         /\ p.st => fire_st \in RetiredStores
<1> TypeOK /\ PointersInOrder
  BY DEF SInv
<1> DEFINE am == RetiredCount + RetiringCount
<1>1. /\ RetiredStores = {i \in StqTag : FromHead(i) < RetiredCount}
      /\ RetiredStores \cup RetiredTags("st") = {i \in StqTag : FromHead(i) < am}
  BY RetiredAre
<1>2. /\ RetiredCount \in Nat /\ StoreCount \in Nat /\ am <= StoreCount
      /\ RetiringCount \in Nat /\ am \in Nat
  BY PointerTypes, RetiringStores, Sizes DEF RetiringCount
<1>3. \A i \in StqTag : FromHead(i) \in Nat /\ (i \in Taken(p) <=> FromHead(i) < Leaving(p))
  BY StoreAges, TakenIsHead
<1>4. Leaving(p) \in {0, 1}
  BY TakenIsHead
<1>5. ASSUME NEW i \in StqTag
      PROVE  stq_entry'[i].entry_valid /\ stq_entry'[i].retired <=> Stays(p, i) /\ FromHead(i) < am
  <2>1. CASE Stays(p, i)
    BY <2>1, StoreFieldsAfter
  <2>2. CASE \E l \in StoreLanes : dispatch_st_resp(l) = i
    <3>1. ~stq_entry'[i].retired
      BY <2>2, StoreFieldsAfter
    <3>2. ~Stays(p, i)
      <4>1. PICK l \in StoreLanes : dispatch_st_resp(l) = i
        BY <2>2
      <4>2. FromHead(i) = StoreCount + StoresBefore(l) /\ StoresBefore(l) \in Nat
        BY <4>1, StoreSlots
      <4>3. ~ (FromHead(i) < StoreCount)
        BY <1>2, <4>2
      <4> QED
        BY <4>3 DEF Stays
    <3> QED
      BY <3>1, <3>2
  <2>3. CASE ~Stays(p, i) /\ \A l \in StoreLanes : dispatch_st_resp(l) # i
    <3>1. stq_entry'[i] = EmptyStore
      BY <2>3, StoreFieldsAfter
    <3> QED
      BY <2>3, <3>1 DEF EmptyStore
  <2> QED
    BY <2>1, <2>2, <2>3
<1>6. ASSUME NEW i \in StqTag
      PROVE  Stays(p, i) /\ FromHead(i) < am <=> FromHead(i) < am /\ i \notin Taken(p)
  <2> HIDE DEF am
  <2>1. FromHead(i) < am => FromHead(i) < StoreCount /\ ~ (FromHead(i) >= am)
    BY <1>2, <1>3
  <2> QED
    BY <1>2, <1>3, <1>4, <2>1 DEF Stays, am
<1>7. RetiredStores' = {i \in StqTag : stq_entry'[i].entry_valid /\ stq_entry'[i].retired}
  BY DEF RetiredStores
<1> HIDE DEF am
<1>8. RetiredStores' = {i \in StqTag : FromHead(i) < am} \ Taken(p)
  BY <1>5, <1>6, <1>7
<1>9. \A i \in RetiredStores' : Stays(p, i)
  BY <1>5, <1>7
<1>10. p.st => fire_st \in RetiredStores
  <2>1. p.st => fire_st = st_head.ptr /\ RetiredCount > 0
    BY TakenIsHead
  <2>2. st_head.ptr \in StqTag /\ FromHead(st_head.ptr) = 0
    BY StoreAges
  <2> QED
    BY <1>1, <1>2, <2>1, <2>2
<1> QED
  BY <1>1, <1>8, <1>9, <1>10

\* What retirement makes of the committed memory.
LEMMA CommittedNext ==
  ASSUME SInv, NEW a \in Addr, NEW b \in Byte, CommittedIsValue
  PROVE  /\ IsValue(next_committed[a][b], stq_entry, StAge, memory,
                    RetiredStores \cup RetiredTags("st"), a, b)
         /\ next_committed[a][b] \in Val
<1> TypeOK /\ PointersInOrder
  BY DEF SInv
<1> DEFINE pkt == pipe_retire_pkt
           T == RetiredTags("st")
           st(k) == stq_entry[pkt[k].tag].st
           K == {k \in DOMAIN pkt : pkt[k].kind = "st" /\ st(k).addr = a /\ b \in st(k).bytes}
           w == IF K = {} THEN committed[a][b] ELSE st(MaxOf(K)).val
           W == Writers(stq_entry, T, a, b)
<1>1. next_committed[a][b] = w
  BY DEF next_committed
<1>2. pkt \in Seq(Instruction) /\ DOMAIN pkt = 1 .. Len(pkt) /\ Len(pkt) \in Nat
  BY LenProperties DEF TypeOK
<1>3. \A k \in DOMAIN pkt : pkt[k].kind = "st" => pkt[k].tag \in T /\ pkt[k].tag \in StqTag
  BY <1>2, TagKinds DEF RetiredTags
<1>4. \A t \in T : \E k \in DOMAIN pkt : pkt[k].kind = "st" /\ pkt[k].tag = t
  BY DEF RetiredTags
<1>5. \A t \in T : t \in StqTag /\ FromHead(t) < StoreCount /\ FromHead(t) >= RetiredCount
  <2>1. T = {i \in StqTag : FromHead(i) >= RetiredCount /\ FromHead(i) < RetiredCount + RetiringCount}
    BY RetiringStores DEF RetiringCount
  <2>2. RetiredCount + RetiringCount <= StoreCount
    BY RetiringStores DEF RetiringCount
  <2>3. RetiredCount \in Nat /\ StoreCount \in Nat /\ RetiringCount \in Nat
    BY PointerTypes, RetiringStores, Sizes DEF RetiringCount
  <2>4. \A i \in StqTag : FromHead(i) \in Nat
    BY StoreAges
  <2> QED
    BY <2>1, <2>2, <2>3, <2>4
<1>6. \A t \in T : stq_entry[t].st \in Stores
  BY <1>5, QueuedStore
<1>7. IsValue(committed[a][b], stq_entry, StAge, memory, RetiredStores, a, b)
  BY DEF CommittedIsValue
<1>8. \A i \in RetiredStores : \A j \in T : StAge[i] <= StAge[j]
  <2>1. RetiredStores = {i \in StqTag : FromHead(i) < RetiredCount}
    BY RetiredAre
  <2>2. RetiredCount \in Nat /\ \A i \in StqTag : FromHead(i) \in Nat /\ StAge[i] = FromHead(i)
    BY PointerTypes, StoreAges
  <2> QED
    BY <1>5, <2>1, <2>2
<1>9. \A k \in K : k \in DOMAIN pkt /\ pkt[k].kind = "st" /\ pkt[k].tag \in W
  BY <1>3 DEF Writers
<1>10. \A t \in W : \E k \in K : pkt[k].tag = t
  <2> TAKE t \in W
  <2>1. t \in T /\ stq_entry[t].st.addr = a /\ b \in stq_entry[t].st.bytes
    BY DEF Writers
  <2>2. PICK k \in DOMAIN pkt : pkt[k].kind = "st" /\ pkt[k].tag = t
    BY <1>4, <2>1
  <2> QED
    BY <2>1, <2>2
<1>11. committed[a][b] \in Val
  BY DEF TypeOK
<1>12. Runs(pkt, "st", StAge, RetiredCount, RetiredCount + RetiringCount)
  BY RetiringStores DEF RetiringCount
<1>13. CASE K = {}
  <2>1. W = {} /\ w = committed[a][b]
    BY <1>10, <1>13
  <2>2. IsValue(w, stq_entry, StAge, memory, RetiredStores \cup T, a, b)
    BY <1>7, <1>8, <2>1, ValueExtends
  <2> QED
    BY <1>1, <1>11, <2>1, <2>2
<1>14. CASE K # {}
  <2> DEFINE m == MaxOf(K)
  <2>1. m \in K /\ \A k \in K : k <= m
    <3>1. K \in SUBSET (0 .. Len(pkt))
      BY <1>2
    <3> HIDE DEF K
    <3> QED
      BY <1>2, <1>14, <3>1, MaxOfIs
  <2>2. pkt[m].tag \in W /\ w = stq_entry[pkt[m].tag].st.val
    BY <1>9, <1>14, <2>1
  <2>3. \A t \in W : StAge[t] <= StAge[pkt[m].tag]
    <3> TAKE t \in W
    <3>1. PICK k \in K : pkt[k].tag = t
      BY <1>10
    <3>2. k \in DOMAIN pkt /\ m \in DOMAIN pkt /\ pkt[k].kind = "st" /\ pkt[m].kind = "st" /\ k <= m
      BY <1>9, <2>1
    <3>3. k < m => StAge[pkt[k].tag] < StAge[pkt[m].tag]
      BY <1>12, <3>2 DEF Runs
    <3> HIDE DEF m, K
    <3>4. k \in Int /\ m \in Int
      BY <1>2, <3>2
    <3>5. StAge[pkt[k].tag] \in Int /\ StAge[pkt[m].tag] \in Int
      BY <1>3, <3>2, StoreAges
    <3> QED
      BY <3>1, <3>2, <3>3, <3>4, <3>5
  <2> HIDE DEF w, m, K, W, T
  <2>4. \E i \in W : (\A j \in W : StAge[j] <= StAge[i]) /\ w = stq_entry[i].st.val
    BY <2>2, <2>3
  <2>5. W # {}
    BY <2>2
  <2>6. IsValue(w, stq_entry, StAge, memory, RetiredStores \cup T, a, b)
    BY <1>7, <1>8, <2>4, <2>5, ValueExtends DEF W
  <2>7. w \in Val
    <3>1. stq_entry[pkt[m].tag].st \in Stores
      BY <1>6, <2>2 DEF W, Writers
    <3> QED
      BY <2>2, <3>1, LsqAssumption
  <2> QED
    BY <1>1, <2>6, <2>7 DEF T
<1> QED
  BY <1>13, <1>14

\* The committed memory after a cycle.
LEMMA CommittedAfter ==
  ASSUME SInv, CommittedIsValue, NEW p \in Ports, NEW x \in Executable, StqStep(x, p.st),
         memory' = next_memory(p), committed' = next_committed
  PROVE  CommittedIsValue' /\ committed' \in [Addr -> [Byte -> Val]]
<1> TypeOK /\ PointersInOrder
  BY DEF SInv
<1> DEFINE S == RetiredStores \cup RetiredTags("st")
<1>1. /\ RetiredStores' = S \ Taken(p)
      /\ \A i \in S \ Taken(p) : Stays(p, i)
      /\ p.st => fire_st \in S
  BY RetiredStoresAfter
<1>2. S \in SUBSET StqTag
  BY RetiredAre
<1>3. ASSUME NEW a \in Addr, NEW b \in Byte
      PROVE  IsValue(committed'[a][b], stq_entry', StAge', memory', RetiredStores', a, b)
  <2>1. IsValue(next_committed[a][b], stq_entry, StAge, memory, S, a, b)
    BY CommittedNext
  <2> HIDE DEF S
  <2>2. IsValue(next_committed[a][b], stq_entry', StAge', memory', S \ Taken(p), a, b)
    BY <1>1, <1>2, <2>1, ValueAfter
  <2> QED
    BY <1>1, <2>2
<1>4. CommittedIsValue'
  BY <1>3 DEF CommittedIsValue
<1>5. committed' \in [Addr -> [Byte -> Val]]
  <2>1. committed' = [a \in Addr |-> [b \in Byte |-> next_committed[a][b]]]
    BY DEF next_committed
  <2>2. \A a \in Addr, b \in Byte : next_committed[a][b] \in Val
    BY CommittedNext
  <2> QED
    BY <2>1, <2>2
<1> QED
  BY <1>4, <1>5

---------------------------------------------------------------------------
(* The entries of the load queue and their types *)

\* The store entries that are in use.
LEMMA ValidStores ==
  ASSUME SInv, NEW i \in StqTag
  PROVE  /\ stq_entry[i].entry_valid <=> FromHead(i) < StoreCount
         /\ stq_entry[i].entry_valid => stq_entry[i].st \in Stores
         /\ stq_entry[i].addr_valid => stq_entry[i].entry_valid
<1> TypeOK /\ PointersInOrder /\ StoreEntries
  BY DEF SInv
<1>1. CASE FromHead(i) < StoreCount
  BY <1>1, QueuedStore
<1>2. CASE ~ (FromHead(i) < StoreCount)
  <2>1. stq_entry[i] = EmptyStore
    BY <1>2 DEF StoreEntries
  <2> QED
    BY <1>2, <2>1 DEF EmptyStore
<1> QED
  BY <1>1, <1>2

\* Data is a function from some bytes to values.
LEMMA DataIs ==
  ASSUME NEW bytes \in (SUBSET Byte) \ {{}}, NEW f \in [bytes -> Val]
  PROVE  f \in Data
  BY DEF Data

\* A load reads some bytes of a word, a store writes some.
LEMMA Accesses ==
  /\ \A ld \in Loads : ld.addr \in Addr /\ ld.bytes \in (SUBSET Byte) \ {{}} /\ ld # None
  /\ \A st \in Stores : st.addr \in Addr /\ st.bytes \in (SUBSET Byte) \ {{}} /\ st.val \in Val /\ st # None
<1>1. /\ Loads \subseteq [addr : Addr, bytes : (SUBSET Byte) \ {{}}]
      /\ Stores \subseteq [addr : Addr, bytes : (SUBSET Byte) \ {{}}, val : Val]
      /\ None \notin Loads \cup Stores
  BY LsqAssumption
<1> QED
  BY <1>1

\* What program order prescribes for a load is data.
LEMMA ExpectedTyped ==
  ASSUME SInv, NEW l \in LoadLanes
  PROVE  /\ Expected(l) \in Data /\ DOMAIN Expected(l) = pipe_rename_pkt[l].bytes
         /\ pipe_rename_pkt[l] \in Loads
<1> TypeOK /\ PointersInOrder
  BY DEF SInv
<1> DEFINE ld == pipe_rename_pkt[l]
<1>1. ld \in Loads /\ l \in Lane
  BY DEF LoadLanes, IsLoad
<1>2. ld.addr \in Addr /\ ld.bytes \in (SUBSET Byte) \ {{}}
  BY <1>1, Accesses
<1> HIDE DEF ld
<1>3. ASSUME NEW a \in Addr, NEW b \in Byte PROVE OlderByte(a, b, l) \in Val
  <2> DEFINE group == {m \in Lane : /\ m < l /\ IsStore(pipe_rename_pkt[m])
                                    /\ pipe_rename_pkt[m].addr = a
                                    /\ b \in pipe_rename_pkt[m].bytes}
             queue == {i \in StqTag : /\ stq_entry[i].entry_valid
                                      /\ stq_entry[i].st.addr = a
                                      /\ b \in stq_entry[i].st.bytes}
             last  == CHOOSE i \in queue : \A j \in queue : FromHead(j) <= FromHead(i)
  <2>1. OlderByte(a, b, l) = IF group # {} THEN pipe_rename_pkt[MaxOf(group)].val
                             ELSE IF queue # {} THEN stq_entry[last].st.val
                             ELSE memory[a][b]
    BY DEF OlderByte
  <2>2. CASE group # {}
    <3>1. group \in SUBSET (0 .. MACHINE_WIDTH) /\ MACHINE_WIDTH \in Nat
      BY Sizes DEF Lane
    <3>2. MaxOf(group) \in group
      <4> HIDE DEF group
      <4> QED
        BY <2>2, <3>1, MaxOfIs
    <3>3. pipe_rename_pkt[MaxOf(group)] \in Stores
      BY <3>2 DEF IsStore
    <3> QED
      BY <2>1, <2>2, <3>3, Accesses
  <2>3. CASE group = {} /\ queue # {}
    <3>1. \E i \in queue : \A j \in queue : FromHead(j) <= FromHead(i)
      <4> DEFINE A == {FromHead(i) : i \in queue}
      <4>1. A \in SUBSET (0 .. (STQ_DEPTH - 1)) /\ A # {} /\ STQ_DEPTH - 1 \in Nat
        BY <2>3, StoreAges, Sizes
      <4>2. PICK y \in A : \A z \in A : z <= y
        BY <4>1, GreatestElement
      <4> QED
        BY <4>2
    <3>2. last \in queue
      BY <3>1
    <3>3. stq_entry[last].st \in Stores
      BY <3>2, ValidStores
    <3> QED
      BY <2>1, <2>3, <3>3, Accesses
  <2>4. CASE group = {} /\ queue = {}
    <3>1. memory \in [Addr -> [Byte -> Val]]
      BY DEF TypeOK
    <3>2. memory[a][b] \in Val
      BY <3>1
    <3> HIDE DEF group, queue, last
    <3> QED
      BY <2>1, <2>4, <3>2, Zenon
  <2> QED
    BY <2>2, <2>3, <2>4
<1>4. Expected(l) = [b \in ld.bytes |-> OlderByte(ld.addr, b, l)]
  BY DEF Expected, ld
<1>5. Expected(l) \in [ld.bytes -> Val]
  BY <1>2, <1>3, <1>4
<1>6. Expected(l) \in Data
  BY <1>2, <1>5, DataIs
<1> QED
  BY <1>1, <1>4, <1>6 DEF ld

\* The mask and the youngest store a load is given name slots.
LEMMA MaskTyped ==
  ASSUME SInv, NEW l \in Lane
  PROVE  dispatch_ldq_st_mask(l) \in SUBSET StqTag /\ dispatch_ldq_st_youngest(l) \in StqTag
<1> TypeOK /\ PointersInOrder
  BY DEF SInv
<1> DEFINE D == STQ_DEPTH
<1>1. D \in Nat \ {0} /\ st_tail.ptr \in 0 .. (D - 1)
  BY Sizes, PointerTypes
<1>2. \A n \in Nat : n % D \in StqTag
  BY <1>1 DEF StqTag
<1>3. dispatch_stq_st_youngest \in StqTag
  <2>1. st_tail.ptr \in StqTag
    BY <1>1 DEF StqTag
  <2>2. (st_tail.ptr + STQ_DEPTH - 1) \in Nat
    BY <1>1
  <2>3. (st_tail.ptr + STQ_DEPTH - 1) % STQ_DEPTH \in StqTag
    BY <1>2, <2>2
  <2> QED
    BY <2>1, <2>3 DEF dispatch_stq_st_youngest
<1>4. dispatch_stq_st_youngest \in Nat
  BY <1>1, <1>3 DEF StqTag
<1>5. \A k \in Int : StoresBefore(k) \in Nat
  <2>1. StoreLanes \in SUBSET Lane
    BY DEF StoreLanes
  <2>2. /\ Cardinality(StoreLanes) \in Nat
        /\ \A k \in Int : Below(k, StoreLanes) \in 0 .. Cardinality(StoreLanes)
    BY <2>1, LanesCounted
  <2>3. \A k : StoresBefore(k) = Below(k, StoreLanes)
    BY LaneCounts DEF TypeOK
  <2> QED
    BY <2>2, <2>3
<1>6. ASSUME NEW k \in Nat PROVE dispatch_ldq_st_youngest(k) \in StqTag
  <2>1. dispatch_stq_st_youngest + StoresBefore(k) \in Nat
    BY <1>4, <1>5
  <2>2. dispatch_stq_st_youngest + StoresBefore(k) + STQ_DEPTH - 1 \in Nat
    BY <1>1, <1>4, <1>5
  <2>3. /\ (dispatch_stq_st_youngest + StoresBefore(k)) % STQ_DEPTH \in StqTag
        /\ (dispatch_stq_st_youngest + StoresBefore(k) + STQ_DEPTH - 1) % STQ_DEPTH \in StqTag
    BY <1>2, <2>1, <2>2
  <2> QED
    BY <2>3 DEF dispatch_ldq_st_youngest
<1>7. Lane \subseteq Nat /\ \A m \in Lane : m + 1 \in Nat
  BY DEF Lane
<1>8. dispatch_ldq_st_mask(l) \in SUBSET StqTag
  BY <1>6, <1>7 DEF dispatch_ldq_st_mask, dispatch_stq_st_mask
<1> QED
  BY <1>6, <1>7, <1>8

\* The lane of a load entry.
LEMMA LoadLaneOf ==
  ASSUME SInv, NEW i \in LdqTag
  PROVE  /\ LdFromHead(i) < LoadCount => LdLane(i) = {}
         /\ LdFromHead(i) >= LoadCount + ld_dispatch_cnt => LdLane(i) = {}
         /\ LdFromHead(i) >= LoadCount /\ LdFromHead(i) < LoadCount + ld_dispatch_cnt =>
              \E l \in LoadLanes : dispatch_ld_resp(l) = i
         /\ \A l \in LoadLanes : dispatch_ld_resp(l) = i =>
              /\ LdLane(i) = {l}
              /\ LdFromHead(i) = LoadCount + LoadsBefore(l)
              /\ LdFromHead(i) >= LoadCount /\ LdFromHead(i) < LoadCount + ld_dispatch_cnt
<1> TypeOK /\ PointersInOrder
  BY DEF SInv
<1>1. LdLane(i) = {l \in LoadLanes : dispatch_ld_resp(l) = i}
  BY DEF LdLane, LoadLanes
<1>2. LoadCount \in Nat /\ ld_dispatch_cnt \in Nat /\ LdFromHead(i) \in Nat
  BY PointerTypes, GroupCounts, LoadAges, Sizes
<1>3. ASSUME NEW l \in LoadLanes, dispatch_ld_resp(l) = i
      PROVE  /\ LdFromHead(i) = LoadCount + LoadsBefore(l)
             /\ LdFromHead(i) >= LoadCount /\ LdFromHead(i) < LoadCount + ld_dispatch_cnt
  <2>1. LoadsBefore(l) \in 0 .. (ld_dispatch_cnt - 1) /\ LdFromHead(i) = LoadCount + LoadsBefore(l)
    BY <1>3, LoadSlots
  <2> QED
    BY <1>2, <2>1
<1>4. \A k, l \in LoadLanes : dispatch_ld_resp(k) = dispatch_ld_resp(l) => k = l
  BY LoadSlots
<1>5. \A l \in LoadLanes : dispatch_ld_resp(l) = i => LdLane(i) = {l}
  BY <1>1, <1>4
<1>6. LdFromHead(i) >= LoadCount /\ LdFromHead(i) < LoadCount + ld_dispatch_cnt =>
        \E l \in LoadLanes : dispatch_ld_resp(l) = i
  BY LoadSlots
<1>7. LdFromHead(i) < LoadCount => LdLane(i) = {}
  BY <1>1, <1>2, <1>3
<1>8. LdFromHead(i) >= LoadCount + ld_dispatch_cnt => LdLane(i) = {}
  BY <1>1, <1>2, <1>3
<1> QED
  BY <1>3, <1>5, <1>6, <1>7, <1>8

\* A load entry that is given to a load, and one that is updated.
AllocatedLoad(e, ld, mask, youngest, expect) ==
  [e EXCEPT !.entry_valid = TRUE, !.ld = ld, !.st_mask = mask, !.st_youngest = youngest,
            !.expect = expect]

UpdatedLoad(e, valid, mask, sleep, fail, fired, data, writebacked) ==
  [e EXCEPT !.addr_valid = valid, !.st_mask = mask, !.sleep = sleep, !.order_fail = fail,
            !.fired = fired, !.data = data, !.writebacked = writebacked]

ClearedLoad(sleep, fail) == [EmptyLoad EXCEPT !.sleep = sleep, !.order_fail = fail]

\* Their fields.
LEMMA AllocatedLoadIs ==
  ASSUME NEW e \in LdqEntry, NEW ld \in Loads \cup {None}, NEW mask \in SUBSET StqTag,
         NEW youngest \in StqTag, NEW expect \in Data \cup {None}
  PROVE  LET f == AllocatedLoad(e, ld, mask, youngest, expect)
         IN  /\ f \in LdqEntry /\ f.entry_valid /\ f.addr_valid = e.addr_valid /\ f.ld = ld
             /\ f.st_mask = mask /\ f.st_youngest = youngest /\ f.sleep = e.sleep
             /\ f.fired = e.fired /\ f.data = e.data /\ f.writebacked = e.writebacked
             /\ f.order_fail = e.order_fail /\ f.expect = expect
  BY DEF AllocatedLoad, LdqEntry

\* Of an updated entry.
LEMMA UpdatedLoadIs ==
  ASSUME NEW e \in LdqEntry, NEW valid \in BOOLEAN, NEW mask \in SUBSET StqTag,
         NEW sleep \in StqTag \cup {None}, NEW fail \in BOOLEAN, NEW fired \in BOOLEAN,
         NEW data \in Data \cup {None}, NEW writebacked \in Data \cup {None}
  PROVE  LET f == UpdatedLoad(e, valid, mask, sleep, fail, fired, data, writebacked)
         IN  /\ f \in LdqEntry /\ f.entry_valid = e.entry_valid /\ f.addr_valid = valid
             /\ f.ld = e.ld /\ f.st_mask = mask /\ f.st_youngest = e.st_youngest
             /\ f.sleep = sleep /\ f.fired = fired /\ f.data = data
             /\ f.writebacked = writebacked /\ f.order_fail = fail /\ f.expect = e.expect
<1> DEFINE g == [e EXCEPT !.addr_valid = valid, !.st_mask = mask, !.sleep = sleep, !.order_fail = fail]
           f == [g EXCEPT !.fired = fired, !.data = data, !.writebacked = writebacked]
<1>1. /\ g \in LdqEntry /\ g.entry_valid = e.entry_valid /\ g.addr_valid = valid
      /\ g.ld = e.ld /\ g.st_mask = mask /\ g.st_youngest = e.st_youngest
      /\ g.sleep = sleep /\ g.order_fail = fail /\ g.expect = e.expect
  BY ZenonT(40) DEF LdqEntry
<1> HIDE DEF g
<1>2. /\ f \in LdqEntry /\ f.entry_valid = g.entry_valid /\ f.addr_valid = g.addr_valid
      /\ f.ld = g.ld /\ f.st_mask = g.st_mask /\ f.st_youngest = g.st_youngest
      /\ f.sleep = g.sleep /\ f.fired = fired /\ f.data = data
      /\ f.writebacked = writebacked /\ f.order_fail = g.order_fail /\ f.expect = g.expect
  BY <1>1 DEF LdqEntry
<1>3. UpdatedLoad(e, valid, mask, sleep, fail, fired, data, writebacked) = f
  BY Zenon DEF UpdatedLoad, g
<1> HIDE DEF f
<1> QED
  BY <1>1, <1>2, <1>3

\* Of a cleared one.
LEMMA ClearedLoadIs ==
  ASSUME NEW sleep \in StqTag \cup {None}, NEW fail \in BOOLEAN
  PROVE  LET f == ClearedLoad(sleep, fail)
         IN  /\ f \in LdqEntry /\ ~f.entry_valid /\ ~f.addr_valid /\ f.ld = None
             /\ f.st_mask = {} /\ f.st_youngest = 0 /\ f.sleep = sleep /\ ~f.fired
             /\ f.data = None /\ f.writebacked = None /\ f.order_fail = fail
             /\ f.expect = None
<1>1. EmptyLoad \in LdqEntry
  BY Sizes DEF EmptyLoad, LdqEntry, StqTag
<1> QED
  BY <1>1 DEF ClearedLoad, EmptyLoad, LdqEntry

\* What the load entry i is updated with.
NextMask(e, p) == IF p.st THEN e.st_mask \ {fire_st} ELSE e.st_mask

NextWriteback(x, p, r, i) ==
  IF Writebacks(x, p.ld, r, i) THEN writeback_data(x, p.ld, r, i) ELSE ldq_entry[i].writebacked

\* Typed.
LEMMA LoadParts ==
  ASSUME SInv, NEW p \in Ports, NEW x \in Executable, NEW r \in Answers, NEW i \in LdqTag
  PROVE  /\ next_sleep(x, p.ld, p.st, i) \in StqTag \cup {None}
         /\ next_order_fail(x, p.ld, i) \in BOOLEAN
         /\ next_fired(x, p.ld, i) \in BOOLEAN
         /\ next_data(x, p.ld, r, i) \in Data \cup {None}
         /\ NextWriteback(x, p, r, i) \in Data \cup {None}
<1> TypeOK
  BY DEF SInv
<1>1. ldq_entry[i] \in LdqEntry /\ fwd \in Forward /\ dcache[i] \in Data \cup {None}
  BY DEF TypeOK
<1>2. /\ ldq_entry[i].sleep \in StqTag \cup {None} /\ ldq_entry[i].order_fail \in BOOLEAN
      /\ ldq_entry[i].fired \in BOOLEAN /\ ldq_entry[i].data \in Data \cup {None}
      /\ ldq_entry[i].writebacked \in Data \cup {None}
      /\ fwd.stq_tag \in StqTag /\ fwd.data \in Data \cup {None}
  BY <1>1 DEF LdqEntry, Forward
<1>3. next_sleep(x, p.ld, p.st, i) \in StqTag \cup {None}
  BY <1>2, Zenon DEF next_sleep
<1>4. next_order_fail(x, p.ld, i) \in BOOLEAN
  BY DEF next_order_fail
<1>5. next_fired(x, p.ld, i) \in BOOLEAN
  BY DEF next_fired
<1>6. next_data(x, p.ld, r, i) \in Data \cup {None}
  BY <1>1, <1>2, Zenon DEF next_data
<1>7. NextWriteback(x, p, r, i) \in Data \cup {None}
  BY <1>1, <1>2, Zenon DEF NextWriteback, writeback_data
<1> QED
  BY <1>3, <1>4, <1>5, <1>6, <1>7

\* The entry of a load of the group.
LEMMA AllocateIs ==
  ASSUME SInv, NEW i \in LdqTag, NEW l \in LoadLanes, dispatch_ld_resp(l) = i
  PROVE  /\ Allocate(i) = AllocatedLoad(ldq_entry[i], pipe_rename_pkt[l], dispatch_ldq_st_mask(l),
                                        dispatch_ldq_st_youngest(l), Expected(l))
         /\ Allocate(i) \in LdqEntry /\ Allocate(i).entry_valid
         /\ Allocate(i).addr_valid = ldq_entry[i].addr_valid
         /\ Allocate(i).ld = pipe_rename_pkt[l]
         /\ Allocate(i).st_mask = dispatch_ldq_st_mask(l)
         /\ Allocate(i).st_youngest = dispatch_ldq_st_youngest(l)
         /\ Allocate(i).writebacked = ldq_entry[i].writebacked
         /\ Allocate(i).expect = Expected(l)
<1> TypeOK
  BY DEF SInv
<1> DEFINE k == CHOOSE m \in LdLane(i) : TRUE
<1>1. k = l
  <2>1. LdLane(i) = {l}
    BY LoadLaneOf
  <2> QED
    BY <2>1
<1>2. Allocate(i) = AllocatedLoad(ldq_entry[i], pipe_rename_pkt[k], dispatch_ldq_st_mask(k),
                                  dispatch_ldq_st_youngest(k), Expected(k))
  BY Zenon DEF Allocate, AllocatedLoad
<1> HIDE DEF k
<1>3. Allocate(i) = AllocatedLoad(ldq_entry[i], pipe_rename_pkt[l], dispatch_ldq_st_mask(l),
                                  dispatch_ldq_st_youngest(l), Expected(l))
  BY <1>1, <1>2, Zenon
<1>4. ldq_entry[i] \in LdqEntry
  BY DEF TypeOK
<1>5. /\ pipe_rename_pkt[l] \in Loads \cup {None} /\ Expected(l) \in Data \cup {None}
      /\ dispatch_ldq_st_mask(l) \in SUBSET StqTag /\ dispatch_ldq_st_youngest(l) \in StqTag
  BY ExpectedTyped, MaskTyped DEF LoadLanes
<1> DEFINE ld == pipe_rename_pkt[l]
           mask == dispatch_ldq_st_mask(l)
           youngest == dispatch_ldq_st_youngest(l)
           expect == Expected(l)
           e == ldq_entry[i]
           f == AllocatedLoad(e, ld, mask, youngest, expect)
<1> HIDE DEF ld, mask, youngest, expect, e
<1>6. /\ f \in LdqEntry /\ f.entry_valid /\ f.addr_valid = e.addr_valid /\ f.ld = ld
      /\ f.st_mask = mask /\ f.st_youngest = youngest
      /\ f.writebacked = e.writebacked /\ f.expect = expect
  BY <1>4, <1>5, AllocatedLoadIs DEF ld, mask, youngest, expect, e
<1> HIDE DEF f
<1>7. Allocate(i) = f
  BY <1>3 DEF f, ld, mask, youngest, expect, e
<1> QED
  BY <1>3, <1>6, <1>7 DEF ld, mask, youngest, expect, e

\* A load entry after a cycle.
LEMMA NextLoadIs ==
  ASSUME SInv, NEW p \in Ports, NEW x \in Executable, NEW r \in Answers, NEW i \in LdqTag,
         NEW e \in LdqEntry, e = IF LdLane(i) # {} THEN Allocate(i) ELSE ldq_entry[i],
         e.writebacked = ldq_entry[i].writebacked
  PROVE  LET f == NextLoad(x, p.ld, p.st, r, i)
         IN  /\ f \in LdqEntry
             /\ i \in RetiredTags("ld") =>
                  f = ClearedLoad(next_sleep(x, p.ld, p.st, i), next_order_fail(x, p.ld, i))
             /\ i \notin RetiredTags("ld") =>
                  /\ f.entry_valid = e.entry_valid
                  /\ f.addr_valid <=> e.addr_valid \/ Executes(x, "ld", i)
                  /\ f.ld = e.ld
                  /\ f.st_mask = NextMask(e, p)
                  /\ f.st_youngest = e.st_youngest
                  /\ f.fired = next_fired(x, p.ld, i)
                  /\ f.data = next_data(x, p.ld, r, i)
                  /\ f.writebacked = NextWriteback(x, p, r, i)
                  /\ f.expect = e.expect
             /\ f.sleep = next_sleep(x, p.ld, p.st, i)
             /\ f.order_fail = next_order_fail(x, p.ld, i)
<1> DEFINE valid == e.addr_valid \/ Executes(x, "ld", i)
           mask == NextMask(e, p)
           sleep == next_sleep(x, p.ld, p.st, i)
           fail == next_order_fail(x, p.ld, i)
           fired == next_fired(x, p.ld, i)
           data == next_data(x, p.ld, r, i)
           wb == NextWriteback(x, p, r, i)
           u == UpdatedLoad(e, valid, mask, sleep, fail, fired, data, wb)
           c == ClearedLoad(sleep, fail)
<1>1. /\ valid \in BOOLEAN /\ mask \in SUBSET StqTag
      /\ sleep \in StqTag \cup {None} /\ fail \in BOOLEAN /\ fired \in BOOLEAN
      /\ data \in Data \cup {None} /\ wb \in Data \cup {None}
  <2>1. mask \in SUBSET StqTag
    BY DEF NextMask, LdqEntry
  <2>2. valid \in BOOLEAN
    OBVIOUS
  <2> QED
    BY <2>1, <2>2, LoadParts
<1>2. NextLoad(x, p.ld, p.st, r, i) =
        IF i \in RetiredTags("ld")
          THEN [EmptyLoad EXCEPT !.sleep = u.sleep, !.order_fail = u.order_fail] ELSE u
  <2> DEFINE d == IF LdLane(i) # {} THEN Allocate(i) ELSE ldq_entry[i]
             y(z) == IF Writebacks(x, p.ld, r, i) THEN writeback_data(x, p.ld, r, i) ELSE z
             w(z) == UpdatedLoad(z, z.addr_valid \/ Executes(x, "ld", i), NextMask(z, p),
                                 sleep, fail, fired, data, y(z.writebacked))
  <2>1. NextLoad(x, p.ld, p.st, r, i) =
          IF i \in RetiredTags("ld")
            THEN [EmptyLoad EXCEPT !.sleep = w(d).sleep, !.order_fail = w(d).order_fail] ELSE w(d)
    BY Zenon DEF NextLoad, UpdatedLoad, NextMask
  <2>2. d = e
    OBVIOUS
  <2>3. y(e.writebacked) = wb
    BY Zenon DEF NextWriteback
  <2> HIDE DEF d, y, sleep, fail, fired, data, wb
  <2>4. w(d) = u
    BY <2>2, <2>3
  <2> HIDE DEF w, u
  <2> QED
    BY <2>1, <2>4, Zenon
<1> HIDE DEF valid, mask, sleep, fail, fired, data, wb
<1>3. /\ u \in LdqEntry /\ u.entry_valid = e.entry_valid /\ u.addr_valid = valid
      /\ u.ld = e.ld /\ u.st_mask = mask /\ u.st_youngest = e.st_youngest
      /\ u.sleep = sleep /\ u.fired = fired /\ u.data = data
      /\ u.writebacked = wb /\ u.order_fail = fail /\ u.expect = e.expect
  BY <1>1, UpdatedLoadIs
<1>4. c \in LdqEntry /\ c.sleep = sleep /\ c.order_fail = fail
  BY <1>1, ClearedLoadIs
<1>5. NextLoad(x, p.ld, p.st, r, i) = IF i \in RetiredTags("ld") THEN c ELSE u
  BY <1>2, <1>3, Zenon DEF ClearedLoad
<1> HIDE DEF u, c
<1>6. CASE i \in RetiredTags("ld")
  <2>1. NextLoad(x, p.ld, p.st, r, i) = c
    BY <1>5, <1>6
  <2>2. c = ClearedLoad(sleep, fail)
    BY DEF c
  <2> QED
    BY <1>4, <1>6, <2>1, <2>2, Zenon DEF sleep, fail
<1>7. CASE i \notin RetiredTags("ld")
  <2>1. NextLoad(x, p.ld, p.st, r, i) = u
    BY <1>5, <1>7
  <2> QED
    BY <1>3, <1>7, <2>1, Zenon DEF valid, mask, sleep, fail, fired, data, wb
<1> QED
  BY <1>6, <1>7

---------------------------------------------------------------------------
(* The load queue in one cycle *)

\* A load that executes is an unexecuted one of the window.
LEMMA ExecutingLoad ==
  ASSUME SInv, NEW x \in Executable, x.kind = "ld"
  PROVE  /\ x.tag \in LdqTag
         /\ LdFromHead(x.tag) >= RetiringLoadCount /\ LdFromHead(x.tag) < LoadCount
         /\ ~ldq_entry[x.tag].addr_valid
         /\ \E k \in DOMAIN window : x = window[k]
<1> TypeOK /\ PointersInOrder
  BY DEF SInv
<1>1. x # NoExec
  BY DEF NoExec
<1>2. PICK k \in DOMAIN window : x = window[k] /\ ~Executed(window[k])
  BY <1>1 DEF Executable
<1>3. x.tag \in LdqTag
  BY <1>2, TagKinds DEF TypeOK
<1>4. LdAge[x.tag] \in RetiringLoadCount .. (LoadCount - 1)
  <2>1. Runs(window, "ld", LdAge, RetiringLoadCount, LoadCount)
    BY RetiringLoads
  <2> QED
    BY <1>2, <2>1 DEF Runs
<1>5. RetiringLoadCount \in Int /\ LoadCount \in Int
  BY RetiringLoads, PointerTypes
<1>6. LdAge[x.tag] = LdFromHead(x.tag) /\ LdFromHead(x.tag) \in Int
  BY <1>3, LoadAges
<1>7. ~ldq_entry[x.tag].addr_valid
  BY <1>2 DEF Executed
<1> QED
  BY <1>2, <1>3, <1>4, <1>5, <1>6, <1>7

\* A load entry after a cycle: what is true of every entry, of those that
\* retire, of those that stay, and of those of the group.
LEMMA LoadAfter ==
  ASSUME SInv, NEW p \in Ports, NEW x \in Executable, NEW r \in Answers, NEW i \in LdqTag,
         ldq_entry' = [k \in LdqTag |-> NextLoad(x, p.ld, p.st, r, k)]
  PROVE  LET f == ldq_entry'[i]
             e == ldq_entry[i]
         IN  /\ f \in LdqEntry
             /\ f.sleep = next_sleep(x, p.ld, p.st, i)
             /\ f.order_fail = next_order_fail(x, p.ld, i)
             /\ LdFromHead(i) < RetiringLoadCount =>
                  f = ClearedLoad(next_sleep(x, p.ld, p.st, i), next_order_fail(x, p.ld, i))
             /\ ~ (LdFromHead(i) < RetiringLoadCount) =>
                  /\ f.addr_valid <=> e.addr_valid \/ Executes(x, "ld", i)
                  /\ f.fired = next_fired(x, p.ld, i)
                  /\ f.data = next_data(x, p.ld, r, i)
                  /\ f.writebacked = NextWriteback(x, p, r, i)
             /\ ~ (LdFromHead(i) < RetiringLoadCount) /\ LdLane(i) = {} =>
                  /\ f.entry_valid = e.entry_valid
                  /\ f.ld = e.ld
                  /\ f.st_mask = NextMask(e, p)
                  /\ f.st_youngest = e.st_youngest
                  /\ f.expect = e.expect
             /\ \A l \in LoadLanes : dispatch_ld_resp(l) = i =>
                  /\ f.entry_valid
                  /\ f.ld = pipe_rename_pkt[l]
                  /\ f.st_mask = dispatch_ldq_st_mask(l) \ Taken(p)
                  /\ f.st_youngest = dispatch_ldq_st_youngest(l)
                  /\ f.expect = Expected(l)
<1> TypeOK /\ PointersInOrder
  BY DEF SInv
<1> DEFINE f == ldq_entry'[i]
<1>1. f = NextLoad(x, p.ld, p.st, r, i)
  OBVIOUS
<1>2. i \in RetiredTags("ld") <=> LdFromHead(i) < RetiringLoadCount
  BY RetiringLoads
<1>3. /\ LoadCount \in Nat /\ ld_dispatch_cnt \in Nat /\ LdFromHead(i) \in Nat
      /\ RetiringLoadCount \in Nat /\ RetiringLoadCount <= LoadCount
  BY PointerTypes, GroupCounts, LoadAges, RetiringLoads, Sizes
<1> HIDE DEF f
<1>4. CASE LdLane(i) = {}
  <2> DEFINE e == ldq_entry[i]
  <2>1. e \in LdqEntry
    BY DEF TypeOK
  <2>2. e = IF LdLane(i) # {} THEN Allocate(i) ELSE ldq_entry[i]
    BY <1>4
  <2>3. e.writebacked = ldq_entry[i].writebacked
    OBVIOUS
  <2>4. \A l \in LoadLanes : dispatch_ld_resp(l) # i
    BY <1>4, LoadLaneOf
  <2> HIDE DEF e
  <2>5. /\ f \in LdqEntry
        /\ i \in RetiredTags("ld") =>
                  f = ClearedLoad(next_sleep(x, p.ld, p.st, i), next_order_fail(x, p.ld, i))
        /\ i \notin RetiredTags("ld") =>
                  /\ f.entry_valid = e.entry_valid
                  /\ f.addr_valid <=> e.addr_valid \/ Executes(x, "ld", i)
                  /\ f.ld = e.ld
                  /\ f.st_mask = NextMask(e, p)
                  /\ f.st_youngest = e.st_youngest
                  /\ f.fired = next_fired(x, p.ld, i)
                  /\ f.data = next_data(x, p.ld, r, i)
                  /\ f.writebacked = NextWriteback(x, p, r, i)
                  /\ f.expect = e.expect
        /\ f.sleep = next_sleep(x, p.ld, p.st, i)
        /\ f.order_fail = next_order_fail(x, p.ld, i)
    BY <1>1, <2>1, <2>2, <2>3, NextLoadIs
  <2> QED
    BY <1>2, <2>4, <2>5, Zenon DEF e, f
<1>5. CASE LdLane(i) # {}
  <2>1. LdFromHead(i) >= LoadCount /\ LdFromHead(i) < LoadCount + ld_dispatch_cnt
    BY <1>3, <1>5, LoadLaneOf
  <2>2. PICK l \in LoadLanes : dispatch_ld_resp(l) = i
    BY <2>1, LoadLaneOf
  <2>3. ~ (LdFromHead(i) < RetiringLoadCount) /\ i \notin RetiredTags("ld")
    BY <1>2, <1>3, <2>1
  <2>4. \A k \in LoadLanes : dispatch_ld_resp(k) = i => k = l
    BY <2>2, LoadSlots
  <2> DEFINE e == Allocate(i)
  <2>5. /\ e \in LdqEntry /\ e.entry_valid
        /\ e.addr_valid = ldq_entry[i].addr_valid
        /\ e.ld = pipe_rename_pkt[l]
        /\ e.st_mask = dispatch_ldq_st_mask(l)
        /\ e.st_youngest = dispatch_ldq_st_youngest(l)
        /\ e.writebacked = ldq_entry[i].writebacked
        /\ e.expect = Expected(l)
    BY <2>2, AllocateIs
  <2>6. e = IF LdLane(i) # {} THEN Allocate(i) ELSE ldq_entry[i]
    BY <1>5
  <2> HIDE DEF e
  <2>7. /\ f \in LdqEntry
        /\ f.entry_valid = e.entry_valid
        /\ f.addr_valid <=> e.addr_valid \/ Executes(x, "ld", i)
        /\ f.ld = e.ld
        /\ f.st_mask = NextMask(e, p)
        /\ f.st_youngest = e.st_youngest
        /\ f.fired = next_fired(x, p.ld, i)
        /\ f.data = next_data(x, p.ld, r, i)
        /\ f.writebacked = NextWriteback(x, p, r, i)
        /\ f.expect = e.expect
        /\ f.sleep = next_sleep(x, p.ld, p.st, i)
        /\ f.order_fail = next_order_fail(x, p.ld, i)
    <3>1. e \in LdqEntry /\ e.writebacked = ldq_entry[i].writebacked
      BY <2>5
    <3>2. /\ f \in LdqEntry
          /\ i \notin RetiredTags("ld") =>
                  /\ f.entry_valid = e.entry_valid
                  /\ f.addr_valid <=> e.addr_valid \/ Executes(x, "ld", i)
                  /\ f.ld = e.ld
                  /\ f.st_mask = NextMask(e, p)
                  /\ f.st_youngest = e.st_youngest
                  /\ f.fired = next_fired(x, p.ld, i)
                  /\ f.data = next_data(x, p.ld, r, i)
                  /\ f.writebacked = NextWriteback(x, p, r, i)
                  /\ f.expect = e.expect
          /\ f.sleep = next_sleep(x, p.ld, p.st, i)
          /\ f.order_fail = next_order_fail(x, p.ld, i)
      BY <1>1, <3>1, <2>6, NextLoadIs
    <3> QED
      BY <2>3, <3>2, Zenon
  <2>8. NextMask(e, p) = dispatch_ldq_st_mask(l) \ Taken(p)
    BY <2>5 DEF NextMask, Taken
  <2>9. /\ f.addr_valid <=> ldq_entry[i].addr_valid \/ Executes(x, "ld", i)
        /\ f.entry_valid
        /\ f.ld = pipe_rename_pkt[l]
        /\ f.st_mask = dispatch_ldq_st_mask(l) \ Taken(p)
        /\ f.st_youngest = dispatch_ldq_st_youngest(l)
        /\ f.expect = Expected(l)
    BY <2>5, <2>7, <2>8, Zenon
  <2> QED
    BY <1>5, <2>3, <2>4, <2>7, <2>9, Zenon DEF f
<1> QED
  BY <1>4, <1>5

\* The load entries in use after a cycle.
LEMMA LoadEntriesAfter ==
  ASSUME SInv, NEW p \in Ports, NEW x \in Executable, NEW r \in Answers, Cycle(x, p, r)
  PROVE  /\ LoadEntries'
         /\ ldq_entry' \in [LdqTag -> LdqEntry]
<1> TypeOK /\ PointersInOrder /\ LoadEntries /\ GroupFits
  BY DEF SInv
<1>1. /\ ldq_entry' = [k \in LdqTag |-> NextLoad(x, p.ld, p.st, r, k)]
      /\ ld_head' = next_ld_head /\ ld_tail' = next_ld_tail
  BY DEF Cycle
<1>2. \A i \in LdqTag : ldq_entry'[i] \in LdqEntry
  BY <1>1, LoadAfter
<1>3. ldq_entry' \in [LdqTag -> LdqEntry]
  BY <1>1, <1>2
<1> DEFINE m == RetiringLoadCount
           cnt == ld_dispatch_cnt
<1>4. /\ LoadCount' = (LoadCount + cnt) - m
      /\ \A i \in LdqTag : LdFromHead(i)' = IF LdFromHead(i) >= m THEN LdFromHead(i) - m
                                                                 ELSE (LdFromHead(i) + LDQ_DEPTH) - m
  BY <1>1, LoadPointersMove
<1>5. /\ LoadCount \in Nat /\ cnt \in Nat /\ m \in Nat /\ m <= LoadCount
      /\ LoadCount + cnt <= LDQ_DEPTH /\ LDQ_DEPTH \in Nat
  BY PointerTypes, GroupCounts, RetiringLoads, Sizes DEF GroupFits
<1>6. ASSUME NEW i \in LdqTag
      PROVE  /\ LdFromHead(i)' < LoadCount' => ldq_entry'[i].entry_valid /\ ldq_entry'[i].ld # None
             /\ ~ (LdFromHead(i)' < LoadCount') => ~ldq_entry'[i].entry_valid /\ ~ldq_entry'[i].addr_valid
  <2>1. LdFromHead(i) \in 0 .. (LDQ_DEPTH - 1)
    BY LoadAges
  <2> HIDE DEF m, cnt
  <2>2. LdFromHead(i)' < LoadCount' <=> LdFromHead(i) >= m /\ LdFromHead(i) < LoadCount + cnt
    BY <1>4, <1>5, <2>1
  <2>3. CASE LdFromHead(i) < m
    <3>1. ldq_entry'[i] = ClearedLoad(next_sleep(x, p.ld, p.st, i), next_order_fail(x, p.ld, i))
      BY <1>1, <2>3, LoadAfter DEF m
    <3>2. ~ldq_entry'[i].entry_valid /\ ~ldq_entry'[i].addr_valid
      BY <3>1, ClearedLoadIs, LoadParts
    <3>3. ~ (LdFromHead(i)' < LoadCount')
      BY <1>5, <2>1, <2>2, <2>3
    <3> QED
      BY <3>2, <3>3
  <2>4. CASE LdFromHead(i) >= m /\ LdFromHead(i) < LoadCount
    <3>1. LdLane(i) = {} /\ ~ (LdFromHead(i) < m)
      BY <1>5, <2>1, <2>4, LoadLaneOf
    <3>2. ldq_entry'[i].entry_valid = ldq_entry[i].entry_valid /\ ldq_entry'[i].ld = ldq_entry[i].ld
      BY <1>1, <3>1, LoadAfter DEF m
    <3>3. ldq_entry[i].entry_valid /\ ldq_entry[i].ld # None
      BY <2>4 DEF LoadEntries
    <3>4. LdFromHead(i)' < LoadCount'
      BY <1>5, <2>1, <2>2, <2>4
    <3> QED
      BY <3>2, <3>3, <3>4
  <2>5. CASE LdFromHead(i) >= LoadCount /\ LdFromHead(i) < LoadCount + cnt
    <3>1. PICK l \in LoadLanes : dispatch_ld_resp(l) = i
      BY <2>5, LoadLaneOf DEF cnt
    <3>2. ldq_entry'[i].entry_valid /\ ldq_entry'[i].ld = pipe_rename_pkt[l]
      BY <1>1, <3>1, LoadAfter
    <3>3. pipe_rename_pkt[l] # None
      BY Accesses DEF LoadLanes, IsLoad
    <3>4. LdFromHead(i)' < LoadCount'
      BY <1>5, <2>1, <2>2, <2>5
    <3> QED
      BY <3>2, <3>3, <3>4
  <2>6. CASE LdFromHead(i) >= LoadCount + cnt
    <3>1. LdLane(i) = {} /\ ~ (LdFromHead(i) < m) /\ ~ (LdFromHead(i) < LoadCount)
      BY <1>5, <2>1, <2>6, LoadLaneOf DEF cnt
    <3>2. /\ ldq_entry'[i].entry_valid = ldq_entry[i].entry_valid
          /\ ldq_entry'[i].addr_valid <=> ldq_entry[i].addr_valid \/ Executes(x, "ld", i)
      BY <1>1, <3>1, LoadAfter DEF m
    <3>3. ~ldq_entry[i].entry_valid /\ ~ldq_entry[i].addr_valid
      BY <3>1 DEF LoadEntries
    <3>4. ~Executes(x, "ld", i)
      BY <3>1, ExecutingLoad DEF Executes
    <3>5. ~ (LdFromHead(i)' < LoadCount')
      BY <1>5, <2>1, <2>2, <2>6
    <3> QED
      BY <3>2, <3>3, <3>4, <3>5
  <2> QED
    BY <1>5, <2>1, <2>3, <2>4, <2>5, <2>6
<1>7. LoadEntries'
  BY <1>6 DEF LoadEntries
<1> QED
  BY <1>3, <1>7

---------------------------------------------------------------------------
(* The answers of the store queue and of the cache, and types *)

\* The store a load is forwarded from matches it.
LEMMA ForwardingStore ==
  ASSUME SInv, fire_ld # None, match # {}
  PROVE  /\ fwd_stq_idx \in match
         /\ \A i \in match : i \in StqTag /\ i \in fire_ld.st_mask /\ stq_entry[i].entry_valid
                             /\ stq_entry[i].addr_valid /\ stq_entry[i].st.addr = fire_ld.ld.addr
                             /\ stq_entry[i].st \in Stores
         /\ LET recent == {i \in match : i <= fire_ld.st_youngest}
            IN  IF recent # {} THEN fwd_stq_idx \in recent /\ \A j \in recent : j <= fwd_stq_idx
                               ELSE \A j \in match : j <= fwd_stq_idx
<1> TypeOK
  BY DEF SInv
<1> DEFINE recent == {i \in match : i <= fire_ld.st_youngest}
<1>1. fire_ld \in Offer
  BY DEF TypeOK
<1>2. match \in SUBSET StqTag
  BY <1>1 DEF match, Offer
<1>3. match \in SUBSET (0 .. STQ_DEPTH) /\ STQ_DEPTH \in Nat
  BY <1>2, Sizes DEF StqTag
<1>4. \A i \in match : i \in StqTag /\ i \in fire_ld.st_mask /\ stq_entry[i].entry_valid
                             /\ stq_entry[i].addr_valid /\ stq_entry[i].st.addr = fire_ld.ld.addr
  BY <1>2 DEF match
<1>5. \A i \in match : stq_entry[i].st \in Stores
  BY <1>4, ValidStores
<1>6. fwd_stq_idx = IF recent # {} THEN MaxOf(recent) ELSE MaxOf(match)
  BY DEF fwd_stq_idx
<1>7. recent \in SUBSET match
  OBVIOUS
<1>8. IF recent # {} THEN fwd_stq_idx \in recent /\ \A j \in recent : j <= fwd_stq_idx
                     ELSE fwd_stq_idx \in match /\ \A j \in match : j <= fwd_stq_idx
  <2> HIDE DEF recent
  <2>1. CASE recent # {}
    <3>1. recent \in SUBSET (0 .. STQ_DEPTH)
      BY <1>3, <1>7
    <3> QED
      BY <1>3, <1>6, <2>1, <3>1, MaxOfIs
  <2>2. CASE recent = {}
    BY <1>3, <1>6, <2>2, MaxOfIs
  <2> QED
    BY <2>1, <2>2
<1>9. fwd_stq_idx \in match
  BY <1>7, <1>8
<1> QED
  BY <1>4, <1>5, <1>8, <1>9

\* The data a store forwards.
Forwarded(ld, st) == [b \in ld.bytes |-> st.val]

\* The answer of the store queue, typed.
LEMMA ForwardTyped ==
  ASSUME SInv, NEW p \in Ports
  PROVE  next_fwd(p.st) \in Forward
<1> TypeOK
  BY DEF SInv
<1> DEFINE i == fwd_stq_idx
           d == Forwarded(fire_ld.ld, stq_entry[i].st)
           yes == [valid |-> TRUE, sleep |-> FALSE, ldq_tag |-> fire_ld.ldq_tag, stq_tag |-> i, data |-> d]
           wait == [valid |-> FALSE, sleep |-> TRUE, ldq_tag |-> fire_ld.ldq_tag, stq_tag |-> i, data |-> None]
<1>1. NoFwd \in Forward
  BY Sizes DEF NoFwd, Forward, LdqTag, StqTag
<1>2. CASE pipe_flush \/ fire_ld = None \/ match = {}
  <2>1. next_fwd(p.st) = NoFwd
    BY <1>2 DEF next_fwd
  <2> QED
    BY <1>1, <2>1
<1>3. CASE ~ (pipe_flush \/ fire_ld = None \/ match = {})
  <2>1. /\ fire_ld \in Offer /\ fire_ld.ldq_tag \in LdqTag /\ fire_ld.ld \in Loads
        /\ i \in StqTag /\ stq_entry[i].st \in Stores
    <3>1. fire_ld \in Offer
      BY <1>3 DEF TypeOK
    <3>2. fire_ld.ldq_tag \in LdqTag /\ fire_ld.ld \in Loads
      BY <3>1 DEF Offer
    <3> QED
      BY <1>3, <3>1, <3>2, ForwardingStore
  <2>2. d \in Data
    <3>1. fire_ld.ld.bytes \in (SUBSET Byte) \ {{}} /\ stq_entry[i].st.val \in Val
      BY <2>1, Accesses
    <3>2. d \in [fire_ld.ld.bytes -> Val]
      BY <3>1 DEF Forwarded
    <3> QED
      BY <3>1, <3>2, DataIs
  <2>3. next_fwd(p.st) \in {NoFwd, yes, wait}
    BY <1>3, Zenon DEF next_fwd, Forwarded
  <2> HIDE DEF i, d
  <2>4. yes \in Forward /\ wait \in Forward
    BY <2>1, <2>2 DEF Forward
  <2> HIDE DEF yes, wait
  <2> QED
    BY <1>1, <2>3, <2>4
<1> QED
  BY <1>2, <1>3

\* A load that wakes up is in its entry.
LEMMA ReadyLoads ==
  ASSUME SInv, NEW x \in Executable, NEW a, NEW i \in LdqTag, ld_wakeup(x, a, i)
  PROVE  /\ LdFromHead(i) < LoadCount /\ ldq_entry[i].entry_valid /\ ldq_entry[i].ld \in Loads
<1> TypeOK /\ PointersInOrder /\ LoadEntries
  BY DEF SInv
<1>1. ldq_entry[i].addr_valid \/ Executes(x, "ld", i)
  BY DEF ld_wakeup
<1>2. LdFromHead(i) < LoadCount
  BY <1>1, ExecutingLoad DEF Executes, LoadEntries
<1>3. ldq_entry[i].entry_valid /\ ldq_entry[i].ld # None
  BY <1>2 DEF LoadEntries
<1>4. ldq_entry[i] \in LdqEntry
  BY DEF TypeOK
<1> QED
  BY <1>2, <1>3, <1>4 DEF LdqEntry

\* The load offered next.
LEMMA NextOffer ==
  ASSUME SInv, NEW x \in Executable, NEW a, next_fire_ld(x, a) # None
  PROVE  \E i \in LdqTag :
           /\ ld_wakeup(x, a, i) /\ ~pipe_flush
           /\ next_fire_ld(x, a) = [ldq_tag |-> i, ld |-> ldq_entry[i].ld,
                                    st_mask |-> ldq_entry[i].st_mask,
                                    st_youngest |-> ldq_entry[i].st_youngest]
           /\ next_fire_ld(x, a) \in Offer
<1> TypeOK
  BY DEF SInv
<1> DEFINE ready == {i \in LdqTag : ld_wakeup(x, a, i)}
           i == MinOf(ready)
           o == [ldq_tag |-> i, ld |-> ldq_entry[i].ld, st_mask |-> ldq_entry[i].st_mask,
                 st_youngest |-> ldq_entry[i].st_youngest]
<1>1. next_fire_ld(x, a) = IF pipe_flush \/ ready = {} THEN None ELSE o
  BY DEF next_fire_ld
<1>2. ready # {} /\ ~pipe_flush /\ next_fire_ld(x, a) = o
  BY <1>1
<1>3. i \in ready
  <2>1. ready \in SUBSET (0 .. LDQ_DEPTH) /\ LDQ_DEPTH \in Nat
    BY Sizes DEF LdqTag
  <2> HIDE DEF ready
  <2> QED
    BY <1>2, <2>1, MinOfIs
<1>4. i \in LdqTag /\ ld_wakeup(x, a, i)
  BY <1>3
<1> HIDE DEF i
<1>5. ldq_entry[i] \in LdqEntry /\ ldq_entry[i].ld \in Loads
  BY <1>4, ReadyLoads DEF TypeOK
<1>6. o \in Offer
  BY <1>4, <1>5 DEF LdqEntry, Offer
<1> HIDE DEF o
<1>7. next_fire_ld(x, a) \in Offer
  BY <1>2, <1>6
<1> QED
  BY <1>2, <1>4, <1>7 DEF o

\* What the cache reads for a load it takes.
Fetched(p) == [b \in fire_ld.ld.bytes |-> next_memory(p)[fire_ld.ld.addr][b]]

\* It is data.
LEMMA FetchTyped ==
  ASSUME SInv, NEW p \in Ports, p.ld, memory' = next_memory(p)
  PROVE  /\ fire_ld \in Offer /\ Fetched(p) \in Data /\ DOMAIN Fetched(p) = fire_ld.ld.bytes
         /\ \A b \in fire_ld.ld.bytes : Fetched(p)[b] = memory'[fire_ld.ld.addr][b]
<1> TypeOK
  BY DEF SInv
<1>1. fire_ld \in Offer
  BY DEF TypeOK, Ports
<1>2. fire_ld.ld \in Loads
  BY <1>1 DEF Offer
<1>3. fire_ld.ld.addr \in Addr /\ fire_ld.ld.bytes \in (SUBSET Byte) \ {{}}
  BY <1>2, Accesses
<1>4. next_memory(p) \in [Addr -> [Byte -> Val]]
  BY MemoryAfter
<1>5. Fetched(p) \in [fire_ld.ld.bytes -> Val]
  BY <1>3, <1>4 DEF Fetched
<1>6. Fetched(p) \in Data
  BY <1>3, <1>5, DataIs
<1> QED
  BY <1>1, <1>5, <1>6 DEF Fetched

\* The answers the cache owes, typed.
LEMMA CacheTyped ==
  ASSUME SInv, NEW p \in Ports, NEW x, NEW r, memory' = next_memory(p)
  PROVE  next_dcache(x, p, r) \in [LdqTag -> Data \cup {None}]
<1> TypeOK
  BY DEF SInv
<1>1. dcache \in [LdqTag -> Data \cup {None}]
  BY DEF TypeOK
<1>2. \A i \in LdqTag : next_dcache(x, p, r)[i] \in {None, Fetched(p), dcache[i]}
                        /\ (~Accepted(p.ld, i) => next_dcache(x, p, r)[i] \in {None, dcache[i]})
  BY Zenon DEF next_dcache, Fetched
<1>3. \A i : Accepted(p.ld, i) => p.ld
  BY DEF Accepted
<1>4. p.ld => Fetched(p) \in Data
  BY FetchTyped
<1>5. \A i \in LdqTag : next_dcache(x, p, r)[i] \in Data \cup {None}
  BY <1>1, <1>2, <1>3, <1>4
<1>6. next_dcache(x, p, r) = [i \in LdqTag |-> next_dcache(x, p, r)[i]]
  BY DEF next_dcache
<1> QED
  BY <1>5, <1>6

\* The state is typed after a cycle.
LEMMA TypedAfter ==
  ASSUME SInv, CommittedIsValue, NEW p \in Ports, NEW x \in Executable, NEW r \in Answers,
         Cycle(x, p, r), NEW misp \in BOOLEAN, NEW n \in Retirable(misp),
         NEW g \in Renamed(p, n, misp), Advance(g, n, misp)
  PROVE  TypeOK'
<1> TypeOK /\ PointersInOrder
  BY DEF SInv
<1>1. /\ StqStep(x, p.st) /\ memory' = next_memory(p) /\ committed' = next_committed
      /\ fire_ld' = next_fire_ld(x, p.ld) /\ dcache' = next_dcache(x, p, r)
      /\ fwd' = next_fwd(p.st)
  BY DEF Cycle, StqStep
<1>2. stq_entry' \in [StqTag -> StqEntry]
  BY <1>1, StoreEntriesAfter
<1>3. /\ {st_head, st_tail, st_retired}' \subseteq Pointer(STQ_DEPTH)
      /\ {ld_head, ld_tail}' \subseteq Pointer(LDQ_DEPTH)
  BY PointersAfter
<1>4. ldq_entry' \in [LdqTag -> LdqEntry]
  BY LoadEntriesAfter
<1>5. fire_st' \in StqTag \cup {None}
  BY <1>1, OfferAfter
<1>6. fire_ld' \in Offer \cup {None}
  BY <1>1, NextOffer
<1>7. fwd' \in Forward
  BY <1>1, ForwardTyped
<1>8. pipe_rename_pkt' \in Group
  BY GroupAfter
<1>9. /\ window' \in Seq(Instruction) /\ Len(window') <= ROB_DEPTH
      /\ pipe_retire_pkt' \in Seq(Instruction) /\ Len(pipe_retire_pkt') <= MACHINE_WIDTH
  BY WindowAfter
<1>10. pipe_flush' \in BOOLEAN
  BY DEF Advance
<1>11. dcache' \in [LdqTag -> Data \cup {None}]
  BY <1>1, CacheTyped
<1>12. memory' \in [Addr -> [Byte -> Val]] /\ committed' \in [Addr -> [Byte -> Val]]
  BY <1>1, MemoryAfter, CommittedAfter
<1>13. {memory, committed}' \subseteq [Addr -> [Byte -> Val]]
  BY <1>12
<1>14. (pipe_rename_pkt \in Group)'
  BY <1>8 DEF Group
<1> QED
  BY <1>2, <1>3, <1>4, <1>5, <1>6, <1>7, <1>9, <1>10, <1>11, <1>13, <1>14 DEF TypeOK

---------------------------------------------------------------------------
(* Reset and flush *)

\* A group of nothing, an empty window, an empty load queue.
LEMMA NothingAtAll ==
  /\ NoGroup \in Group
  /\ <<>> \in Seq(Instruction) /\ Len(<<>>) = 0 /\ <<>> \o <<>> = <<>>
  /\ EmptyLoad \in LdqEntry /\ EmptyStore \in StqEntry
  /\ Zero \in Pointer(STQ_DEPTH) /\ Zero \in Pointer(LDQ_DEPTH)
  /\ NoFwd \in Forward
  /\ \A age, kind : Runs(<<>>, kind, age, 0, 0)
<1>1. STQ_DEPTH \in Nat \ {0} /\ LDQ_DEPTH \in Nat \ {0}
  BY Sizes
<1>2. 0 \in StqTag /\ 0 \in LdqTag /\ 0 \in 0 .. (STQ_DEPTH - 1) /\ 0 \in 0 .. (LDQ_DEPTH - 1)
  BY <1>1 DEF StqTag, LdqTag
<1>3. NoGroup \in Group
  BY DEF NoGroup, Group
<1>4. <<>> \in Seq(Instruction) /\ Len(<<>>) = 0 /\ <<>> \o <<>> = <<>>
  OBVIOUS
<1>5. EmptyLoad \in LdqEntry
  BY <1>2 DEF EmptyLoad, LdqEntry
<1>6. EmptyStore \in StqEntry
  BY DEF EmptyStore, StqEntry
<1>7. Zero \in Pointer(STQ_DEPTH) /\ Zero \in Pointer(LDQ_DEPTH)
  BY <1>2 DEF Zero, Pointer
<1>8. NoFwd \in Forward
  BY <1>2 DEF NoFwd, Forward
<1>9. ASSUME NEW age, NEW kind PROVE Runs(<<>>, kind, age, 0, 0)
  <2>1. DOMAIN <<>> = {} /\ 0 .. (0 - 1) = {}
    OBVIOUS
  <2> QED
    BY <2>1 DEF Runs
<1> QED
  BY <1>3, <1>4, <1>5, <1>6, <1>7, <1>8, <1>9

NoLoads == ldq_entry = [i \in LdqTag |-> EmptyLoad] /\ ld_head = Zero /\ ld_tail = Zero

\* A load queue without a load.
LEMMA EmptyLoads == NoLoads => LoadEntries /\ LoadCount = 0
<1> USE DEF NoLoads
<1> SUFFICES ASSUME ldq_entry = [i \in LdqTag |-> EmptyLoad], ld_head = Zero, ld_tail = Zero
             PROVE  LoadEntries /\ LoadCount = 0
  OBVIOUS
<1>1. ~EmptyLoad.entry_valid /\ ~EmptyLoad.addr_valid
  BY DEF EmptyLoad
<1>2. LoadCount = 0 /\ ld_head.ptr = 0
  BY DEF LoadCount, Distance, Zero
<1>3. ASSUME NEW i \in LdqTag PROVE ~ (LdFromHead(i) < LoadCount)
  <2>0. LDQ_DEPTH \in Nat \ {0} /\ 0 \in 0 .. (LDQ_DEPTH - 1) /\ i \in 0 .. (LDQ_DEPTH - 1)
    BY Sizes DEF LdqTag
  <2>1. LdFromHead(i) \in 0 .. (LDQ_DEPTH - 1)
    BY <1>2, <2>0, AgeIs DEF LdFromHead
  <2> QED
    BY <1>2, <2>1
<1> QED
  BY <1>1, <1>2, <1>3 DEF LoadEntries

\* Its entries after a flush.
LEMMA FlushedLoads ==
  NoLoads' => (LoadEntries /\ LoadCount = 0)'
  BY EmptyLoads, PTL

\* An empty store queue.
LEMMA EmptyStores ==
  ASSUME stq_entry = [i \in StqTag |-> EmptyStore],
         st_head = Zero, st_tail = Zero, st_retired = Zero
  PROVE  StoreEntries /\ StoreCount = 0 /\ RetiredCount = 0 /\ RetiredStores = {}
<1>1. ~EmptyStore.entry_valid
  BY DEF EmptyStore
<1>2. StoreCount = 0 /\ RetiredCount = 0 /\ st_head.ptr = 0
  BY DEF StoreCount, RetiredCount, Distance, Zero
<1>3. ASSUME NEW i \in StqTag PROVE ~ (FromHead(i) < StoreCount)
  <2>0. STQ_DEPTH \in Nat \ {0} /\ 0 \in 0 .. (STQ_DEPTH - 1) /\ i \in 0 .. (STQ_DEPTH - 1)
    BY Sizes DEF StqTag
  <2>1. AgeOf(st_head.ptr, i, STQ_DEPTH) \in 0 .. (STQ_DEPTH - 1)
    BY <1>2, <2>0, AgeIs
  <2> QED
    BY <1>2, <2>1 DEF FromHead, AgeOf
<1>4. RetiredStores = {}
  BY <1>1 DEF RetiredStores
<1> QED
  BY <1>2, <1>3, <1>4 DEF StoreEntries

\* The inductive invariant.
RInv == SInv /\ CommittedIsValue

\* It holds at reset.
LEMMA ResetHolds == Init => RInv
<1> SUFFICES ASSUME Init PROVE RInv
  OBVIOUS
<1> USE DEF Init
<1>1. StoreEntries /\ StoreCount = 0 /\ RetiredCount = 0 /\ RetiredStores = {}
  BY EmptyStores
<1>2. LoadEntries /\ LoadCount = 0
  BY EmptyLoads DEF NoLoads
<1>3. MACHINE_WIDTH \in Nat \ {0} /\ STQ_DEPTH \in Nat \ {0} /\ LDQ_DEPTH \in Nat \ {0}
      /\ ROB_DEPTH \in Nat
  BY Sizes, LsqAssumption
<1>4. st_dispatch_cnt = 0 /\ ld_dispatch_cnt = 0 /\ Len(Dispatched) = 0
  BY NothingDispatched
<1>5. TypeOK
  <2>1. stq_entry \in [StqTag -> StqEntry] /\ ldq_entry \in [LdqTag -> LdqEntry]
    BY NothingAtAll
  <2>2. {st_head, st_tail, st_retired} \subseteq Pointer(STQ_DEPTH)
        /\ {ld_head, ld_tail} \subseteq Pointer(LDQ_DEPTH)
    BY NothingAtAll
  <2>3. fwd \in Forward /\ pipe_rename_pkt \in Group
    BY NothingAtAll
  <2>4. window \in Seq(Instruction) /\ Len(window) = 0 /\ Len(window) <= ROB_DEPTH
        /\ pipe_retire_pkt \in Seq(Instruction) /\ Len(pipe_retire_pkt) <= MACHINE_WIDTH
    BY <1>3, NothingAtAll
  <2>5. InitVal \in Val
    BY LsqAssumption
  <2>6. memory \in [Addr -> [Byte -> Val]] /\ committed \in [Addr -> [Byte -> Val]]
    BY <2>5
  <2>7. {memory, committed} \subseteq [Addr -> [Byte -> Val]]
    BY <2>6
  <2>8. dcache \in [LdqTag -> Data \cup {None}]
    OBVIOUS
  <2>9. fire_st \in StqTag \cup {None} /\ fire_ld \in Offer \cup {None} /\ pipe_flush \in BOOLEAN
    OBVIOUS
  <2> QED
    BY <2>1, <2>2, <2>3, <2>4, <2>7, <2>8, <2>9 DEF TypeOK
<1>6. PointersInOrder
  BY <1>1, <1>2, <1>3 DEF PointersInOrder
<1>7. OffersHead
  BY DEF OffersHead
<1>8. GroupFits
  <2>1. Len(window) = 0
    BY NothingAtAll
  <2> QED
    BY <1>1, <1>2, <1>3, <1>4, <2>1 DEF GroupFits
<1>9. Unsettled = <<>>
  BY NothingAtAll DEF Unsettled
<1>10. StoresInOrder /\ LoadsInOrder
  BY <1>1, <1>2, <1>9, NothingAtAll DEF StoresInOrder, LoadsInOrder
<1>11. StoresComplete
  <2>1. DOMAIN pipe_retire_pkt = {}
    OBVIOUS
  <2> QED
    BY <2>1 DEF StoresComplete
<1>12. CommittedIsValue
  BY <1>1 DEF CommittedIsValue, IsValue, Writers
<1> QED
  BY <1>1, <1>2, <1>5, <1>6, <1>7, <1>8, <1>10, <1>11, <1>12 DEF RInv, SInv

\* A cycle without a flush keeps it.
LEMMA CycleHolds ==
  ASSUME RInv, NEW p \in Ports, NEW x \in Executable, NEW r \in Answers,
         Cycle(x, p, r), NEW misp \in BOOLEAN, NEW n \in Retirable(misp),
         NEW g \in Renamed(p, n, misp), Advance(g, n, misp)
  PROVE  RInv'
<1> SInv /\ CommittedIsValue
  BY DEF RInv
<1>1. StqStep(x, p.st) /\ memory' = next_memory(p) /\ committed' = next_committed
  BY DEF Cycle
<1>2. TypeOK' /\ PointersInOrder'
  BY TypedAfter, PointersAfter
<1>3. StoreEntries' /\ LoadEntries'
  BY <1>1, StoreEntriesAfter, LoadEntriesAfter
<1>4. OffersHead' /\ GroupFits'
  BY <1>1, OfferAfter, GroupAfter
<1>5. StoresInOrder' /\ LoadsInOrder' /\ StoresComplete'
  BY InOrderAfter, CompleteAfter
<1>6. CommittedIsValue'
  BY <1>1, CommittedAfter
<1> QED
  BY <1>2, <1>3, <1>4, <1>5, <1>6 DEF RInv, SInv

\* A flush keeps it.
LEMMA FlushHolds ==
  ASSUME RInv, NEW p \in Ports, FlushCycle(p)
  PROVE  RInv'
<1> SInv /\ CommittedIsValue
  BY DEF RInv
<1> TypeOK /\ PointersInOrder /\ GroupFits
  BY DEF SInv
<1>1. /\ pipe_flush /\ StqStep(NoExec, p.st)
      /\ memory' = next_memory(p) /\ committed' = next_committed
      /\ ld_head' = Zero /\ ld_tail' = Zero /\ ldq_entry' = [i \in LdqTag |-> EmptyLoad]
      /\ fire_ld' = None /\ pipe_rename_pkt' = NoGroup /\ window' = <<>>
      /\ pipe_retire_pkt' = <<>> /\ pipe_flush' = FALSE /\ dcache' = [i \in LdqTag |-> None]
  BY DEF FlushCycle
<1>2. NoExec \in Executable
  BY DEF Executable
<1>3. StoreEntries' /\ stq_entry' \in [StqTag -> StqEntry]
  BY <1>1, <1>2, StoreEntriesAfter
<1>4. LoadEntries' /\ LoadCount' = 0
  <2>1. NoLoads'
    BY <1>1 DEF NoLoads
  <2> QED
    BY <2>1, FlushedLoads
<1>5. /\ st_head' \in Pointer(STQ_DEPTH) /\ st_tail' \in Pointer(STQ_DEPTH)
      /\ st_retired' \in Pointer(STQ_DEPTH)
      /\ RetiredCount' = (RetiredCount + RetiringCount) - Leaving(p)
      /\ StoreCount' = (RetiredCount + RetiringCount) - Leaving(p)
  BY <1>1, StorePointersMove
<1>6. RetiredCount' = StoreCount' /\ StoreCount' \in 0 .. STQ_DEPTH
  <2>1. /\ RetiredCount \in 0 .. STQ_DEPTH /\ StoreCount \in 0 .. STQ_DEPTH
        /\ RetiringCount \in Nat /\ RetiredCount + RetiringCount <= StoreCount
        /\ Leaving(p) \in {0, 1} /\ Leaving(p) <= RetiredCount /\ STQ_DEPTH \in Nat
    BY PointerTypes, RetiringStores, TakenIsHead, Sizes DEF RetiringCount
  <2>2. (RetiredCount + RetiringCount) - Leaving(p) \in 0 .. STQ_DEPTH
    BY <2>1
  <2> QED
    BY <1>5, <2>2
<1>7. /\ MACHINE_WIDTH \in Nat \ {0} /\ STQ_DEPTH \in Nat \ {0} /\ LDQ_DEPTH \in Nat \ {0}
      /\ ROB_DEPTH \in Nat
  BY Sizes, LsqAssumption
<1>8. OffersHead' /\ fire_st' \in StqTag \cup {None}
  BY <1>1, OfferAfter
<1>9. CommittedIsValue' /\ committed' \in [Addr -> [Byte -> Val]]
  BY <1>1, <1>2, CommittedAfter
<1>10. TypeOK'
  <2>1. {st_head, st_tail, st_retired}' \subseteq Pointer(STQ_DEPTH)
        /\ {ld_head, ld_tail}' \subseteq Pointer(LDQ_DEPTH)
    BY <1>1, <1>5, NothingAtAll
  <2>2. ldq_entry' \in [LdqTag -> LdqEntry]
    BY <1>1, NothingAtAll
  <2>3. fwd' \in Forward
    BY <1>1, ForwardTyped DEF StqStep
  <2>4. pipe_rename_pkt' \in Group
    BY <1>1, NothingAtAll
  <2>5. window' \in Seq(Instruction) /\ Len(window') <= ROB_DEPTH
        /\ pipe_retire_pkt' \in Seq(Instruction) /\ Len(pipe_retire_pkt') <= MACHINE_WIDTH
    BY <1>1, <1>7, NothingAtAll
  <2>6. memory' \in [Addr -> [Byte -> Val]]
    BY <1>1, MemoryAfter
  <2>7. {memory, committed}' \subseteq [Addr -> [Byte -> Val]]
    BY <1>9, <2>6
  <2>8. fire_ld' \in Offer \cup {None} /\ pipe_flush' \in BOOLEAN
        /\ dcache' \in [LdqTag -> Data \cup {None}]
    BY <1>1
  <2>9. (pipe_rename_pkt \in Group)'
    BY <2>4 DEF Group
  <2> QED
    BY <1>3, <1>8, <2>1, <2>2, <2>3, <2>5, <2>7, <2>8, <2>9 DEF TypeOK
<1>11. PointersInOrder'
  BY <1>4, <1>6, <1>7 DEF PointersInOrder
<1>12. GroupFits'
  <2>1. (st_dispatch_cnt = 0 /\ ld_dispatch_cnt = 0 /\ Len(Dispatched) = 0)'
    BY <1>1, NextGroupSizes DEF NoGroup
  <2>2. Len(window') = 0
    BY <1>1
  <2>3. /\ StoreCount' + st_dispatch_cnt' <= STQ_DEPTH
        /\ LoadCount' + ld_dispatch_cnt' <= LDQ_DEPTH
        /\ Len(window') + Len(Dispatched)' <= ROB_DEPTH
    <3>1. \A a, b, d \in Int : a = 0 /\ b <= d => b + a <= d
      OBVIOUS
    <3>2. StoreCount' \in Int /\ LoadCount' \in Int /\ Len(window') \in Int
          /\ StoreCount' <= STQ_DEPTH /\ LoadCount' <= LDQ_DEPTH /\ Len(window') <= ROB_DEPTH
          /\ STQ_DEPTH \in Int /\ LDQ_DEPTH \in Int /\ ROB_DEPTH \in Int
      BY <1>4, <1>6, <1>7, <2>2
    <3>3. /\ st_dispatch_cnt' \in Int /\ ld_dispatch_cnt' \in Int /\ Len(Dispatched)' \in Int
          /\ st_dispatch_cnt' = 0 /\ ld_dispatch_cnt' = 0 /\ Len(Dispatched)' = 0
      BY <2>1
    <3> QED
      BY <3>1, <3>2, <3>3
  <2> QED
    BY <1>1, <2>3 DEF GroupFits
<1>13. Unsettled' = <<>>
  BY <1>1, NothingAtAll DEF Unsettled
<1>14. StoresInOrder' /\ LoadsInOrder'
  <2>1. \A age, kind, c : c \in Int => Runs(<<>>, kind, age, c, c)
    <3> TAKE age, kind, c
    <3> SUFFICES ASSUME c \in Int PROVE Runs(<<>>, kind, age, c, c)
      OBVIOUS
    <3>1. DOMAIN <<>> = {} /\ c .. (c - 1) = {}
      OBVIOUS
    <3> QED
      BY <3>1 DEF Runs
  <2>2. StoreCount' \in Int /\ 0 \in Int
    BY <1>6
  <2> QED
    BY <1>4, <1>6, <1>13, <2>1, <2>2 DEF StoresInOrder, LoadsInOrder
<1>15. StoresComplete'
  <2>1. DOMAIN pipe_retire_pkt' = {}
    BY <1>1
  <2> QED
    BY <2>1 DEF StoresComplete
<1> QED
  BY <1>3, <1>4, <1>8, <1>9, <1>10, <1>11, <1>12, <1>14, <1>15 DEF RInv, SInv

\* Nothing changes it while nothing changes.
LEMMA StutterHolds == ASSUME RInv, UNCHANGED vars PROVE RInv'
<1>1. /\ UNCHANGED <<stq_entry, st_head, st_tail, st_retired, ldq_entry, ld_head, ld_tail>>
      /\ UNCHANGED <<fire_st, fire_ld, fwd, pipe_rename_pkt, window, pipe_retire_pkt>>
      /\ UNCHANGED <<pipe_flush, dcache, memory, committed>>
  BY DEF vars, stq_vars, ldq_vars, env_vars
<1>2. TypeOK'
  BY <1>1 DEF RInv, SInv, TypeOK, Group
<1>3. /\ UNCHANGED <<RetiredCount, StoreCount, LoadCount, Unsettled>>
      /\ \A i : FromHead(i)' = FromHead(i) /\ LdFromHead(i)' = LdFromHead(i)
  BY <1>1 DEF RetiredCount, StoreCount, LoadCount, Unsettled, FromHead, LdFromHead
<1>4. StAge' = StAge /\ LdAge' = LdAge
  BY <1>3 DEF StAge, LdAge
<1>5. UNCHANGED <<st_dispatch_cnt, ld_dispatch_cnt, Dispatched, RetiredStores>>
  BY <1>1 DEF st_dispatch_cnt, ld_dispatch_cnt, Dispatched, RetiredStores, StoresBefore,
              LoadsBefore, IsStore, IsLoad, dispatch_st_resp, dispatch_ld_resp
<1>6. PointersInOrder' /\ StoreEntries' /\ LoadEntries' /\ OffersHead'
  BY <1>1, <1>3 DEF RInv, SInv, PointersInOrder, StoreEntries, LoadEntries, OffersHead
<1>7. GroupFits'
  BY <1>1, <1>3, <1>5 DEF RInv, SInv, GroupFits
<1>8. StoresInOrder' /\ LoadsInOrder' /\ StoresComplete'
  BY <1>1, <1>3, <1>4 DEF RInv, SInv, StoresInOrder, LoadsInOrder, StoresComplete
<1>9. CommittedIsValue'
  BY <1>1, <1>4, <1>5 DEF RInv, CommittedIsValue
<1> QED
  BY <1>2, <1>6, <1>7, <1>8, <1>9 DEF RInv, SInv

\* RInv is an invariant.
LEMMA QueueInvariant == Spec => []RInv
<1>1. RInv /\ [Next]_vars => RInv'
  <2> SUFFICES ASSUME RInv, [Next]_vars PROVE RInv'
    OBVIOUS
  <2>1. CASE UNCHANGED vars
    BY <2>1, StutterHolds
  <2>2. ASSUME NEW p \in Ports, FlushCycle(p) PROVE RInv'
    BY <2>2, FlushHolds
  <2>3. ASSUME NEW p \in Ports, NEW x \in Executable, NEW r \in Answers, Cycle(x, p, r),
               NEW misp \in BOOLEAN, NEW n \in Retirable(misp),
               NEW g \in Renamed(p, n, misp), Advance(g, n, misp)
        PROVE  RInv'
    BY <2>3, CycleHolds
  <2> QED
    BY <2>1, <2>2, <2>3 DEF Next, Step
<1> QED
  BY ResetHolds, <1>1, PTL DEF Spec

\* The state of both queues, of the offers and answers and of the pipeline and
\* cache around them stays in its ranges: no pointer leaves its queue, and no
\* group is dispatched into a full one.
THEOREM QueuesTyped == Spec => []TypeOK
<1>1. RInv => TypeOK
  BY DEF RInv, SInv
<1> QED
  BY <1>1, QueueInvariant, PTL

\* Memory followed by the retired stores still queued is what the retired stores
\* make of it in program order, across flushes.
THEOREM RetiredStoresSurvive == Spec => []RetiredStoresReachMemory
<1>1. RInv => RetiredStoresReachMemory
  <2> SUFFICES ASSUME RInv, NEW a \in Addr, NEW b \in Byte
               PROVE  LET queued == {i \in StqTag : /\ stq_entry[i].entry_valid /\ stq_entry[i].retired
                                                    /\ stq_entry[i].st.addr = a
                                                    /\ b \in stq_entry[i].st.bytes}
                          last == CHOOSE i \in queued : \A j \in queued : FromHead(j) <= FromHead(i)
                      IN  committed[a][b] = IF queued = {} THEN memory[a][b]
                                                           ELSE stq_entry[last].st.val
    BY DEF RetiredStoresReachMemory
  <2> SInv /\ CommittedIsValue /\ TypeOK /\ PointersInOrder
    BY DEF RInv, SInv
  <2> DEFINE queued == {i \in StqTag : /\ stq_entry[i].entry_valid /\ stq_entry[i].retired
                                       /\ stq_entry[i].st.addr = a /\ b \in stq_entry[i].st.bytes}
             last == CHOOSE i \in queued : \A j \in queued : FromHead(j) <= FromHead(i)
  <2>1. queued = Writers(stq_entry, RetiredStores, a, b)
    BY DEF Writers, RetiredStores
  <2>2. IsValue(committed[a][b], stq_entry, StAge, memory, RetiredStores, a, b)
    BY DEF CommittedIsValue
  <2>3. /\ \A i \in queued : i \in StqTag /\ FromHead(i) \in Int /\ StAge[i] = FromHead(i)
        /\ \A i, j \in queued : FromHead(i) = FromHead(j) => i = j
    BY StoreAges
  <2> HIDE DEF queued
  <2>4. ASSUME queued = {} PROVE committed[a][b] = memory[a][b]
    BY <2>1, <2>2, <2>4 DEF IsValue
  <2>5. ASSUME queued # {} PROVE committed[a][b] = stq_entry[last].st.val
    <3>1. PICK k \in queued : (\A j \in queued : StAge[j] <= StAge[k]) /\ committed[a][b] = stq_entry[k].st.val
      BY <2>1, <2>2, <2>5 DEF IsValue
    <3>2. k \in queued /\ \A j \in queued : FromHead(j) <= FromHead(k)
      BY <2>3, <3>1
    <3>3. last \in queued /\ \A j \in queued : FromHead(j) <= FromHead(last)
      BY <3>2
    <3>4. FromHead(last) = FromHead(k)
      BY <2>3, <3>2, <3>3
    <3>5. last = k
      BY <2>3, <3>2, <3>3, <3>4
    <3> QED
      BY <3>1, <3>5
  <2> QED
    BY <2>4, <2>5 DEF queued
<1> QED
  BY <1>1, QueueInvariant, PTL

---------------------------------------------------------------------------
(* The loads: what the invariant says of them *)

\* The store queue has an answer for load i, or its conflict.
Awaited(i) == FwdValid(i) \/ FwdSleep(i)

\* What the older stores of load i leave of it that can be seen.
View(i) == ldq_entry[i].st_mask \cap stq_addr_valid

\* f is what the stores of S and memory make of the bytes of ld.
ValuesOf(f, ent, age, mem, S, ld) ==
  /\ f \in Data /\ DOMAIN f = ld.bytes
  /\ \A b \in ld.bytes : IsValue(f[b], ent, age, mem, S, ld.addr, b)

\* The same of the queue and the memory as they are.
HasValues(f, S, ld) == ValuesOf(f, stq_entry, StAge, memory, S, ld)

\* The older stores of a load are the oldest n of the queue, the last of them
\* its youngest.
Bound(i, n) ==
  /\ ldq_entry[i].st_mask = {j \in StqTag : FromHead(j) < n}
  /\ n > 0 => FromHead(ldq_entry[i].st_youngest) = n - 1

\* Every load has such a bound, and the retired stores are within it.
MasksBounded ==
  \A i \in LdqTag : LdFromHead(i) < LoadCount => \E n \in RetiredCount .. StoreCount : Bound(i, n)

\* They are the stores before it in program order.
MasksInOrder ==
  \A j, k \in DOMAIN Unsettled :
    Unsettled[j].kind = "st" /\ Unsettled[k].kind = "ld" =>
      (j < k <=> Unsettled[j].tag \in ldq_entry[Unsettled[k].tag].st_mask)

\* An entry without a load has no store before it.
IdleMasks ==
  \A i \in LdqTag : ~ (LdFromHead(i) < LoadCount) => ldq_entry[i].st_mask = {}

\* Only a load with its address has been sent or is marked.
LoadsMarked ==
  \A i \in LdqTag : ldq_entry[i].fired \/ ldq_entry[i].order_fail => ldq_entry[i].addr_valid

\* A load that retires has been written back.
LoadsComplete ==
  \A k \in DOMAIN pipe_retire_pkt :
    pipe_retire_pkt[k].kind = "ld" => ldq_entry[pipe_retire_pkt[k].tag].writebacked # None

\* What program order prescribes for a load: the stores before it, then memory.
Expectation ==
  \A i \in LdqTag : LdFromHead(i) < LoadCount =>
    HasValues(ldq_entry[i].expect, ldq_entry[i].st_mask, ldq_entry[i].ld)

\* A load with data has its address and no mark.
LoadsAnswered ==
  \A i \in LdqTag : ldq_entry[i].data # None =>
    ldq_entry[i].addr_valid /\ ~ldq_entry[i].order_fail

\* The cache owes an answer only to a load that was sent and has none.
LoadsOwed ==
  \A i \in LdqTag : dcache[i] # None =>
    /\ ldq_entry[i].addr_valid /\ ldq_entry[i].data = None
    /\ ldq_entry[i].fired /\ ~ldq_entry[i].order_fail

\* The load on offer has no data and has not been sent.  Of the stores it was
\* offered with, those still in the queue are those before it.
OffersLoad ==
  fire_ld # None =>
    LET i == fire_ld.ldq_tag
    IN  /\ ldq_entry[i].addr_valid /\ ldq_entry[i].data = None /\ ~ldq_entry[i].fired
        /\ fire_ld.ld = ldq_entry[i].ld
        /\ fire_ld.st_youngest = ldq_entry[i].st_youngest
        /\ {j \in fire_ld.st_mask : stq_entry[j].entry_valid} = ldq_entry[i].st_mask

\* The store queue answers no load that retires; a load it puts to sleep, it
\* puts to sleep on a store before it.
ForwardsLoad ==
  \A i \in LdqTag : Awaited(i) =>
    /\ ldq_entry[i].addr_valid /\ i \notin RetiredTags("ld")
    /\ FwdValid(i) => fwd.data # None
    /\ FwdSleep(i) => ~FwdValid(i) /\ fwd.stq_tag \in ldq_entry[i].st_mask

\* A load is written back with the addresses of all stores before it known.
LoadsSettled ==
  \A i \in LdqTag : ldq_entry[i].writebacked # None =>
    /\ ldq_entry[i].data # None
    /\ ldq_entry[i].st_mask \subseteq stq_addr_valid

\* A load sleeps on a store that is still queued, before it or retired.
Sleepers ==
  \A i \in LdqTag :
    LET t == ldq_entry[i].sleep
    IN  t # None => stq_entry[t].entry_valid /\ (stq_entry[t].retired \/ t \in ldq_entry[i].st_mask)

\* What holds of the loads whatever the cache does.
LInv ==
  /\ SInv
  /\ MasksBounded
  /\ MasksInOrder
  /\ IdleMasks
  /\ LoadsMarked
  /\ LoadsComplete
  /\ Expectation
  /\ LoadsAnswered
  /\ LoadsOwed
  /\ OffersLoad
  /\ ForwardsLoad
  /\ LoadsSettled
  /\ Sleepers

\* The data of a load are what the stores it can see make of it.
Answered ==
  \A i \in LdqTag : ldq_entry[i].data # None => HasValues(ldq_entry[i].data, View(i), ldq_entry[i].ld)

\* So is the answer the cache owes, unless the store queue has the answer.
Outstanding ==
  \A i \in LdqTag : dcache[i] # None /\ ~Awaited(i) => HasValues(dcache[i], View(i), ldq_entry[i].ld)

\* So is the answer of the store queue, unless the load is marked.
ForwardsValue ==
  \A i \in LdqTag : FwdValid(i) /\ ~ldq_entry[i].order_fail =>
    HasValues(fwd.data, View(i), ldq_entry[i].ld)

\* A load the store queue answers waits for that answer and is not on offer.
AnsweredOnce ==
  \A i \in LdqTag : Awaited(i) =>
    ldq_entry[i].data = None /\ (fire_ld # None => fire_ld.ldq_tag # i)

\* What is written back is what program order prescribes.
WrittenBack ==
  \A i \in LdqTag : ldq_entry[i].writebacked # None => ldq_entry[i].writebacked = ldq_entry[i].expect

\* What holds besides while the cache refuses no load.
OInv ==
  /\ LInv
  /\ Answered
  /\ Outstanding
  /\ ForwardsValue
  /\ AnsweredOnce
  /\ WrittenBack

---------------------------------------------------------------------------
(* The mask of a load that enters *)

\* The stores of the lanes before lane l.
LEMMA LaneStores ==
  ASSUME TypeOK, NEW l \in Lane
  PROVE  /\ StoresBefore(l) \in 0 .. st_dispatch_cnt /\ st_dispatch_cnt \in 0 .. MACHINE_WIDTH
         /\ \A m \in StoreLanes : m < l <=> StoresBefore(m) < StoresBefore(l)
         /\ \A m \in Lane : m + 1 \in Int
         /\ \A m \in StoreLanes : m < l => m + 1 \in Lane /\ StoresBefore(m + 1) = StoresBefore(m) + 1
         /\ \A n \in 0 .. (StoresBefore(l) - 1) : \E m \in StoreLanes : m < l /\ StoresBefore(m) = n
         /\ StoresBefore(0) = 0
<1>1. pipe_rename_pkt \in Group /\ MACHINE_WIDTH \in Nat \ {0}
  BY Sizes DEF TypeOK
<1>2. /\ \A k : StoresBefore(k) = Below(k, StoreLanes)
      /\ st_dispatch_cnt = Cardinality(StoreLanes)
  BY <1>1, LaneCounts
<1>3. StoreLanes \in SUBSET Lane
  BY DEF StoreLanes
<1> DEFINE S == StoreLanes
<1>4. /\ Cardinality(S) \in 0 .. MACHINE_WIDTH
      /\ \A k \in Int : Below(k, S) \in 0 .. Cardinality(S)
      /\ \A m, k \in Int : m <= k => Below(m, S) <= Below(k, S)
      /\ \A m \in S : \A k \in Int : m < k => Below(m, S) + 1 <= Below(k, S)
      /\ \A m \in S : Below(m + 1, S) = Below(m, S) + 1
      /\ \A n \in 0 .. (Cardinality(S) - 1) : \E k \in S : Below(k, S) = n
  BY <1>3, LanesCounted
<1>5. \A m \in Lane : m \in Int /\ m + 1 \in Int /\ (m < l => m + 1 \in Lane)
  BY <1>1 DEF Lane
<1>6. l \in Int /\ l \in Lane
  BY <1>5
<1> HIDE DEF S
<1>7. \A m \in S : m < l <=> Below(m, S) < Below(l, S)
  <2> TAKE m \in S
  <2>1. m \in Int
    BY <1>3, <1>5 DEF S
  <2>2. Below(m, S) \in Int /\ Below(l, S) \in Int
    BY <1>4, <1>6, <2>1
  <2>3. m < l => Below(m, S) + 1 <= Below(l, S)
    BY <1>4, <1>6
  <2>4. l <= m => Below(l, S) <= Below(m, S)
    BY <1>4, <1>6, <2>1
  <2> QED
    BY <1>6, <2>1, <2>2, <2>3, <2>4
<1>8. \A n \in 0 .. (Below(l, S) - 1) : \E m \in S : m < l /\ Below(m, S) = n
  <2> TAKE n \in 0 .. (Below(l, S) - 1)
  <2>1. Below(l, S) \in 0 .. Cardinality(S) /\ n < Below(l, S) /\ n \in Int
    BY <1>4, <1>6
  <2>2. n \in 0 .. (Cardinality(S) - 1)
    BY <1>4, <2>1
  <2>3. PICK m \in S : Below(m, S) = n
    BY <1>4, <2>2
  <2> QED
    BY <1>7, <2>1, <2>3
<1>9. Below(0, S) = 0
  <2>1. \A m \in S : m \in Nat
    BY <1>3 DEF S, Lane
  <2>2. {m \in S : m < 0} = {}
    BY <2>1
  <2> QED
    BY <2>2, FS_EmptySet DEF Below
<1> QED
  BY <1>2, <1>3, <1>4, <1>5, <1>6, <1>7, <1>8, <1>9 DEF S

\* The slot before the tail, and the n-th after it, in numbers.
LEMMA YoungestSlot ==
  ASSUME NEW d \in Nat \ {0}, NEW h \in 0 .. (d - 1), NEW c \in 1 .. d, NEW n \in Nat,
         c + n <= d
  PROVE  LET t == SlotAt(h, c, d)
         IN  /\ t = IF h + c < d THEN h + c ELSE (h + c) - d
             /\ SlotAt(SlotAt(t, d - 1, d), n, d) \in 0 .. (d - 1)
             /\ AgeOf(h, SlotAt(SlotAt(t, d - 1, d), n, d), d) = (c + n) - 1
<1> DEFINE t == SlotAt(h, c, d)
<1>1. t \in 0 .. (d - 1) /\ t = IF h + c < d THEN h + c ELSE (h + c) - d
  <2>1. h + c \in 0 .. (2 * d - 1) /\ d \in Nat \ {0}
    OBVIOUS
  <2>2. t = IF h + c < d THEN h + c ELSE (h + c) - d
    BY <2>1, RemainderIs DEF SlotAt
  <2> HIDE DEF t
  <2> QED
    BY <2>2
<1> HIDE DEF t
<1> DEFINE y == SlotAt(t, d - 1, d)
           z == SlotAt(y, n, d)
<1>2. y \in 0 .. (d - 1) /\ y = IF t + (d - 1) < d THEN t + (d - 1) ELSE (t + (d - 1)) - d
  <2>1. d - 1 \in 0 .. (d - 1)
    OBVIOUS
  <2> QED
    BY <1>1, <2>1, SlotIs
<1> HIDE DEF y
<1>3. n \in 0 .. (d - 1)
  OBVIOUS
<1>4. z \in 0 .. (d - 1) /\ z = IF y + n < d THEN y + n ELSE (y + n) - d
  BY <1>2, <1>3, SlotIs
<1> HIDE DEF z
<1>5. AgeOf(h, z, d) = IF z >= h THEN z - h ELSE (z + d) - h
  BY <1>4, AgeIs
<1>6. AgeOf(h, z, d) = (c + n) - 1
  BY <1>1, <1>2, <1>3, <1>4, <1>5
<1> QED
  BY <1>1, <1>4, <1>6 DEF t, y, z

\* The youngest store before lane k is the last of the queue and of the lanes
\* before it.
LEMMA YoungestIs ==
  ASSUME SInv, NEW k \in Lane, StoreCount + StoresBefore(k) > 0
  PROVE  /\ dispatch_ldq_st_youngest(k) \in StqTag
         /\ FromHead(dispatch_ldq_st_youngest(k)) = (StoreCount + StoresBefore(k)) - 1
<1> TypeOK /\ PointersInOrder /\ GroupFits
  BY DEF SInv
<1> DEFINE D == STQ_DEPTH
           n == StoresBefore(k)
           h == st_head.ptr
           y == (st_tail.ptr + (D - 1)) % D
<1>1. /\ n \in Nat /\ n <= st_dispatch_cnt /\ StoreCount + st_dispatch_cnt <= D
      /\ st_dispatch_cnt \in Nat
  BY LaneStores DEF GroupFits
<1>2. D \in Nat \ {0} /\ h \in 0 .. (D - 1) /\ st_tail.ptr \in 0 .. (D - 1) /\ StoreCount \in 0 .. D
      /\ st_head \in Pointer(D) /\ st_tail \in Pointer(D)
  BY PointerTypes, Sizes
<1>3. /\ st_head = st_tail <=> StoreCount = 0
      /\ st_tail.ptr = IF h + StoreCount < D THEN h + StoreCount ELSE (h + StoreCount) - D
  BY <1>2, EmptyQueue DEF StoreCount
<1>4. \A i : FromHead(i) = AgeOf(h, i, D)
  BY DEF FromHead, AgeOf
<1>5. CASE StoreCount > 0
  <2>1. dispatch_stq_st_youngest = y
    <3>1. st_head # st_tail
      BY <1>3, <1>5
    <3>2. st_tail.ptr + D - 1 = st_tail.ptr + (D - 1)
      BY <1>2
    <3> QED
      BY <3>1, <3>2 DEF dispatch_stq_st_youngest
  <2>2. dispatch_stq_st_mask # {}
    <3>1. h \in StqTag /\ FromHead(h) = 0
      BY StoreAges
    <3>2. stq_entry[h].entry_valid
      BY <1>5, <3>1, ValidStores
    <3> QED
      BY <3>1, <3>2 DEF dispatch_stq_st_mask
  <2>3. dispatch_ldq_st_youngest(k) = (y + n) % D
    BY <2>1, <2>2 DEF dispatch_ldq_st_youngest
  <2>4. StoreCount \in 1 .. D /\ StoreCount + n <= D
    BY <1>1, <1>2, <1>5
  <2> HIDE DEF n, h, D, y
  <2>5. (y + n) % D \in 0 .. (D - 1) /\ AgeOf(h, (y + n) % D, D) = (StoreCount + n) - 1
    <3>1. /\ D \in Nat \ {0} /\ h \in 0 .. (D - 1) /\ StoreCount \in 1 .. D /\ n \in Nat
          /\ StoreCount + n <= D
      BY <1>1, <1>2, <2>4
    <3>2. st_tail.ptr = IF h + StoreCount < D THEN h + StoreCount ELSE (h + StoreCount) - D
      BY <1>3
    <3>3. /\ SlotAt(h, StoreCount, D) = IF h + StoreCount < D THEN h + StoreCount ELSE (h + StoreCount) - D
          /\ SlotAt(SlotAt(SlotAt(h, StoreCount, D), D - 1, D), n, D) \in 0 .. (D - 1)
          /\ AgeOf(h, SlotAt(SlotAt(SlotAt(h, StoreCount, D), D - 1, D), n, D), D) = (StoreCount + n) - 1
      <4> DEFINE c == StoreCount
      <4> HIDE DEF c
      <4>1. D \in Nat \ {0} /\ h \in 0 .. (D - 1) /\ c \in 1 .. D /\ n \in Nat /\ c + n <= D
        BY <3>1 DEF c
      <4>2. /\ SlotAt(h, c, D) = IF h + c < D THEN h + c ELSE (h + c) - D
            /\ SlotAt(SlotAt(SlotAt(h, c, D), D - 1, D), n, D) \in 0 .. (D - 1)
            /\ AgeOf(h, SlotAt(SlotAt(SlotAt(h, c, D), D - 1, D), n, D), D) = (c + n) - 1
        BY <4>1, YoungestSlot
      <4> QED
        BY <4>2 DEF c
    <3>4. /\ SlotAt(SlotAt(st_tail.ptr, D - 1, D), n, D) \in 0 .. (D - 1)
          /\ AgeOf(h, SlotAt(SlotAt(st_tail.ptr, D - 1, D), n, D), D) = (StoreCount + n) - 1
      BY <3>2, <3>3
    <3>5. SlotAt(SlotAt(st_tail.ptr, D - 1, D), n, D) = (y + n) % D
      BY DEF SlotAt, y
    <3> QED
      BY <3>4, <3>5
  <2> QED
    BY <1>4, <2>3, <2>5 DEF StqTag, D, n
<1>6. CASE StoreCount = 0
  <2>1. st_tail.ptr = h /\ dispatch_stq_st_youngest = h
    BY <1>2, <1>3, <1>6 DEF dispatch_stq_st_youngest
  <2>2. dispatch_stq_st_mask = {}
    BY <1>2, <1>6, StoreAges, ValidStores DEF dispatch_stq_st_mask
  <2>3. n > 0 /\ n \in 1 .. D /\ k # 0
    BY <1>1, <1>2, <1>6, LaneStores
  <2>4. dispatch_ldq_st_youngest(k) = (h + n + D - 1) % D
    BY <2>1, <2>2, <2>3 DEF dispatch_ldq_st_youngest
  <2> HIDE DEF n, h, D
  <2>5. h + n + D - 1 = h + (n + (D - 1))
    BY <1>1, <1>2
  <2>6. /\ SlotAt(h, n + (D - 1), D) \in 0 .. (D - 1)
        /\ AgeOf(h, SlotAt(h, n + (D - 1), D), D) = (StoreCount + n) - 1
    <3>1. Distance(st_head, st_tail, D) = StoreCount /\ Distance(st_head, st_tail, D) \in 0 .. D
          /\ Distance(st_head, st_tail, D) + n \in 1 .. D
      BY <1>1, <1>2, <1>6, <2>3 DEF StoreCount, D
    <3>2. n \in Nat /\ D \in Nat \ {0} /\ st_head \in Pointer(D) /\ st_tail \in Pointer(D)
      BY <1>1, <1>2
    <3>3. /\ SlotAt(st_tail.ptr, n + (D - 1), D) \in 0 .. (D - 1)
          /\ AgeOf(st_head.ptr, SlotAt(st_tail.ptr, n + (D - 1), D), D)
               = (Distance(st_head, st_tail, D) + n) - 1
      BY <3>1, <3>2, BeforeTheTail
    <3> QED
      BY <2>1, <3>1, <3>3 DEF h
  <2> QED
    BY <1>4, <2>4, <2>5, <2>6 DEF StqTag, SlotAt, D, n
<1> QED
  BY <1>2, <1>5, <1>6

\* The stores before lane l: those of the queue and of the lanes before it.
LEMMA MaskIs ==
  ASSUME SInv, NEW l \in Lane
  PROVE  dispatch_ldq_st_mask(l) = {j \in StqTag : FromHead(j) < StoreCount + StoresBefore(l)}
<1> TypeOK /\ PointersInOrder /\ GroupFits
  BY DEF SInv
<1> DEFINE n == StoresBefore(l)
           group == {dispatch_ldq_st_youngest(m + 1) : m \in {k \in Lane : k < l /\ IsStore(pipe_rename_pkt[k])}}
<1>1. n \in Nat /\ StoreCount \in Nat
  BY LaneStores, PointerTypes
<1>2. \A j \in StqTag : FromHead(j) \in Nat
  BY StoreAges
<1>3. dispatch_stq_st_mask = {j \in StqTag : FromHead(j) < StoreCount}
  BY ValidStores DEF dispatch_stq_st_mask
<1>4. ASSUME NEW m \in StoreLanes, m < l
      PROVE  /\ dispatch_ldq_st_youngest(m + 1) \in StqTag
             /\ FromHead(dispatch_ldq_st_youngest(m + 1)) = StoreCount + StoresBefore(m)
             /\ StoresBefore(m) < n /\ StoresBefore(m) \in Nat
  <2>1. m \in Lane /\ m + 1 \in Lane /\ StoresBefore(m + 1) = StoresBefore(m) + 1 /\ StoresBefore(m) < n
    BY <1>4, LaneStores DEF StoreLanes
  <2>2. StoresBefore(m) \in Nat
    BY <2>1, LaneStores
  <2>3. StoreCount + StoresBefore(m + 1) > 0
        /\ (StoreCount + StoresBefore(m + 1)) - 1 = StoreCount + StoresBefore(m)
    BY <1>1, <2>1, <2>2
  <2> QED
    BY <2>1, <2>2, <2>3, YoungestIs
<1>5. group = {dispatch_ldq_st_youngest(m + 1) : m \in {k \in StoreLanes : k < l}}
  BY DEF StoreLanes
<1>6. ASSUME NEW j \in StqTag PROVE j \in group <=> FromHead(j) >= StoreCount /\ FromHead(j) < StoreCount + n
  <2>1. ASSUME j \in group PROVE FromHead(j) >= StoreCount /\ FromHead(j) < StoreCount + n
    <3>1. PICK m \in StoreLanes : m < l /\ j = dispatch_ldq_st_youngest(m + 1)
      BY <1>5, <2>1
    <3>2. FromHead(j) = StoreCount + StoresBefore(m) /\ StoresBefore(m) < n /\ StoresBefore(m) \in Nat
      BY <1>4, <3>1
    <3> HIDE DEF n
    <3> QED
      BY <1>1, <3>2
  <2>2. ASSUME FromHead(j) >= StoreCount, FromHead(j) < StoreCount + n PROVE j \in group
    <3>1. FromHead(j) - StoreCount \in 0 .. (n - 1)
      BY <1>1, <1>2, <2>2
    <3>2. PICK m \in StoreLanes : m < l /\ StoresBefore(m) = FromHead(j) - StoreCount
      BY <3>1, LaneStores
    <3>3. StoreCount + (FromHead(j) - StoreCount) = FromHead(j)
      BY <1>1, <1>2
    <3>4. /\ dispatch_ldq_st_youngest(m + 1) \in StqTag
          /\ FromHead(dispatch_ldq_st_youngest(m + 1)) = FromHead(j)
      BY <1>4, <3>2, <3>3
    <3>5. dispatch_ldq_st_youngest(m + 1) = j
      BY <3>4, StoreAges
    <3> QED
      BY <1>5, <3>2, <3>5
  <2> QED
    BY <2>1, <2>2
<1>7. group \subseteq StqTag
  BY <1>4, <1>5
<1>8. dispatch_ldq_st_mask(l) = dispatch_stq_st_mask \cup group
  BY DEF dispatch_ldq_st_mask
<1> HIDE DEF group, n
<1>9. ASSUME NEW j \in StqTag
      PROVE  j \in dispatch_stq_st_mask \cup group <=> FromHead(j) < StoreCount + n
  BY <1>1, <1>2, <1>3, <1>6
<1> QED
  BY <1>3, <1>7, <1>8, <1>9 DEF n

---------------------------------------------------------------------------
(* Masks from one cycle to the next *)

\* Load i is in its entry before and after the cycle.
Kept(i) == RetiringLoadCount <= LdFromHead(i) /\ LdFromHead(i) < LoadCount

\* The loads of the queue after a cycle are those kept and those dispatched.
LEMMA LoadFates ==
  ASSUME SInv, NEW p \in Ports, NEW x, NEW r, Cycle(x, p, r), NEW i \in LdqTag
  PROVE  /\ LdFromHead(i)' < LoadCount' <=> Kept(i) \/ \E l \in LoadLanes : dispatch_ld_resp(l) = i
         /\ Kept(i) => LdLane(i) = {} /\ LdFromHead(i) < LoadCount /\ ~ (LdFromHead(i) < RetiringLoadCount)
         /\ \A l \in LoadLanes : dispatch_ld_resp(l) = i =>
              ~ (LdFromHead(i) < LoadCount) /\ ~ (LdFromHead(i) < RetiringLoadCount)
         /\ ~Kept(i) /\ LdFromHead(i) < LoadCount => i \in RetiredTags("ld")
         /\ i \in RetiredTags("ld") <=> LdFromHead(i) < RetiringLoadCount
<1> TypeOK /\ PointersInOrder /\ GroupFits
  BY DEF SInv
<1> DEFINE m == RetiringLoadCount
           cnt == ld_dispatch_cnt
<1>1. ld_head' = next_ld_head /\ ld_tail' = next_ld_tail
  BY DEF Cycle
<1>2. /\ LoadCount' = (LoadCount + cnt) - m
      /\ LdFromHead(i)' = IF LdFromHead(i) >= m THEN LdFromHead(i) - m
                                               ELSE (LdFromHead(i) + LDQ_DEPTH) - m
  BY <1>1, LoadPointersMove
<1>3. /\ LoadCount \in Nat /\ cnt \in Nat /\ m \in Nat /\ m <= LoadCount
      /\ LoadCount + cnt <= LDQ_DEPTH /\ LDQ_DEPTH \in Nat
  BY PointerTypes, GroupCounts, RetiringLoads, Sizes DEF GroupFits
<1>4. LdFromHead(i) \in 0 .. (LDQ_DEPTH - 1)
  BY LoadAges
<1>5. \A l \in LoadLanes : dispatch_ld_resp(l) = i =>
         LdFromHead(i) >= LoadCount /\ LdFromHead(i) < LoadCount + cnt
  BY LoadLaneOf
<1>6. LdFromHead(i) >= LoadCount /\ LdFromHead(i) < LoadCount + cnt =>
        \E l \in LoadLanes : dispatch_ld_resp(l) = i
  BY LoadLaneOf
<1>7. LdFromHead(i) < LoadCount => LdLane(i) = {}
  BY LoadLaneOf
<1>8. i \in RetiredTags("ld") <=> LdFromHead(i) < m
  BY RetiringLoads
<1> HIDE DEF m, cnt
<1>9. LdFromHead(i)' < LoadCount' <=> LdFromHead(i) >= m /\ LdFromHead(i) < LoadCount + cnt
  BY <1>2, <1>3, <1>4
<1>10. Kept(i) <=> m <= LdFromHead(i) /\ LdFromHead(i) < LoadCount
  BY DEF Kept, m
<1> QED
  BY <1>3, <1>4, <1>5, <1>6, <1>7, <1>8, <1>9, <1>10 DEF m

\* The fields of a load that is kept.
LEMMA KeptLoadIs ==
  ASSUME SInv, NEW p \in Ports, NEW x \in Executable, NEW r \in Answers, Cycle(x, p, r),
         NEW i \in LdqTag, Kept(i)
  PROVE  LET f == ldq_entry'[i]
             e == ldq_entry[i]
         IN  /\ f.addr_valid <=> e.addr_valid \/ Executes(x, "ld", i)
             /\ f.ld = e.ld /\ f.st_mask = e.st_mask \ Taken(p) /\ f.st_youngest = e.st_youngest
             /\ f.expect = e.expect
             /\ f.sleep = next_sleep(x, p.ld, p.st, i)
             /\ f.order_fail = next_order_fail(x, p.ld, i)
             /\ f.fired = next_fired(x, p.ld, i)
             /\ f.data = next_data(x, p.ld, r, i)
             /\ f.writebacked = NextWriteback(x, p, r, i)
             /\ f \in LdqEntry /\ e \in LdqEntry /\ e.entry_valid /\ e.ld \in Loads
<1> TypeOK /\ LoadEntries
  BY DEF SInv
<1> DEFINE f == ldq_entry'[i]
           e == ldq_entry[i]
<1>1. ldq_entry' = [k \in LdqTag |-> NextLoad(x, p.ld, p.st, r, k)]
  BY DEF Cycle
<1>2. LdLane(i) = {} /\ ~ (LdFromHead(i) < RetiringLoadCount) /\ LdFromHead(i) < LoadCount
  BY LoadFates
<1>3. f \in LdqEntry /\ f.sleep = next_sleep(x, p.ld, p.st, i) /\ f.order_fail = next_order_fail(x, p.ld, i)
  BY <1>1, LoadAfter
<1>4. /\ f.addr_valid <=> e.addr_valid \/ Executes(x, "ld", i)
      /\ f.fired = next_fired(x, p.ld, i)
      /\ f.data = next_data(x, p.ld, r, i)
      /\ f.writebacked = NextWriteback(x, p, r, i)
  BY <1>1, <1>2, LoadAfter
<1>5. f.ld = e.ld /\ f.st_mask = NextMask(e, p) /\ f.st_youngest = e.st_youngest /\ f.expect = e.expect
  BY <1>1, <1>2, LoadAfter
<1>6. NextMask(e, p) = e.st_mask \ Taken(p)
  BY DEF NextMask, Taken
<1>7. e \in LdqEntry /\ e.entry_valid /\ e.ld # None
  BY <1>2 DEF TypeOK, LoadEntries
<1>8. e.ld \in Loads
  BY <1>7 DEF LdqEntry
<1> QED
  BY <1>3, <1>4, <1>5, <1>6, <1>7, <1>8, Zenon DEF f, e

\* What a cycle does to the ages, and to the stores that stay.
LEMMA StoreFates ==
  ASSUME SInv, NEW p \in Ports, NEW x \in Executable, NEW r, Cycle(x, p, r)
  PROVE  /\ \A j \in StqTag : FromHead(j) \in 0 .. (STQ_DEPTH - 1)
         /\ \A j \in StqTag : FromHead(j)' = IF FromHead(j) >= Leaving(p) THEN FromHead(j) - Leaving(p)
                                                                        ELSE STQ_DEPTH - 1
         /\ \A j \in StqTag : j \in Taken(p) <=> FromHead(j) < Leaving(p)
         /\ \A j \in StqTag : Stays(p, j) <=> j \notin Taken(p) /\ FromHead(j) < StoreCount
         /\ Leaving(p) \in 0 .. 1 /\ Leaving(p) <= RetiredCount
         /\ RetiredCount \in 0 .. STQ_DEPTH /\ StoreCount \in 0 .. STQ_DEPTH
         /\ RetiringCount \in Nat /\ RetiredCount + RetiringCount <= StoreCount
         /\ RetiredCount' = (RetiredCount + RetiringCount) - Leaving(p)
         /\ StoreCount' = (StoreCount + st_dispatch_cnt) - Leaving(p)
         /\ st_dispatch_cnt \in Nat /\ StoreCount + st_dispatch_cnt <= STQ_DEPTH
         /\ STQ_DEPTH \in Nat /\ StqStep(x, p.st) /\ ~pipe_flush /\ memory' = next_memory(p)
<1> TypeOK /\ PointersInOrder /\ GroupFits
  BY DEF SInv
<1>1. StqStep(x, p.st) /\ ~pipe_flush /\ memory' = next_memory(p)
  BY DEF Cycle
<1>2. \A j \in StqTag : FromHead(j)' = IF FromHead(j) >= Leaving(p) THEN FromHead(j) - Leaving(p)
                                                                   ELSE STQ_DEPTH - 1
  BY <1>1, StorePointersMove
<1>3. RetiredCount' = (RetiredCount + RetiringCount) - Leaving(p)
      /\ StoreCount' = (StoreCount + st_dispatch_cnt) - Leaving(p)
  BY PointersAfter
<1>4. \A j \in StqTag : FromHead(j) \in 0 .. (STQ_DEPTH - 1)
  BY StoreAges
<1>5. /\ Leaving(p) \in 0 .. 1 /\ Leaving(p) <= RetiredCount
      /\ \A j \in StqTag : j \in Taken(p) <=> FromHead(j) < Leaving(p)
  BY TakenIsHead
<1>6. /\ RetiredCount \in 0 .. STQ_DEPTH /\ StoreCount \in 0 .. STQ_DEPTH
      /\ RetiringCount \in Nat /\ RetiredCount + RetiringCount <= StoreCount
      /\ st_dispatch_cnt \in Nat /\ StoreCount + st_dispatch_cnt <= STQ_DEPTH /\ STQ_DEPTH \in Nat
  BY PointerTypes, RetiringStores, GroupCounts, Sizes DEF RetiringCount, GroupFits
<1>7. \A j \in StqTag : Stays(p, j) <=> j \notin Taken(p) /\ FromHead(j) < StoreCount
  <2> TAKE j \in StqTag
  <2>1. Stays(p, j) <=> FromHead(j) >= Leaving(p) /\ FromHead(j) < StoreCount
    BY <1>1 DEF Stays
  <2>2. FromHead(j) >= Leaving(p) <=> ~ (FromHead(j) < Leaving(p))
    BY <1>4, <1>5
  <2> QED
    BY <1>5, <2>1, <2>2
<1> QED
  BY <1>1, <1>2, <1>3, <1>4, <1>5, <1>6, <1>7

\* A load in the window is kept, and the retiring stores are before it.
LEMMA KeptBehindRetiring ==
  ASSUME LInv, NEW i \in LdqTag, Kept(i), NEW n \in RetiredCount .. StoreCount, Bound(i, n)
  PROVE  /\ RetiredCount + RetiringCount <= n
         /\ \E k \in DOMAIN window : window[k].kind = "ld" /\ window[k].tag = i
<1> SInv /\ MasksInOrder
  BY DEF LInv
<1> TypeOK /\ PointersInOrder
  BY DEF SInv
<1> DEFINE m == RetiringLoadCount
           am == RetiredCount + RetiringCount
<1>1. m \in Nat /\ Runs(window, "ld", LdAge, m, LoadCount) /\ LoadCount \in Nat
  BY RetiringLoads, PointerTypes, Sizes
<1>2. window \in Seq(Instruction) /\ pipe_retire_pkt \in Seq(Instruction)
  BY DEF TypeOK
<1>3. PICK k \in DOMAIN window : window[k].kind = "ld" /\ window[k].tag = i
  <2>1. LdFromHead(i) \in m .. (LoadCount - 1)
    BY <1>1, LoadAges DEF Kept
  <2>2. PICK k \in DOMAIN window : window[k].kind = "ld" /\ LdAge[window[k].tag] = LdFromHead(i)
    BY <1>1, <2>1 DEF Runs
  <2>3. window[k].tag \in LdqTag
    BY <1>2, <2>2, TagKinds
  <2> QED
    BY <2>2, <2>3, LoadAges
<1>4. /\ RetiredCount \in Nat /\ StoreCount \in Nat /\ RetiringCount \in Nat /\ am <= StoreCount
      /\ Runs(pipe_retire_pkt, "st", StAge, RetiredCount, am)
  BY PointerTypes, RetiringStores, Sizes DEF RetiringCount
<1>5. am <= n
  <2>1. CASE RetiringCount = 0
    BY <1>4, <2>1
  <2>2. CASE RetiringCount > 0
    <3>1. am - 1 \in RetiredCount .. (am - 1)
      BY <1>4, <2>2
    <3>2. PICK j \in DOMAIN pipe_retire_pkt :
            pipe_retire_pkt[j].kind = "st" /\ StAge[pipe_retire_pkt[j].tag] = am - 1
      BY <1>4, <3>1 DEF Runs
    <3> DEFINE u == Unsettled
               c == k + Len(pipe_retire_pkt)
    <3>3. /\ j \in DOMAIN u /\ u[j] = pipe_retire_pkt[j]
          /\ c \in DOMAIN u /\ u[c] = window[k] /\ j < c
      <4>1. /\ \A q \in DOMAIN pipe_retire_pkt : q \in DOMAIN u /\ u[q] = pipe_retire_pkt[q]
            /\ \A q \in DOMAIN window : q + Len(pipe_retire_pkt) \in DOMAIN u
                                        /\ u[q + Len(pipe_retire_pkt)] = window[q]
            /\ DOMAIN pipe_retire_pkt = 1 .. Len(pipe_retire_pkt) /\ DOMAIN window = 1 .. Len(window)
            /\ Len(pipe_retire_pkt) \in Nat
        BY <1>2, Concatenated DEF Unsettled
      <4>2. j \in Int /\ k \in Int /\ j <= Len(pipe_retire_pkt) /\ 0 < k
        BY <4>1
      <4> HIDE DEF u
      <4> QED
        BY <4>1, <4>2
    <3>4. pipe_retire_pkt[j].tag \in ldq_entry[i].st_mask
      <4> HIDE DEF c
      <4> QED
        BY <1>3, <3>2, <3>3 DEF MasksInOrder
    <3>5. pipe_retire_pkt[j].tag \in StqTag
      BY <1>2, <3>2, TagKinds
    <3>6. FromHead(pipe_retire_pkt[j].tag) < n /\ FromHead(pipe_retire_pkt[j].tag) = am - 1
      BY <3>2, <3>4, <3>5, StoreAges DEF Bound
    <3> QED
      BY <1>4, <3>6
  <2> QED
    BY <1>4, <2>1, <2>2
<1> QED
  BY <1>3, <1>5

\* The stores before a load are the oldest of the queue after a cycle, too.
LEMMA MasksBoundedAfter ==
  ASSUME LInv, NEW p \in Ports, NEW x \in Executable, NEW r \in Answers, Cycle(x, p, r)
  PROVE  MasksBounded'
<1> SInv /\ MasksBounded
  BY DEF LInv
<1> TypeOK /\ PointersInOrder
  BY DEF SInv
<1> DEFINE L == Leaving(p)
           am == RetiredCount + RetiringCount
<1>1. /\ \A j \in StqTag : FromHead(j) \in 0 .. (STQ_DEPTH - 1)
      /\ \A j \in StqTag : FromHead(j)' = IF FromHead(j) >= L THEN FromHead(j) - L ELSE STQ_DEPTH - 1
      /\ \A j \in StqTag : j \in Taken(p) <=> FromHead(j) < L
      /\ L \in 0 .. 1 /\ L <= RetiredCount
      /\ RetiredCount \in 0 .. STQ_DEPTH /\ StoreCount \in 0 .. STQ_DEPTH
      /\ RetiringCount \in Nat /\ am <= StoreCount
      /\ RetiredCount' = am - L
      /\ StoreCount' = (StoreCount + st_dispatch_cnt) - L
      /\ st_dispatch_cnt \in Nat /\ StoreCount + st_dispatch_cnt <= STQ_DEPTH
      /\ STQ_DEPTH \in Nat
  BY StoreFates, Zenon
<1> HIDE DEF L
\* The oldest n of the queue are the oldest n - L of the next one.
<1>2. ASSUME NEW n \in am .. (StoreCount + st_dispatch_cnt), NEW y \in StqTag, n > 0 => FromHead(y) = n - 1
      PROVE  /\ n - L \in RetiredCount' .. StoreCount'
             /\ {j \in StqTag : FromHead(j) < n} \ Taken(p) = {j \in StqTag : FromHead(j)' < n - L}
             /\ n - L > 0 => FromHead(y)' = (n - L) - 1
  <2>1. n - L \in RetiredCount' .. StoreCount'
    BY <1>1
  <2>2. ASSUME NEW j \in StqTag
        PROVE  (FromHead(j) < n /\ j \notin Taken(p)) <=> FromHead(j)' < n - L
    BY <1>1
  <2>3. n - L > 0 => FromHead(y)' = (n - L) - 1
    BY <1>1, <1>2
  <2> QED
    BY <2>1, <2>2, <2>3
<1>3. ASSUME NEW i \in LdqTag, LdFromHead(i)' < LoadCount'
      PROVE  \E n \in RetiredCount' .. StoreCount' : Bound(i, n)'
  <2>1. ASSUME NEW n \in am .. (StoreCount + st_dispatch_cnt), NEW y \in StqTag, n > 0 => FromHead(y) = n - 1,
               ldq_entry'[i].st_mask = {j \in StqTag : FromHead(j) < n} \ Taken(p),
               ldq_entry'[i].st_youngest = y
        PROVE  \E q \in RetiredCount' .. StoreCount' : Bound(i, q)'
    <3>1. /\ n - L \in RetiredCount' .. StoreCount'
          /\ {j \in StqTag : FromHead(j) < n} \ Taken(p) = {j \in StqTag : FromHead(j)' < n - L}
          /\ n - L > 0 => FromHead(y)' = (n - L) - 1
      BY <1>2, <2>1
    <3>2. Bound(i, n - L)'
      BY <2>1, <3>1 DEF Bound, L
    <3> QED
      BY <3>1, <3>2
  <2>2. CASE Kept(i)
    <3>1. PICK n \in RetiredCount .. StoreCount : Bound(i, n)
      BY <2>2 DEF MasksBounded, Kept
    <3>2. am <= n
      BY <2>2, <3>1, KeptBehindRetiring
    <3>3. n \in am .. (StoreCount + st_dispatch_cnt)
      BY <1>1, <3>2
    <3>4. /\ ldq_entry'[i].st_mask = ldq_entry[i].st_mask \ Taken(p)
          /\ ldq_entry'[i].st_youngest = ldq_entry[i].st_youngest
          /\ ldq_entry[i] \in LdqEntry
      BY <2>2, KeptLoadIs
    <3>5. ldq_entry[i].st_youngest \in StqTag
      BY <3>4 DEF LdqEntry
    <3> QED
      BY <2>1, <3>1, <3>3, <3>4, <3>5 DEF Bound
  <2>3. ASSUME NEW l \in LoadLanes, dispatch_ld_resp(l) = i
        PROVE  \E q \in RetiredCount' .. StoreCount' : Bound(i, q)'
    <3> DEFINE n == StoreCount + StoresBefore(l)
    <3>1. l \in Lane
      BY DEF LoadLanes
    <3>2. StoresBefore(l) \in 0 .. st_dispatch_cnt
      BY <3>1, LaneStores
    <3>3. n \in am .. (StoreCount + st_dispatch_cnt)
      BY <1>1, <3>2
    <3>4. dispatch_ldq_st_mask(l) = {j \in StqTag : FromHead(j) < n}
      BY <3>1, MaskIs
    <3>5. dispatch_ldq_st_youngest(l) \in StqTag
      BY <3>1, MaskTyped
    <3>6. n > 0 => FromHead(dispatch_ldq_st_youngest(l)) = n - 1
      BY <3>1, YoungestIs
    <3>7. ldq_entry'[i].st_mask = dispatch_ldq_st_mask(l) \ Taken(p)
          /\ ldq_entry'[i].st_youngest = dispatch_ldq_st_youngest(l)
      BY <2>3, LoadAfter DEF Cycle
    <3> HIDE DEF n
    <3> QED
      BY <2>1, <3>3, <3>4, <3>5, <3>6, <3>7
  <2> QED
    BY <1>3, <2>2, <2>3, LoadFates
<1> QED
  BY <1>3 DEF MasksBounded

---------------------------------------------------------------------------
(* Masks and program order *)

\* An instruction being dispatched, and its lane.
LEMMA DispatchedAt ==
  ASSUME SInv, NEW k \in DOMAIN Dispatched
  PROVE  \E l \in Occupied :
           /\ k = Below(l, Occupied) + 1
           /\ Dispatched[k].kind = "st" => l \in StoreLanes /\ Dispatched[k].tag = dispatch_st_resp(l)
           /\ Dispatched[k].kind = "ld" => l \in LoadLanes /\ Dispatched[k].tag = dispatch_ld_resp(l)
<1> TypeOK
  BY DEF SInv
<1>1. PICK l \in Occupied : k = Below(l, Occupied) + 1
  BY DispatchedIs
<1>2. Dispatched[k] = Tagged(l)
  BY <1>1, DispatchedIs
<1>3. Occupied = StoreLanes \cup LoadLanes
  BY LaneCounts DEF TypeOK
<1>4. Tagged(l) = IF l \in StoreLanes THEN [kind |-> "st", tag |-> dispatch_st_resp(l)]
                                      ELSE [kind |-> "ld", tag |-> dispatch_ld_resp(l)]
  BY DEF Tagged, StoreLanes, Occupied
<1>5. CASE l \in StoreLanes
  <2>1. Dispatched[k].kind = "st" /\ Dispatched[k].tag = dispatch_st_resp(l)
    BY <1>2, <1>4, <1>5
  <2> QED
    BY <1>1, <1>5, <2>1
<1>6. CASE l \notin StoreLanes
  <2>1. Dispatched[k].kind = "ld" /\ Dispatched[k].tag = dispatch_ld_resp(l) /\ l \in LoadLanes
    BY <1>2, <1>3, <1>4, <1>6
  <2> QED
    BY <1>1, <2>1
<1> QED
  BY <1>5, <1>6

\* Lanes are dispatched in their order.
LEMMA OccupiedInOrder ==
  ASSUME NEW m \in Occupied, NEW l \in Occupied
  PROVE  m < l <=> Below(m, Occupied) < Below(l, Occupied)
<1>1. Occupied \in SUBSET Lane /\ m \in Int /\ l \in Int
  BY DEF Occupied, Lane
<1> DEFINE S == Occupied
<1>2. /\ \A k \in Int : Below(k, S) \in 0 .. Cardinality(S)
      /\ \A j, k \in Int : j <= k => Below(j, S) <= Below(k, S)
      /\ \A j \in S : \A k \in Int : j < k => Below(j, S) + 1 <= Below(k, S)
  BY <1>1, LanesCounted
<1>3. m \in S
  OBVIOUS
<1> HIDE DEF S
<1>4. Below(m, S) \in Int /\ Below(l, S) \in Int
  BY <1>1, <1>2
<1>5. m < l => Below(m, S) + 1 <= Below(l, S)
  BY <1>1, <1>2, <1>3
<1>6. l <= m => Below(l, S) <= Below(m, S)
  BY <1>1, <1>2
<1>7. m < l <=> Below(m, S) < Below(l, S)
  BY <1>1, <1>4, <1>5, <1>6
<1> QED
  BY <1>7 DEF S

\* A load in the window.
LEMMA WindowLoad ==
  ASSUME LInv, NEW k \in DOMAIN window, window[k].kind = "ld"
  PROVE  /\ window[k].tag \in LdqTag /\ Kept(window[k].tag)
         /\ ldq_entry[window[k].tag].st_mask \subseteq {j \in StqTag : FromHead(j) < StoreCount}
<1> SInv /\ MasksBounded
  BY DEF LInv
<1> TypeOK /\ PointersInOrder
  BY DEF SInv
<1> DEFINE i == window[k].tag
<1>1. i \in LdqTag
  BY TagKinds DEF TypeOK
<1>2. LdAge[i] \in RetiringLoadCount .. (LoadCount - 1)
  BY RetiringLoads DEF Runs
<1>3. RetiringLoadCount \in Int /\ LoadCount \in Int
  BY RetiringLoads, PointerTypes
<1>4. Kept(i)
  BY <1>1, <1>2, <1>3, LoadAges DEF Kept
<1>5. PICK n \in RetiredCount .. StoreCount : Bound(i, n)
  BY <1>1, <1>4 DEF MasksBounded, Kept
<1>6. n <= StoreCount /\ n \in Int /\ StoreCount \in Int
  BY <1>5, PointerTypes
<1>7. \A j \in StqTag : FromHead(j) \in Int
  BY StoreAges
<1> HIDE DEF i
<1>8. ldq_entry[i].st_mask \subseteq {j \in StqTag : FromHead(j) < StoreCount}
  BY <1>5, <1>6, <1>7 DEF Bound
<1> QED
  BY <1>1, <1>4, <1>8 DEF i

\* A store in the window.
LEMMA WindowStore ==
  ASSUME SInv, NEW p \in Ports, NEW k \in DOMAIN window, window[k].kind = "st"
  PROVE  /\ window[k].tag \in StqTag /\ window[k].tag \notin Taken(p)
         /\ FromHead(window[k].tag) >= RetiredCount + RetiringCount
         /\ FromHead(window[k].tag) < StoreCount
<1> TypeOK /\ PointersInOrder
  BY DEF SInv
<1> DEFINE i == window[k].tag
<1>1. i \in StqTag
  BY TagKinds DEF TypeOK
<1>2. StAge[i] \in (RetiredCount + RetiringCount) .. (StoreCount - 1)
  BY RetiringStores DEF Runs, RetiringCount
<1>3. RetiredCount \in Nat /\ RetiringCount \in Nat /\ StoreCount \in Nat
  BY RetiringStores, PointerTypes, Sizes DEF RetiringCount
<1>4. StAge[i] = FromHead(i) /\ FromHead(i) \in Int
  BY <1>1, StoreAges
<1>5. Leaving(p) \in {0, 1} /\ Leaving(p) <= RetiredCount /\ (i \in Taken(p) <=> FromHead(i) < Leaving(p))
  BY <1>1, TakenIsHead
<1> HIDE DEF i
<1>6. FromHead(i) >= RetiredCount + RetiringCount /\ FromHead(i) < StoreCount
  BY <1>2, <1>3, <1>4
<1>7. i \notin Taken(p)
  BY <1>3, <1>4, <1>5, <1>6
<1> QED
  BY <1>1, <1>6, <1>7 DEF i

\* Masks and program order after a cycle.
LEMMA MasksInOrderAfter ==
  ASSUME LInv, NEW p \in Ports, NEW x \in Executable, NEW r \in Answers, Cycle(x, p, r),
         NEW g, NEW misp \in BOOLEAN, NEW n \in Retirable(misp), Advance(g, n, misp)
  PROVE  MasksInOrder'
<1> SInv /\ MasksInOrder
  BY DEF LInv
<1> TypeOK /\ PointersInOrder
  BY DEF SInv
<1> DEFINE u == window \o Dispatched
           W == Len(window)
           P == Len(pipe_retire_pkt)
<1>1. Unsettled' = u
  BY WindowAfter
<1>2. window \in Seq(Instruction) /\ pipe_retire_pkt \in Seq(Instruction) /\ Dispatched \in Seq(Instruction)
  BY DispatchedRuns DEF TypeOK
<1>3. /\ W \in Nat /\ Len(Dispatched) \in Nat
      /\ DOMAIN window = 1 .. W /\ DOMAIN Dispatched = 1 .. Len(Dispatched)
      /\ DOMAIN u = 1 .. (W + Len(Dispatched))
      /\ \A k \in DOMAIN window : u[k] = window[k]
      /\ \A k \in DOMAIN Dispatched : u[k + W] = Dispatched[k]
  BY <1>2, Concatenated
<1>4. /\ P \in Nat
      /\ \A k \in DOMAIN window : k + P \in DOMAIN Unsettled /\ Unsettled[k + P] = window[k]
  BY <1>2, Concatenated DEF Unsettled
<1>5. \A k \in DOMAIN u :
        \/ k \in DOMAIN window /\ u[k] = window[k] /\ k <= W
        \/ k - W \in DOMAIN Dispatched /\ u[k] = Dispatched[k - W] /\ k > W
  <2> HIDE DEF u, W
  <2> TAKE k \in DOMAIN u
  <2>1. CASE k <= W
    BY <1>3, <2>1
  <2>2. CASE k > W
    <3>1. k - W \in DOMAIN Dispatched /\ (k - W) + W = k
      BY <1>3, <2>2
    <3> QED
      BY <1>3, <2>2, <3>1
  <2> QED
    BY <1>3, <2>1, <2>2
<1>6. W \in Int /\ \A k \in DOMAIN u : k \in Int
  BY <1>3
<1> HIDE DEF u, W, P
<1>7. ASSUME NEW j \in DOMAIN u, NEW k \in DOMAIN u, u[j].kind = "st", u[k].kind = "ld"
      PROVE  j < k <=> u[j].tag \in ldq_entry'[u[k].tag].st_mask
  <2> DEFINE t == u[j].tag
             i == u[k].tag
  <2>1. CASE k \in DOMAIN window /\ u[k] = window[k] /\ k <= W
    <3>1. /\ i \in LdqTag /\ Kept(i)
          /\ ldq_entry[i].st_mask \subseteq {q \in StqTag : FromHead(q) < StoreCount}
      BY <1>7, <2>1, WindowLoad
    <3>2. ldq_entry'[i].st_mask = ldq_entry[i].st_mask \ Taken(p)
      BY <3>1, KeptLoadIs
    <3>3. CASE j \in DOMAIN window /\ u[j] = window[j] /\ j <= W
      <4>1. t \notin Taken(p)
        BY <1>7, <3>3, WindowStore
      <4>2. j + P < k + P <=> t \in ldq_entry[i].st_mask
        BY <1>4, <1>7, <2>1, <3>3 DEF MasksInOrder
      <4>3. j + P < k + P <=> j < k
        BY <1>4, <1>6
      <4> QED
        BY <3>2, <4>1, <4>2, <4>3
    <3>4. CASE j - W \in DOMAIN Dispatched /\ u[j] = Dispatched[j - W] /\ j > W
      <4>1. ~ (j < k)
        BY <1>6, <2>1, <3>4
      <4>2. PICK m \in StoreLanes : t = dispatch_st_resp(m)
        BY <1>7, <3>4, DispatchedAt
      <4>3. FromHead(t) = StoreCount + StoresBefore(m) /\ StoresBefore(m) \in Nat /\ StoreCount \in Nat
        <5>1. st_dispatch_cnt \in Int /\ StoresBefore(m) \in 0 .. (st_dispatch_cnt - 1)
          BY StoreSlots, GroupCounts
        <5> QED
          BY <4>2, <5>1, StoreSlots, PointerTypes
      <4>4. ~ (FromHead(t) < StoreCount)
        BY <4>3
      <4> QED
        BY <3>1, <3>2, <4>1, <4>4
    <3> QED
      BY <1>5, <3>3, <3>4
  <2>2. CASE k - W \in DOMAIN Dispatched /\ u[k] = Dispatched[k - W] /\ k > W
    <3>1. PICK l \in Occupied : /\ l \in LoadLanes /\ i = dispatch_ld_resp(l)
                                /\ k - W = Below(l, Occupied) + 1
      BY <1>7, <2>2, DispatchedAt
    <3>2. l \in Lane /\ i \in LdqTag
      BY <3>1, LoadSlots DEF LoadLanes
    <3>3. ldq_entry'[i].st_mask = dispatch_ldq_st_mask(l) \ Taken(p)
      BY <3>1, <3>2, LoadAfter DEF Cycle
    <3>4. dispatch_ldq_st_mask(l) = {q \in StqTag : FromHead(q) < StoreCount + StoresBefore(l)}
      BY <3>2, MaskIs
    <3>5. StoresBefore(l) \in Nat /\ StoreCount \in Nat
      BY <3>2, LaneStores, PointerTypes
    <3>6. CASE j \in DOMAIN window /\ u[j] = window[j] /\ j <= W
      <4>1. t \in StqTag /\ t \notin Taken(p) /\ FromHead(t) < StoreCount
        BY <1>7, <3>6, WindowStore
      <4>2. FromHead(t) \in Int
        BY <4>1, StoreAges
      <4>3. FromHead(t) < StoreCount + StoresBefore(l)
        BY <3>5, <4>1, <4>2
      <4>4. j < k
        BY <1>6, <2>2, <3>6
      <4> QED
        BY <3>3, <3>4, <4>1, <4>3, <4>4
    <3>7. CASE j - W \in DOMAIN Dispatched /\ u[j] = Dispatched[j - W] /\ j > W
      <4>1. PICK m \in Occupied : /\ m \in StoreLanes /\ t = dispatch_st_resp(m)
                                  /\ j - W = Below(m, Occupied) + 1
        BY <1>7, <3>7, DispatchedAt
      <4>2. t \in StqTag /\ FromHead(t) = StoreCount + StoresBefore(m) /\ m \in Lane
        BY <4>1, StoreSlots DEF StoreLanes
      <4>3. StoresBefore(m) \in Nat /\ Below(l, Occupied) \in Int /\ Below(m, Occupied) \in Int
        <5>1. Occupied \in SUBSET Lane /\ l \in Int /\ m \in Int
          BY <3>2, <4>2 DEF Occupied, Lane
        <5>2. \A q \in Int : Below(q, Occupied) \in 0 .. Cardinality(Occupied)
          BY <5>1, LanesCounted
        <5>3. Below(l, Occupied) \in Int /\ Below(m, Occupied) \in Int
          BY <5>1, <5>2
        <5> QED
          BY <4>2, <5>3, LaneStores
      <4>4. j < k <=> m < l
        <5>1. j < k <=> Below(m, Occupied) < Below(l, Occupied)
          BY <1>6, <3>1, <4>1, <4>3
        <5> QED
          BY <5>1, OccupiedInOrder
      <4>5. m < l <=> StoresBefore(m) < StoresBefore(l)
        BY <3>2, <4>1, LaneStores
      <4>6. t \notin Taken(p)
        <5>1. Leaving(p) \in {0, 1} /\ Leaving(p) <= RetiredCount /\ (t \in Taken(p) <=> FromHead(t) < Leaving(p))
          BY <4>2, TakenIsHead
        <5>2. RetiredCount \in Int /\ RetiredCount <= StoreCount
          BY PointerTypes
        <5> QED
          BY <3>5, <4>2, <4>3, <5>1, <5>2
      <4>7. FromHead(t) < StoreCount + StoresBefore(l) <=> StoresBefore(m) < StoresBefore(l)
        BY <3>5, <4>2, <4>3
      <4> QED
        BY <3>3, <3>4, <4>2, <4>4, <4>5, <4>6, <4>7
    <3> QED
      BY <1>5, <3>6, <3>7
  <2> QED
    BY <1>5, <2>1, <2>2
<1> QED
  BY <1>1, <1>7 DEF MasksInOrder

\* An entry without a load has no stores before it.
LEMMA IdleMasksAfter ==
  ASSUME LInv, NEW p \in Ports, NEW x \in Executable, NEW r \in Answers, Cycle(x, p, r)
  PROVE  IdleMasks'
<1> SInv /\ IdleMasks
  BY DEF LInv
<1> TypeOK /\ PointersInOrder
  BY DEF SInv
<1>1. ASSUME NEW i \in LdqTag, ~ (LdFromHead(i)' < LoadCount')
      PROVE  ldq_entry'[i].st_mask = {}
  <2>1. ~Kept(i) /\ \A l \in LoadLanes : dispatch_ld_resp(l) # i
    BY <1>1, LoadFates
  <2>2. ldq_entry' = [k \in LdqTag |-> NextLoad(x, p.ld, p.st, r, k)]
    BY DEF Cycle
  <2>3. CASE LdFromHead(i) < RetiringLoadCount
    <3>1. ldq_entry'[i] = ClearedLoad(next_sleep(x, p.ld, p.st, i), next_order_fail(x, p.ld, i))
      BY <2>2, <2>3, LoadAfter
    <3> QED
      BY <3>1, ClearedLoadIs, LoadParts
  <2>4. CASE ~ (LdFromHead(i) < RetiringLoadCount)
    <3>1. ~ (LdFromHead(i) < LoadCount)
      BY <2>1, <2>4, LoadFates
    <3>2. LdLane(i) = {}
      <4>1. LoadCount \in Int /\ LdFromHead(i) \in Int /\ LoadCount + ld_dispatch_cnt \in Int
        BY PointerTypes, LoadAges, GroupCounts
      <4>2. /\ LdFromHead(i) >= LoadCount
            /\ ~ (LdFromHead(i) >= LoadCount /\ LdFromHead(i) < LoadCount + ld_dispatch_cnt)
        BY <2>1, <3>1, <4>1, LoadLaneOf
      <4>3. LdFromHead(i) >= LoadCount + ld_dispatch_cnt
        BY <4>1, <4>2
      <4> QED
        BY <4>3, LoadLaneOf
    <3>3. ldq_entry'[i].st_mask = NextMask(ldq_entry[i], p)
      BY <2>2, <2>4, <3>2, LoadAfter
    <3>4. ldq_entry[i].st_mask = {}
      BY <3>1 DEF IdleMasks
    <3> QED
      BY <3>3, <3>4 DEF NextMask
  <2> QED
    BY <2>3, <2>4
<1> QED
  BY <1>1 DEF IdleMasks

---------------------------------------------------------------------------
(* Views and expectations *)

\* The stores before a load that is kept, and the one that leaves.
LEMMA KeptMask ==
  ASSUME LInv, NEW p \in Ports, NEW x \in Executable, NEW r \in Answers, Cycle(x, p, r),
         NEW i \in LdqTag, Kept(i)
  PROVE  /\ ldq_entry[i].st_mask \in SUBSET StqTag
         /\ \A j \in ldq_entry[i].st_mask : FromHead(j) < StoreCount /\ stq_entry[j].entry_valid
         /\ \A j \in ldq_entry[i].st_mask \ Taken(p) : Stays(p, j)
         /\ p.st => fire_st \in ldq_entry[i].st_mask /\ fire_st \in stq_addr_valid
<1> SInv /\ MasksBounded
  BY DEF LInv
<1> TypeOK /\ PointersInOrder /\ StoreEntries
  BY DEF SInv
<1>1. PICK n \in RetiredCount .. StoreCount : Bound(i, n)
  BY DEF MasksBounded, Kept
<1>2. ldq_entry[i].st_mask = {j \in StqTag : FromHead(j) < n}
  BY <1>1 DEF Bound
<1>3. /\ RetiredCount \in Int /\ StoreCount \in Int /\ n \in Int /\ n <= StoreCount /\ RetiredCount <= n
      /\ RetiredCount <= StoreCount
  BY <1>1, PointerTypes
<1>4. \A j \in StqTag : FromHead(j) \in Int
  BY StoreAges
<1>5. \A j \in ldq_entry[i].st_mask : FromHead(j) < StoreCount /\ j \in StqTag
  BY <1>2, <1>3, <1>4
<1>6. \A j \in ldq_entry[i].st_mask : stq_entry[j].entry_valid
  BY <1>5, ValidStores
<1>7. \A j \in ldq_entry[i].st_mask \ Taken(p) : Stays(p, j)
  <2>1. \A j \in StqTag : Stays(p, j) <=> j \notin Taken(p) /\ FromHead(j) < StoreCount
    BY StoreFates
  <2> QED
    BY <1>5, <2>1
<1>8. ASSUME p.st PROVE fire_st \in ldq_entry[i].st_mask /\ fire_st \in stq_addr_valid
  <2>1. fire_st = st_head.ptr /\ RetiredCount > 0
    BY <1>8, TakenIsHead
  <2>2. fire_st \in StqTag /\ FromHead(fire_st) = 0
    BY <2>1, StoreAges
  <2>3. FromHead(fire_st) < n /\ FromHead(fire_st) < StoreCount /\ FromHead(fire_st) < RetiredCount
    BY <1>3, <2>1, <2>2
  <2>4. stq_entry[fire_st].entry_valid /\ stq_entry[fire_st].addr_valid
    BY <2>2, <2>3 DEF StoreEntries
  <2> QED
    BY <1>2, <2>2, <2>3, <2>4 DEF stq_addr_valid
<1> QED
  BY <1>2, <1>5, <1>6, <1>7, <1>8

\* The stores a kept load can see after the cycle.
LEMMA ViewAfter ==
  ASSUME LInv, NEW p \in Ports, NEW x \in Executable, NEW r \in Answers, Cycle(x, p, r),
         NEW i \in LdqTag, Kept(i)
  PROVE  /\ View(i)' = {j \in ldq_entry[i].st_mask \ Taken(p) :
                          stq_entry[j].addr_valid \/ Executes(x, "st", j)}
         /\ View(i) = {j \in ldq_entry[i].st_mask : stq_entry[j].addr_valid}
         /\ \A j \in ldq_entry[i].st_mask \ Taken(p) :
              stq_entry'[j].st = stq_entry[j].st /\ stq_entry'[j].entry_valid
<1> SInv
  BY DEF LInv
<1> DEFINE M == ldq_entry[i].st_mask
<1>1. ldq_entry'[i].st_mask = M \ Taken(p)
  BY KeptLoadIs
<1>2. M \in SUBSET StqTag /\ \A j \in M : stq_entry[j].entry_valid
  BY KeptMask
<1>3. StqStep(x, p.st)
  BY DEF Cycle
<1>4. \A j \in M \ Taken(p) : Stays(p, j)
  BY KeptMask
<1>5. \A j \in M \ Taken(p) :
        /\ stq_entry'[j].st = stq_entry[j].st /\ stq_entry'[j].entry_valid
        /\ stq_entry'[j].addr_valid <=> stq_entry[j].addr_valid \/ Executes(x, "st", j)
  BY <1>2, <1>3, <1>4, StoreFieldsAfter
<1>6. View(i)' = (M \ Taken(p)) \cap {j \in StqTag : stq_entry'[j].addr_valid /\ stq_entry'[j].entry_valid}
  BY <1>1 DEF View, stq_addr_valid
<1>7. View(i) = M \cap {j \in StqTag : stq_entry[j].addr_valid /\ stq_entry[j].entry_valid}
  BY DEF View, stq_addr_valid
<1> HIDE DEF M
<1>8. View(i)' = {j \in M \ Taken(p) : stq_entry[j].addr_valid \/ Executes(x, "st", j)}
  BY <1>2, <1>5, <1>6
<1>9. View(i) = {j \in M : stq_entry[j].addr_valid}
  BY <1>2, <1>7
<1> QED
  BY <1>5, <1>8, <1>9 DEF M

\* A value of the stores before a kept load stays one.
LEMMA MaskValueAfter ==
  ASSUME LInv, NEW p \in Ports, NEW x \in Executable, NEW r \in Answers, Cycle(x, p, r),
         NEW i \in LdqTag, Kept(i), NEW a \in Addr, NEW b \in Byte, NEW v,
         IsValue(v, stq_entry, StAge, memory, ldq_entry[i].st_mask, a, b)
  PROVE  IsValue(v, stq_entry', StAge', memory', ldq_entry[i].st_mask \ Taken(p), a, b)
<1> SInv
  BY DEF LInv
<1> DEFINE M == ldq_entry[i].st_mask
<1>1. StqStep(x, p.st) /\ memory' = next_memory(p)
  BY DEF Cycle
<1>2. M \in SUBSET StqTag /\ (\A j \in M \ Taken(p) : Stays(p, j)) /\ (p.st => fire_st \in M)
  BY KeptMask
<1>3. IsValue(v, stq_entry, StAge, memory, M, a, b)
  OBVIOUS
<1> HIDE DEF M
<1>4. IsValue(v, stq_entry', StAge', memory', M \ Taken(p), a, b)
  BY <1>1, <1>2, <1>3, ValueAfter
<1> QED
  BY <1>4 DEF M

\* A value of the stores it can see stays one unless the address of another
\* store to that word arrives.
LEMMA ViewValueAfter ==
  ASSUME LInv, NEW p \in Ports, NEW x \in Executable, NEW r \in Answers, Cycle(x, p, r),
         NEW i \in LdqTag, Kept(i), NEW a \in Addr, NEW b \in Byte, NEW v,
         \A j \in ldq_entry[i].st_mask : Executes(x, "st", j) => stq_entry[j].st.addr # a,
         IsValue(v, stq_entry, StAge, memory, View(i), a, b)
  PROVE  IsValue(v, stq_entry', StAge', memory', View(i)', a, b)
<1> SInv
  BY DEF LInv
<1> DEFINE M == ldq_entry[i].st_mask
           S == View(i)
<1>1. StqStep(x, p.st) /\ memory' = next_memory(p)
  BY DEF Cycle
<1>2. /\ M \in SUBSET StqTag /\ (\A j \in M \ Taken(p) : Stays(p, j))
      /\ (p.st => fire_st \in M /\ fire_st \in stq_addr_valid)
  BY KeptMask
<1>3. S \in SUBSET StqTag /\ (\A j \in S \ Taken(p) : Stays(p, j)) /\ (p.st => fire_st \in S)
  BY <1>2 DEF View
<1>4. /\ View(i)' = {j \in M \ Taken(p) : stq_entry[j].addr_valid \/ Executes(x, "st", j)}
      /\ S = {j \in M : stq_entry[j].addr_valid}
      /\ \A j \in M \ Taken(p) : stq_entry'[j].st = stq_entry[j].st
  BY ViewAfter
<1>5. IsValue(v, stq_entry, StAge, memory, S, a, b)
  OBVIOUS
<1>6. \A j \in M : Executes(x, "st", j) => stq_entry[j].st.addr # a
  OBVIOUS
<1> DEFINE T == View(i)'
<1> HIDE DEF M, S, T
<1>7. IsValue(v, stq_entry', StAge', memory', S \ Taken(p), a, b)
  BY <1>1, <1>3, <1>5, ValueAfter
<1>8. T = {j \in M \ Taken(p) : stq_entry[j].addr_valid \/ Executes(x, "st", j)}
  BY <1>4 DEF T
<1>9. Writers(stq_entry', S \ Taken(p), a, b) = Writers(stq_entry', T, a, b)
  BY <1>4, <1>6, <1>8 DEF Writers
<1>10. IsValue(v, stq_entry', StAge', memory', T, a, b)
  BY <1>7, <1>9, ValueOfWriters
<1> QED
  BY <1>10 DEF T

\* What program order prescribes for a load being dispatched.
LEMMA ExpectedIs ==
  ASSUME LInv, NEW p \in Ports, NEW x \in Executable, NEW r \in Answers, Cycle(x, p, r),
         NEW l \in LoadLanes, NEW a \in Addr, NEW b \in Byte
  PROVE  IsValue(OlderByte(a, b, l), stq_entry', StAge', memory',
                 dispatch_ldq_st_mask(l) \ Taken(p), a, b)
<1> SInv
  BY DEF LInv
<1> TypeOK /\ PointersInOrder
  BY DEF SInv
<1> DEFINE group == {m \in Lane : /\ m < l /\ IsStore(pipe_rename_pkt[m])
                                  /\ pipe_rename_pkt[m].addr = a
                                  /\ b \in pipe_rename_pkt[m].bytes}
           queue == {i \in StqTag : /\ stq_entry[i].entry_valid
                                    /\ stq_entry[i].st.addr = a
                                    /\ b \in stq_entry[i].st.bytes}
           last  == CHOOSE i \in queue : \A j \in queue : FromHead(j) <= FromHead(i)
           v     == IF queue # {} THEN stq_entry[last].st.val ELSE memory[a][b]
           w     == OlderByte(a, b, l)
           S     == {j \in StqTag : FromHead(j) < StoreCount}
           T     == {dispatch_st_resp(m) : m \in {k \in StoreLanes : k < l}}
           L     == Leaving(p)
<1>1. w = IF group # {} THEN pipe_rename_pkt[MaxOf(group)].val ELSE v
  BY DEF OlderByte
<1>2. l \in Lane /\ \A m \in Lane : m \in Int
  BY DEF LoadLanes, Lane
<1>3. /\ \A j \in StqTag : FromHead(j) \in 0 .. (STQ_DEPTH - 1)
      /\ \A j \in StqTag : FromHead(j)' = IF FromHead(j) >= L THEN FromHead(j) - L ELSE STQ_DEPTH - 1
      /\ \A j \in StqTag : j \in Taken(p) <=> FromHead(j) < L
      /\ \A j \in StqTag : Stays(p, j) <=> j \notin Taken(p) /\ FromHead(j) < StoreCount
      /\ L \in 0 .. 1 /\ L <= RetiredCount /\ RetiredCount \in 0 .. STQ_DEPTH
      /\ StoreCount \in 0 .. STQ_DEPTH /\ STQ_DEPTH \in Nat
      /\ StqStep(x, p.st) /\ memory' = next_memory(p)
  BY StoreFates, Zenon
<1>4. RetiredCount <= StoreCount
  BY PointerTypes
<1>5. queue = Writers(stq_entry, S, a, b)
  BY ValidStores DEF Writers
<1>6. IsValue(v, stq_entry, StAge, memory, S, a, b)
  <2>1. CASE queue = {}
    BY <1>5, <2>1 DEF IsValue
  <2>2. CASE queue # {}
    <3>1. \E i \in queue : \A j \in queue : FromHead(j) <= FromHead(i)
      <4> DEFINE A == {FromHead(i) : i \in queue}
      <4>1. A \in SUBSET (0 .. (STQ_DEPTH - 1)) /\ A # {} /\ STQ_DEPTH - 1 \in Nat
        BY <2>2, StoreAges, Sizes
      <4>2. PICK y \in A : \A z \in A : z <= y
        BY <4>1, GreatestElement
      <4> QED
        BY <4>2
    <3>2. last \in queue /\ \A j \in queue : FromHead(j) <= FromHead(last)
      BY <3>1
    <3>3. \A j \in queue : StAge[j] = FromHead(j)
      BY StoreAges
    <3>4. v = stq_entry[last].st.val
      BY <2>2
    <3> HIDE DEF v, last, queue, S
    <3>5. last \in Writers(stq_entry, S, a, b)
          /\ \A j \in Writers(stq_entry, S, a, b) : StAge[j] <= StAge[last]
      BY <1>5, <3>2, <3>3
    <3> QED
      BY <3>4, <3>5 DEF IsValue
  <2> QED
    BY <2>1, <2>2
<1> HIDE DEF v, queue, last, w
<1>7. IsValue(v, stq_entry', StAge', memory', S \ Taken(p), a, b)
  <2>1. S \in SUBSET StqTag /\ \A j \in S \ Taken(p) : Stays(p, j)
    BY <1>3
  <2>2. p.st => fire_st \in S
    <3>1. SUFFICES ASSUME p.st PROVE fire_st \in S
      OBVIOUS
    <3>2. fire_st = st_head.ptr /\ RetiredCount > 0
      BY <3>1, TakenIsHead
    <3>3. fire_st \in StqTag /\ FromHead(fire_st) = 0
      BY <3>2, StoreAges
    <3> QED
      BY <1>3, <1>4, <3>2, <3>3
  <2> HIDE DEF S
  <2> QED
    BY <1>3, <1>6, <2>1, <2>2, ValueAfter
<1>18. \A t \in StqTag : FromHead(t) >= L => StAge'[t] = FromHead(t) - L
  <2> TAKE t \in StqTag
  <2>1. StAge'[t] = FromHead(t)'
    BY DEF StAge
  <2> HIDE DEF L
  <2> QED
    BY <1>3, <2>1
<1>8. ASSUME NEW m \in StoreLanes, m < l
      PROVE  /\ dispatch_st_resp(m) \in StqTag
             /\ FromHead(dispatch_st_resp(m)) = StoreCount + StoresBefore(m)
             /\ StoresBefore(m) \in Nat /\ StoresBefore(m) < StoresBefore(l)
             /\ stq_entry'[dispatch_st_resp(m)].st = pipe_rename_pkt[m]
             /\ StAge'[dispatch_st_resp(m)] = (StoreCount + StoresBefore(m)) - L
  <2>1. m \in Lane
    BY DEF StoreLanes
  <2>2. /\ dispatch_st_resp(m) \in StqTag
        /\ FromHead(dispatch_st_resp(m)) = StoreCount + StoresBefore(m)
    BY StoreSlots
  <2>3. StoresBefore(m) \in Nat /\ StoresBefore(m) < StoresBefore(l)
    BY <1>2, <1>8, <2>1, LaneStores
  <2>4. stq_entry'[dispatch_st_resp(m)].st = pipe_rename_pkt[m]
    BY <1>3, <2>2, StoreFieldsAfter
  <2> DEFINE t == dispatch_st_resp(m)
  <2>5. t \in StqTag /\ FromHead(t) = StoreCount + StoresBefore(m)
    BY <2>2
  <2> HIDE DEF L, t
  <2>6. FromHead(t) >= L
    BY <1>3, <1>4, <2>3, <2>5
  <2>7. StAge'[t] = (StoreCount + StoresBefore(m)) - L
    BY <1>18, <2>5, <2>6
  <2> QED
    BY <2>2, <2>3, <2>4, <2>7 DEF t
<1>9. \A m \in group : m \in StoreLanes /\ m < l /\ m \in Lane
  BY DEF StoreLanes
<1>10. ASSUME NEW j \in T
       PROVE  \E m \in StoreLanes : /\ m < l /\ j = dispatch_st_resp(m)
                                    /\ (j \in Writers(stq_entry', T, a, b) => m \in group)
  <2>1. PICK m \in StoreLanes : m < l /\ j = dispatch_st_resp(m)
    OBVIOUS
  <2>2. j \in Writers(stq_entry', T, a, b) => m \in group
    BY <1>8, <2>1 DEF Writers, StoreLanes
  <2> QED
    BY <2>1, <2>2
<1>11. \A m \in group : dispatch_st_resp(m) \in Writers(stq_entry', T, a, b)
  BY <1>8, <1>9 DEF Writers
<1>12. ASSUME group # {}
       PROVE  \E i \in Writers(stq_entry', T, a, b) :
                /\ \A j \in Writers(stq_entry', T, a, b) : StAge'[j] <= StAge'[i]
                /\ w = stq_entry'[i].st.val
  <2> DEFINE c == MaxOf(group)
             i == dispatch_st_resp(c)
  <2>1. c \in group /\ \A m \in group : m <= c
    <3>1. group \in SUBSET (0 .. MACHINE_WIDTH) /\ MACHINE_WIDTH \in Nat
      BY Sizes DEF Lane
    <3> HIDE DEF group
    <3> QED
      BY <1>12, <3>1, MaxOfIs
  <2>2. w = pipe_rename_pkt[c].val
    BY <1>1, <1>12
  <2> HIDE DEF c
  <2>3. c \in StoreLanes /\ c < l /\ i \in Writers(stq_entry', T, a, b) /\ w = stq_entry'[i].st.val
    BY <1>8, <1>9, <1>11, <2>1, <2>2
  <2>4. ASSUME NEW j \in Writers(stq_entry', T, a, b) PROVE StAge'[j] <= StAge'[i]
    <3>1. PICK m \in StoreLanes : m < l /\ j = dispatch_st_resp(m) /\ m \in group
      <4>1. j \in T
        BY DEF Writers
      <4> QED
        BY <1>10, <4>1
    <3>2. m <= c /\ m \in Lane /\ c \in Lane
      BY <1>9, <2>1, <3>1
    <3>3. StoresBefore(m) <= StoresBefore(c) /\ StoresBefore(m) \in Nat /\ StoresBefore(c) \in Nat
      <4>1. StoresBefore(m) \in Nat /\ StoresBefore(c) \in Nat
        BY <1>8, <2>3, <3>1
      <4>2. m < c <=> StoresBefore(m) < StoresBefore(c)
        BY <3>1, <3>2, LaneStores
      <4>3. m < c \/ m = c
        BY <1>2, <3>2
      <4> QED
        BY <4>1, <4>2, <4>3
    <3>4. StAge'[j] = (StoreCount + StoresBefore(m)) - L /\ StAge'[i] = (StoreCount + StoresBefore(c)) - L
      BY <1>8, <2>3, <3>1
    <3> HIDE DEF L
    <3> QED
      BY <1>3, <3>3, <3>4
  <2> QED
    BY <2>3, <2>4
<1>13. group = {} => Writers(stq_entry', T, a, b) = {} /\ w = v
  <2> SUFFICES ASSUME group = {} PROVE Writers(stq_entry', T, a, b) = {} /\ w = v
    OBVIOUS
  <2>1. w = v
    BY <1>1
  <2>2. \A j \in Writers(stq_entry', T, a, b) : j \in T
    BY DEF Writers
  <2> HIDE DEF T
  <2>3. Writers(stq_entry', T, a, b) = {}
    BY <1>10, <2>2
  <2> QED
    BY <2>1, <2>3
<1>14. IF Writers(stq_entry', T, a, b) = {} THEN w = v
       ELSE \E i \in Writers(stq_entry', T, a, b) :
              /\ \A j \in Writers(stq_entry', T, a, b) : StAge'[j] <= StAge'[i]
              /\ w = stq_entry'[i].st.val
  <2> HIDE DEF group, T
  <2> QED
    BY <1>12, <1>13
<1>15. \A i \in S \ Taken(p) : \A j \in T : StAge'[i] <= StAge'[j]
  <2> TAKE i \in S \ Taken(p)
  <2> TAKE j \in T
  <2>1. PICK m \in StoreLanes : m < l /\ j = dispatch_st_resp(m)
    OBVIOUS
  <2>2. StAge'[j] = (StoreCount + StoresBefore(m)) - L /\ StoresBefore(m) \in Nat
    BY <1>8, <2>1
  <2>3. i \in StqTag /\ FromHead(i) < StoreCount /\ ~ (FromHead(i) < L)
    BY <1>3
  <2>4. StAge'[i] = FromHead(i)'
    BY <2>3 DEF StAge
  <2> HIDE DEF L
  <2>5. FromHead(i)' = FromHead(i) - L
    BY <1>3, <2>3
  <2> QED
    BY <1>3, <2>2, <2>3, <2>4, <2>5
<1>16. (S \ Taken(p)) \cup T = dispatch_ldq_st_mask(l) \ Taken(p)
  <2>1. dispatch_ldq_st_mask(l) = {j \in StqTag : FromHead(j) < StoreCount + StoresBefore(l)}
    BY <1>2, MaskIs
  <2>2. StoresBefore(l) \in Nat
    BY <1>2, LaneStores
  <2>3. T = {j \in StqTag : FromHead(j) >= StoreCount /\ FromHead(j) < StoreCount + StoresBefore(l)}
    <3>1. ASSUME NEW j \in T
          PROVE  j \in StqTag /\ FromHead(j) >= StoreCount /\ FromHead(j) < StoreCount + StoresBefore(l)
      <4>1. PICK m \in StoreLanes : m < l /\ j = dispatch_st_resp(m)
        OBVIOUS
      <4>2. /\ j \in StqTag /\ FromHead(j) = StoreCount + StoresBefore(m)
            /\ StoresBefore(m) \in Nat /\ StoresBefore(m) < StoresBefore(l)
        BY <1>8, <4>1
      <4> QED
        BY <1>3, <2>2, <4>2
    <3>2. ASSUME NEW j \in StqTag, FromHead(j) >= StoreCount, FromHead(j) < StoreCount + StoresBefore(l)
          PROVE  j \in T
      <4>1. FromHead(j) - StoreCount \in 0 .. (StoresBefore(l) - 1)
        BY <1>3, <2>2, <3>2
      <4>2. PICK m \in StoreLanes : m < l /\ StoresBefore(m) = FromHead(j) - StoreCount
        BY <1>2, <4>1, LaneStores
      <4>3. StoreCount + (FromHead(j) - StoreCount) = FromHead(j)
        BY <1>3
      <4>4. dispatch_st_resp(m) \in StqTag /\ FromHead(dispatch_st_resp(m)) = FromHead(j)
        BY <1>8, <4>2, <4>3
      <4>5. dispatch_st_resp(m) = j
        BY <4>4, StoreAges
      <4> QED
        BY <4>2, <4>5
    <3> HIDE DEF T
    <3> QED
      BY <3>1, <3>2
  <2> HIDE DEF T, L
  <2>4. ASSUME NEW j \in StqTag
        PROVE  FromHead(j) < StoreCount + StoresBefore(l) /\ ~ (FromHead(j) < L) <=>
                 \/ FromHead(j) < StoreCount /\ ~ (FromHead(j) < L)
                 \/ FromHead(j) >= StoreCount /\ FromHead(j) < StoreCount + StoresBefore(l)
    BY <1>3, <1>4, <2>2
  <2> QED
    BY <1>3, <2>1, <2>3, <2>4
<1>17. IsValue(w, stq_entry', StAge', memory', (S \ Taken(p)) \cup T, a, b)
  <2> DEFINE S2 == S \ Taken(p)
  <2>1. IsValue(v, stq_entry', StAge', memory', S2, a, b) /\ \A i \in S2 : \A j \in T : StAge'[i] <= StAge'[j]
    BY <1>7, <1>15
  <2> HIDE DEF S2, T, S
  <2>2. IsValue(w, stq_entry', StAge', memory', S2 \cup T, a, b)
    BY <1>14, <2>1, ValueExtends
  <2> QED
    BY <2>2 DEF S2
<1> QED
  BY <1>16, <1>17 DEF w

---------------------------------------------------------------------------
(* The cache's answer, the offer and the forward *)

\* A store that executes had no address.
LEMMA ExecutingHadNoAddress ==
  ASSUME NEW x, x \in Executable, x.kind = "st"
  PROVE  ~ (x.tag \in stq_addr_valid)
<1>1. x # NoExec
  BY DEF NoExec
<1>2. ~Executed(x)
  BY <1>1 DEF Executable
<1>3. ~stq_entry[x.tag].addr_valid
  BY <1>2 DEF Executed
<1> QED
  BY <1>3 DEF stq_addr_valid

\* A load whose older stores have their addresses is not sent back.
LEMMA NoViolation ==
  ASSUME NEW x \in Executable, NEW a, NEW i,
         ~ldq_entry[i].addr_valid \/ ldq_entry[i].st_mask \subseteq stq_addr_valid
  PROVE  ~st_ld_violation(x, a, i)
<1> SUFFICES ASSUME st_ld_violation(x, a, i) PROVE FALSE
  OBVIOUS
<1>1. x.kind = "st" /\ ldq_entry[i].addr_valid /\ x.tag \in ldq_entry[i].st_mask
  BY DEF st_ld_violation
<1>2. x.tag \in stq_addr_valid
  BY <1>1
<1> QED
  BY <1>1, <1>2, ExecutingHadNoAddress

\* Nothing is on its way for a load that retires or for an entry without one.
LEMMA NotKeptIs ==
  ASSUME LInv, NEW p \in Ports, NEW x \in Executable, NEW r \in Answers, Cycle(x, p, r),
         NEW i \in LdqTag, ~Kept(i)
  PROVE  /\ \A a : ~st_ld_violation(x, a, i)
         /\ dcache[i] = None /\ ~Awaited(i) /\ ~ldq_entry[i].order_fail
         /\ fire_ld # None => fire_ld.ldq_tag # i
         /\ LdFromHead(i) < RetiringLoadCount => ldq_entry[i].data # None
         /\ ~ (LdFromHead(i) < RetiringLoadCount) =>
              /\ ~ldq_entry[i].addr_valid /\ ~ldq_entry[i].fired
              /\ ldq_entry[i].data = None /\ ldq_entry[i].writebacked = None
<1> SInv /\ LoadsMarked /\ LoadsComplete /\ LoadsAnswered /\ LoadsOwed /\ OffersLoad
    /\ ForwardsLoad /\ LoadsSettled
  BY DEF LInv
<1> TypeOK /\ LoadEntries /\ PointersInOrder
  BY DEF SInv
<1>1. CASE LdFromHead(i) < RetiringLoadCount
  <2>1. i \in RetiredTags("ld")
    BY <1>1, LoadFates
  <2>2. PICK k \in DOMAIN pipe_retire_pkt : pipe_retire_pkt[k].kind = "ld" /\ pipe_retire_pkt[k].tag = i
    BY <2>1 DEF RetiredTags
  <2>3. ldq_entry[i].writebacked # None
    BY <2>2 DEF LoadsComplete
  <2>4. ldq_entry[i].data # None /\ ldq_entry[i].st_mask \subseteq stq_addr_valid
    BY <2>3 DEF LoadsSettled
  <2>5. ~ldq_entry[i].order_fail
    BY <2>4 DEF LoadsAnswered
  <2>6. dcache[i] = None
    BY <2>4 DEF LoadsOwed
  <2>7. ~Awaited(i)
    BY <2>1 DEF ForwardsLoad
  <2>8. fire_ld # None => fire_ld.ldq_tag # i
    BY <2>4 DEF OffersLoad
  <2>9. \A a : ~st_ld_violation(x, a, i)
    BY <2>4, NoViolation
  <2> QED
    BY <1>1, <2>4, <2>5, <2>6, <2>7, <2>8, <2>9
<1>2. CASE ~ (LdFromHead(i) < RetiringLoadCount)
  <2>1. ~ (LdFromHead(i) < LoadCount)
    BY <1>2, LoadFates
  <2>2. ~ldq_entry[i].addr_valid
    BY <2>1 DEF LoadEntries
  <2>3. ldq_entry[i].data = None
    BY <2>2 DEF LoadsAnswered
  <2>4. ~ldq_entry[i].order_fail /\ ~ldq_entry[i].fired
    BY <2>2 DEF LoadsMarked
  <2>5. ldq_entry[i].writebacked = None
    BY <2>3 DEF LoadsSettled
  <2>6. dcache[i] = None
    BY <2>2 DEF LoadsOwed
  <2>7. ~Awaited(i)
    BY <2>2 DEF ForwardsLoad
  <2>8. fire_ld # None => fire_ld.ldq_tag # i
    BY <2>2 DEF OffersLoad
  <2>9. \A a : ~st_ld_violation(x, a, i)
    BY <2>2, NoViolation
  <2> QED
    BY <1>2, <2>2, <2>3, <2>4, <2>5, <2>6, <2>7, <2>8, <2>9
<1> QED
  BY <1>1, <1>2

\* A load that is accepted was offered.
LEMMA AcceptedIs ==
  ASSUME NEW p \in Ports, NEW i, Accepted(p.ld, i)
  PROVE  p.ld /\ fire_ld # None /\ fire_ld.ldq_tag = i
  BY DEF Accepted, Ports

\* An answer is for a load that is owed one.
LEMMA AnswerIs ==
  ASSUME NEW r \in Answers, NEW i \in LdqTag, dcache[i] = None
  PROVE  r # i
<1>1. i # None
  BY NoneAssumption
<1> QED
  BY <1>1 DEF Answers

\* The next answer of the store queue is for the load on offer.
LEMMA NextForward ==
  ASSUME NEW s \in BOOLEAN, next_fwd(s).valid \/ next_fwd(s).sleep
  PROVE  /\ fire_ld # None /\ ~pipe_flush /\ match # {}
         /\ next_fwd(s).ldq_tag = fire_ld.ldq_tag /\ next_fwd(s).stq_tag = fwd_stq_idx
         /\ next_fwd(s).valid =>
              /\ ~addr_conflict /\ ~next_fwd(s).sleep
              /\ next_fwd(s).data = [b \in fire_ld.ld.bytes |-> stq_entry[fwd_stq_idx].st.val]
         /\ next_fwd(s).sleep => ~next_fwd(s).valid /\ ~ (s /\ fire_st = fwd_stq_idx)
<1>1. ~NoFwd.valid /\ ~NoFwd.sleep
  BY DEF NoFwd
<1>2. fire_ld # None /\ ~pipe_flush /\ match # {}
  BY <1>1 DEF next_fwd
<1>3. next_fwd(s) = IF addr_conflict
                      THEN IF s /\ fire_st = fwd_stq_idx THEN NoFwd
                           ELSE [valid |-> FALSE, sleep |-> TRUE, ldq_tag |-> fire_ld.ldq_tag,
                                 stq_tag |-> fwd_stq_idx, data |-> None]
                      ELSE [valid |-> TRUE, sleep |-> FALSE, ldq_tag |-> fire_ld.ldq_tag,
                            stq_tag |-> fwd_stq_idx,
                            data |-> [b \in fire_ld.ld.bytes |-> stq_entry[fwd_stq_idx].st.val]]
  BY <1>2, Zenon DEF next_fwd
<1>4. CASE addr_conflict
  BY <1>1, <1>2, <1>3, <1>4
<1>5. CASE ~addr_conflict
  BY <1>1, <1>2, <1>3, <1>5
<1> QED
  BY <1>4, <1>5

---------------------------------------------------------------------------
(* Loads that leave *)

\* Nothing is on its way for it after the cycle, either.
LEMMA NotKeptAfter ==
  ASSUME LInv, NEW p \in Ports, NEW x \in Executable, NEW r \in Answers, Cycle(x, p, r),
         NEW i \in LdqTag, ~Kept(i)
  PROVE  /\ ~ldq_entry'[i].fired /\ ~ldq_entry'[i].order_fail
         /\ ldq_entry'[i].data = None /\ ldq_entry'[i].writebacked = None
         /\ dcache'[i] = None /\ ~Awaited(i)'
         /\ fire_ld' # None => fire_ld'.ldq_tag # i
<1> SInv
  BY DEF LInv
<1> TypeOK /\ LoadEntries
  BY DEF SInv
<1> DEFINE e == ldq_entry[i]
           f == ldq_entry'[i]
<1>1. /\ \A a : ~st_ld_violation(x, a, i)
      /\ dcache[i] = None /\ ~FwdValid(i) /\ ~FwdSleep(i) /\ ~e.order_fail
      /\ fire_ld # None => fire_ld.ldq_tag # i
      /\ LdFromHead(i) < RetiringLoadCount => e.data # None
      /\ ~ (LdFromHead(i) < RetiringLoadCount) =>
           ~e.addr_valid /\ ~e.fired /\ e.data = None /\ e.writebacked = None
  BY NotKeptIs DEF Awaited
<1>2. ldq_entry' = [k \in LdqTag |-> NextLoad(x, p.ld, p.st, r, k)]
      /\ fwd' = next_fwd(p.st) /\ fire_ld' = next_fire_ld(x, p.ld) /\ dcache' = next_dcache(x, p, r)
  BY DEF Cycle, StqStep
<1>3. ~Accepted(p.ld, i) /\ r # i
  BY <1>1, AcceptedIs, AnswerIs
<1>4. ~f.order_fail
  <2>1. ~next_order_fail(x, p.ld, i)
    BY <1>1 DEF next_order_fail
  <2> QED
    BY <1>2, <2>1, LoadAfter
<1>5. ~f.fired /\ f.data = None /\ f.writebacked = None
  <2>1. CASE LdFromHead(i) < RetiringLoadCount
    <3>1. f = ClearedLoad(next_sleep(x, p.ld, p.st, i), next_order_fail(x, p.ld, i))
      BY <1>2, <2>1, LoadAfter
    <3> QED
      BY <3>1, ClearedLoadIs, LoadParts
  <2>2. CASE ~ (LdFromHead(i) < RetiringLoadCount)
    <3>1. ~next_fired(x, p.ld, i)
      BY <1>1, <1>3, <2>2 DEF next_fired
    <3>2. next_data(x, p.ld, r, i) = None
      BY <1>1, <1>3, <2>2 DEF next_data, fwd_data_accept, dcache_data_accept
    <3>3. ~Writebacks(x, p.ld, r, i)
      <4>1. ~ld_writeback(x, p.ld, r, i)
        BY <1>1, <1>3, <2>2 DEF ld_writeback, fwd_data_accept, dcache_data_accept
      <4> SUFFICES ASSUME Writebacks(x, p.ld, r, i) PROVE FALSE
        OBVIOUS
      <4> DEFINE req == {j \in LdqTag : ld_writeback(x, p.ld, r, j)}
      <4>2. req # {} /\ i = MinOf(req)
        BY DEF Writebacks
      <4>3. MinOf(req) \in req
        <5>1. req \in SUBSET (0 .. LDQ_DEPTH)
          BY Sizes DEF LdqTag
        <5>2. LDQ_DEPTH \in Nat
          BY Sizes
        <5> HIDE DEF req
        <5> QED
          BY <4>2, <5>1, <5>2, MinOfIs
      <4> QED
        BY <4>1, <4>2, <4>3
    <3>4. NextWriteback(x, p, r, i) = None
      BY <1>1, <2>2, <3>3 DEF NextWriteback
    <3> QED
      BY <1>2, <2>2, <3>1, <3>2, <3>4, LoadAfter
  <2> QED
    BY <2>1, <2>2
<1>6. dcache'[i] = None
  BY <1>1, <1>2, <1>3 DEF next_dcache
<1>7. ~Awaited(i)'
  <2>1. ASSUME next_fwd(p.st).valid \/ next_fwd(p.st).sleep PROVE next_fwd(p.st).ldq_tag # i
    <3>1. p.st \in BOOLEAN
      BY TakenIsHead
    <3> QED
      BY <1>1, <2>1, <3>1, NextForward
  <2> QED
    BY <1>2, <2>1 DEF Awaited, FwdValid, FwdSleep
<1>8. fire_ld' # None => fire_ld'.ldq_tag # i
  <2> SUFFICES ASSUME fire_ld' # None, fire_ld'.ldq_tag = i PROVE FALSE
    OBVIOUS
  <2>1. PICK j \in LdqTag : /\ ld_wakeup(x, p.ld, j)
                            /\ next_fire_ld(x, p.ld) = [ldq_tag |-> j, ld |-> ldq_entry[j].ld,
                                                        st_mask |-> ldq_entry[j].st_mask,
                                                        st_youngest |-> ldq_entry[j].st_youngest]
    BY <1>2, NextOffer
  <2>2. j = i
    BY <1>2, <2>1
  <2>3. LdFromHead(i) < LoadCount /\ e.data = None
    BY <2>1, <2>2, ReadyLoads DEF ld_wakeup
  <2>4. i \in RetiredTags("ld") /\ LdFromHead(i) < RetiringLoadCount
    BY <2>3, LoadFates
  <2> QED
    BY <1>1, <2>3, <2>4
<1> QED
  BY <1>4, <1>5, <1>6, <1>7, <1>8

\* What a load can see stays a value of it unless the address of a store
\* before it to that word arrives.
LEMMA ValuesAfter ==
  ASSUME LInv, NEW p \in Ports, NEW x \in Executable, NEW r \in Answers, Cycle(x, p, r),
         NEW i \in LdqTag, Kept(i), NEW v,
         \A j \in ldq_entry[i].st_mask : Executes(x, "st", j) => stq_entry[j].st.addr # ldq_entry[i].ld.addr,
         HasValues(v, View(i), ldq_entry[i].ld)
  PROVE  ValuesOf(v, stq_entry', StAge', memory', View(i)', ldq_entry'[i].ld)
<1>1. ldq_entry'[i].ld = ldq_entry[i].ld /\ ldq_entry[i].ld \in Loads
  BY KeptLoadIs DEF LInv
<1> DEFINE ld == ldq_entry[i].ld
<1>2. ld.addr \in Addr /\ ld.bytes \in SUBSET Byte
  BY <1>1, Accesses
<1>3. v \in Data /\ DOMAIN v = ld.bytes
      /\ \A b \in ld.bytes : IsValue(v[b], stq_entry, StAge, memory, View(i), ld.addr, b)
  BY DEF HasValues, ValuesOf
<1>4. ASSUME NEW b \in ld.bytes PROVE IsValue(v[b], stq_entry', StAge', memory', View(i)', ld.addr, b)
  <2>1. b \in Byte /\ IsValue(v[b], stq_entry, StAge, memory, View(i), ld.addr, b)
    BY <1>2, <1>3
  <2> QED
    BY <1>2, <2>1, ViewValueAfter
<1> QED
  BY <1>1, <1>3, <1>4 DEF ValuesOf

\* A load with its address whose data is there or on its way is told of such a
\* store.
LEMMA ToldOf ==
  ASSUME NEW x, NEW a, NEW i, ~st_ld_violation(x, a, i), ldq_entry[i].addr_valid,
         ldq_entry[i].data # None \/ FwdValid(i) \/ ldq_entry[i].fired \/ Accepted(a, i)
  PROVE  \A j \in ldq_entry[i].st_mask :
           Executes(x, "st", j) => stq_entry[j].st.addr # ldq_entry[i].ld.addr
  BY DEF st_ld_violation, Executes

---------------------------------------------------------------------------
(* What is expected, and what is marked *)

\* What program order prescribes for the loads of the queue, after a cycle.
LEMMA ExpectationAfter ==
  ASSUME LInv, NEW p \in Ports, NEW x \in Executable, NEW r \in Answers, Cycle(x, p, r)
  PROVE  Expectation'
<1> SInv /\ Expectation
  BY DEF LInv
<1>1. ASSUME NEW i \in LdqTag, LdFromHead(i)' < LoadCount'
      PROVE  ValuesOf(ldq_entry'[i].expect, stq_entry', StAge', memory', ldq_entry'[i].st_mask,
                      ldq_entry'[i].ld)
  <2>1. CASE Kept(i)
    <3> DEFINE ld == ldq_entry[i].ld
               v == ldq_entry[i].expect
               M == ldq_entry[i].st_mask
    <3>1. /\ ldq_entry'[i].ld = ld /\ ldq_entry'[i].st_mask = M \ Taken(p)
          /\ ldq_entry'[i].expect = v /\ ld \in Loads
      BY <2>1, KeptLoadIs
    <3>2. v \in Data /\ DOMAIN v = ld.bytes
          /\ \A b \in ld.bytes : IsValue(v[b], stq_entry, StAge, memory, M, ld.addr, b)
      BY <2>1 DEF Expectation, HasValues, ValuesOf, Kept
    <3>3. ld.addr \in Addr /\ ld.bytes \in SUBSET Byte
      BY <3>1, Accesses
    <3>4. ASSUME NEW b \in ld.bytes
          PROVE  IsValue(v[b], stq_entry', StAge', memory', M \ Taken(p), ld.addr, b)
      <4>1. b \in Byte /\ IsValue(v[b], stq_entry, StAge, memory, M, ld.addr, b)
        BY <3>2, <3>3
      <4> QED
        BY <2>1, <3>3, <4>1, MaskValueAfter
    <3> QED
      BY <3>1, <3>2, <3>4 DEF ValuesOf
  <2>2. ASSUME NEW l \in LoadLanes, dispatch_ld_resp(l) = i
        PROVE  ValuesOf(ldq_entry'[i].expect, stq_entry', StAge', memory', ldq_entry'[i].st_mask,
                        ldq_entry'[i].ld)
    <3> DEFINE ld == pipe_rename_pkt[l]
               v == Expected(l)
               M == dispatch_ldq_st_mask(l) \ Taken(p)
    <3>1. ldq_entry'[i].ld = ld /\ ldq_entry'[i].st_mask = M /\ ldq_entry'[i].expect = v
      BY <2>2, LoadAfter DEF Cycle
    <3>2. v \in Data /\ DOMAIN v = ld.bytes /\ ld \in Loads
      BY ExpectedTyped
    <3>3. ld.addr \in Addr /\ ld.bytes \in SUBSET Byte
      BY <3>2, Accesses
    <3>4. ASSUME NEW b \in ld.bytes
          PROVE  IsValue(v[b], stq_entry', StAge', memory', M, ld.addr, b)
      <4>1. v[b] = OlderByte(ld.addr, b, l)
        BY DEF Expected
      <4>2. b \in Byte
        BY <3>3
      <4> QED
        BY <3>3, <4>1, <4>2, ExpectedIs
    <3> HIDE DEF ld, v, M
    <3> QED
      BY <3>1, <3>2, <3>4 DEF ValuesOf
  <2> QED
    BY <1>1, <2>1, <2>2, LoadFates
<1> QED
  BY <1>1 DEF Expectation, HasValues

\* Only loads with their addresses are sent or marked.
LEMMA LoadsMarkedAfter ==
  ASSUME LInv, NEW p \in Ports, NEW x \in Executable, NEW r \in Answers, Cycle(x, p, r)
  PROVE  LoadsMarked'
<1> SInv /\ LoadsMarked /\ OffersLoad
  BY DEF LInv
<1>1. ASSUME NEW i \in LdqTag, ldq_entry'[i].fired \/ ldq_entry'[i].order_fail
      PROVE  ldq_entry'[i].addr_valid
  <2>1. Kept(i)
    BY <1>1, NotKeptAfter
  <2>2. /\ ldq_entry'[i].addr_valid <=> ldq_entry[i].addr_valid \/ Executes(x, "ld", i)
        /\ ldq_entry'[i].fired = next_fired(x, p.ld, i)
        /\ ldq_entry'[i].order_fail = next_order_fail(x, p.ld, i)
    BY <2>1, KeptLoadIs
  <2>3. CASE st_ld_violation(x, p.ld, i)
    BY <2>2, <2>3 DEF st_ld_violation
  <2>4. CASE Accepted(p.ld, i)
    BY <2>2, <2>4, AcceptedIs DEF OffersLoad
  <2>5. CASE ~st_ld_violation(x, p.ld, i) /\ ~Accepted(p.ld, i)
    <3>1. ldq_entry[i].fired \/ ldq_entry[i].order_fail
      BY <1>1, <2>2, <2>5 DEF next_fired, next_order_fail
    <3> QED
      BY <2>2, <3>1 DEF LoadsMarked
  <2> QED
    BY <2>3, <2>4, <2>5
<1> QED
  BY <1>1 DEF LoadsMarked

\* A load that has been written back is not sent back and stays written back.
LEMMA SettledLoad ==
  ASSUME LInv, NEW p \in Ports, NEW x \in Executable, NEW r \in Answers, Cycle(x, p, r),
         NEW i \in LdqTag, Kept(i), ldq_entry[i].writebacked # None
  PROVE  /\ ~st_ld_violation(x, p.ld, i) /\ r # i
         /\ ldq_entry'[i].writebacked # None
         /\ ldq_entry'[i].data # None
<1> SInv /\ LoadsSettled /\ LoadsOwed /\ ForwardsLoad
  BY DEF LInv
<1>1. ldq_entry[i].data # None /\ ldq_entry[i].st_mask \subseteq stq_addr_valid
  BY DEF LoadsSettled
<1>2. ~st_ld_violation(x, p.ld, i)
  BY <1>1, NoViolation
<1>3. dcache[i] = None
  BY <1>1 DEF LoadsOwed
<1>4. r # i
  BY <1>3, AnswerIs
<1>5. FwdValid(i) => fwd.data # None
  BY DEF ForwardsLoad, Awaited
<1>6. next_data(x, p.ld, r, i) # None
  BY <1>1, <1>2, <1>4, <1>5 DEF next_data, fwd_data_accept, dcache_data_accept
<1>7. writeback_data(x, p.ld, r, i) # None
  BY <1>1, <1>4, <1>5 DEF writeback_data, dcache_data_accept
<1>8. NextWriteback(x, p, r, i) # None
  BY <1>7 DEF NextWriteback
<1> QED
  BY <1>2, <1>4, <1>6, <1>8, KeptLoadIs

\* What retires next are the oldest instructions of the window, all complete.
LEMMA RetiresNext ==
  ASSUME SInv, NEW g, NEW misp \in BOOLEAN, NEW n \in Retirable(misp), Advance(g, n, misp)
  PROVE  \A k \in DOMAIN pipe_retire_pkt' :
           k \in DOMAIN window /\ pipe_retire_pkt'[k] = window[k] /\ Complete(window[k])
<1> TypeOK
  BY DEF SInv
<1>1. /\ n \in Int /\ n <= Len(window)
      /\ \A k \in 1 .. n : Complete(window[k])
  BY Sizes DEF Retirable
<1>2. pipe_retire_pkt' = SubSeq(window, 1, n)
  BY DEF Advance
<1>3. window \in Seq(Instruction) /\ n \in 0 .. Len(window)
  BY <1>1, Sizes DEF TypeOK, Retirable
<1> DEFINE s == window
<1>4. s \in Seq(Instruction) /\ n \in 0 .. Len(s)
  BY <1>3
<1> HIDE DEF s
<1>5. /\ SubSeq(s, 1, n) \in Seq(Instruction) /\ Len(SubSeq(s, 1, n)) = n
      /\ \A k \in 1 .. n : SubSeq(s, 1, n)[k] = s[k] /\ k \in DOMAIN s
  BY <1>4
<1>6. DOMAIN SubSeq(s, 1, n) = 1 .. n
  BY <1>5
<1> QED
  BY <1>1, <1>2, <1>5, <1>6 DEF s

\* A load that retires next has been written back.
LEMMA LoadsCompleteAfter ==
  ASSUME LInv, NEW p \in Ports, NEW x \in Executable, NEW r \in Answers, Cycle(x, p, r),
         NEW g, NEW misp \in BOOLEAN, NEW n \in Retirable(misp), Advance(g, n, misp)
  PROVE  LoadsComplete'
<1> SInv
  BY DEF LInv
<1>1. ASSUME NEW k \in DOMAIN pipe_retire_pkt', pipe_retire_pkt'[k].kind = "ld"
      PROVE  ldq_entry'[pipe_retire_pkt'[k].tag].writebacked # None
  <2>1. k \in DOMAIN window /\ pipe_retire_pkt'[k] = window[k] /\ Complete(window[k])
    BY RetiresNext
  <2>2. window[k].tag \in LdqTag /\ Kept(window[k].tag)
    BY <1>1, <2>1, WindowLoad
  <2>3. ldq_entry[window[k].tag].writebacked # None
    BY <1>1, <2>1 DEF Complete
  <2> QED
    BY <2>1, <2>2, <2>3, SettledLoad
<1> QED
  BY <1>1 DEF LoadsComplete

---------------------------------------------------------------------------
(* Answers in the queue *)

\* Of the slots from h on that are no further than y, the greatest up to y, or
\* without one the greatest of all, is the furthest.
LEMMA LastOfSlots ==
  ASSUME NEW d \in Nat \ {0}, NEW h \in 0 .. (d - 1), NEW y \in 0 .. (d - 1),
         NEW i \in 0 .. (d - 1), NEW j \in 0 .. (d - 1),
         AgeOf(h, i, d) <= AgeOf(h, y, d), AgeOf(h, j, d) <= AgeOf(h, y, d),
         \/ j <= y /\ i <= y /\ i <= j
         \/ j <= y /\ i > y
         \/ j > y /\ i > y /\ i <= j
  PROVE  AgeOf(h, i, d) <= AgeOf(h, j, d)
<1>1. /\ AgeOf(h, i, d) = IF i >= h THEN i - h ELSE (i + d) - h
      /\ AgeOf(h, j, d) = IF j >= h THEN j - h ELSE (j + d) - h
      /\ AgeOf(h, y, d) = IF y >= h THEN y - h ELSE (y + d) - h
  BY AgeIs
<1> QED
  BY <1>1

\* The load is forwarded from the youngest of the stores that match it.
LEMMA YoungestMatch ==
  ASSUME LInv, fire_ld # None, match # {}
  PROVE  /\ fire_ld.ldq_tag \in LdqTag
         /\ fwd_stq_idx \in match /\ match \subseteq ldq_entry[fire_ld.ldq_tag].st_mask
         /\ match = {j \in ldq_entry[fire_ld.ldq_tag].st_mask :
                       stq_entry[j].addr_valid /\ stq_entry[j].st.addr = ldq_entry[fire_ld.ldq_tag].ld.addr}
         /\ \A j \in match : FromHead(j) <= FromHead(fwd_stq_idx)
<1> SInv /\ OffersLoad /\ MasksBounded
  BY DEF LInv
<1> TypeOK /\ PointersInOrder /\ LoadEntries
  BY DEF SInv
<1> DEFINE i == fire_ld.ldq_tag
           y == fire_ld.st_youngest
           f == fwd_stq_idx
<1>1. fire_ld \in Offer
  BY DEF TypeOK
<1>2. i \in LdqTag /\ y \in StqTag
  BY <1>1 DEF Offer
<1>3. /\ ldq_entry[i].addr_valid /\ fire_ld.ld = ldq_entry[i].ld
      /\ y = ldq_entry[i].st_youngest
      /\ {j \in fire_ld.st_mask : stq_entry[j].entry_valid} = ldq_entry[i].st_mask
  BY DEF OffersLoad
<1> DEFINE M == ldq_entry[i].st_mask
<1>4. match = {j \in M : stq_entry[j].addr_valid /\ stq_entry[j].st.addr = ldq_entry[i].ld.addr}
  BY <1>3 DEF match
<1>5. LdFromHead(i) < LoadCount
  BY <1>2, <1>3 DEF LoadEntries
<1>6. PICK n \in RetiredCount .. StoreCount : Bound(i, n)
  BY <1>2, <1>5 DEF MasksBounded
<1>7. M = {j \in StqTag : FromHead(j) < n} /\ n \in Int /\ (n > 0 => FromHead(y) = n - 1)
  BY <1>3, <1>6, PointerTypes DEF Bound
<1>8. /\ \A j \in StqTag : FromHead(j) = AgeOf(st_head.ptr, j, STQ_DEPTH) /\ FromHead(j) \in Nat
      /\ StqTag = 0 .. (STQ_DEPTH - 1) /\ st_head.ptr \in 0 .. (STQ_DEPTH - 1)
      /\ STQ_DEPTH \in Nat \ {0}
  BY StoreAges, PointerTypes, Sizes DEF StqTag, FromHead, AgeOf
<1>9. f \in match
      /\ LET recent == {j \in match : j <= y}
         IN  IF recent # {} THEN f \in recent /\ \A j \in recent : j <= f
                            ELSE \A j \in match : j <= f
  BY ForwardingStore
<1> HIDE DEF M, f, y
<1>10. ASSUME NEW j \in match PROVE FromHead(j) <= FromHead(f)
  <2>1. j \in StqTag /\ f \in StqTag /\ FromHead(j) < n /\ FromHead(f) < n
    BY <1>4, <1>7, <1>9
  <2>2. FromHead(j) <= FromHead(y) /\ FromHead(f) <= FromHead(y)
    BY <1>2, <1>7, <1>8, <2>1
  <2>3. \/ f <= y /\ j <= y /\ j <= f
        \/ f <= y /\ j > y
        \/ f > y /\ j > y /\ j <= f
    <3>1. j \in Int /\ f \in Int /\ y \in Int
      BY <1>2, <1>8, <2>1
    <3> DEFINE recent == {k \in match : k <= y}
    <3>2. CASE recent # {}
      <4>1. f <= y /\ \A k \in recent : k <= f
        BY <1>9, <3>2
      <4> QED
        BY <3>1, <4>1
    <3>3. CASE recent = {}
      <4>1. (\A k \in match : k <= f) /\ ~ (f <= y) /\ ~ (j <= y)
        BY <1>9, <3>3
      <4> QED
        BY <3>1, <4>1
    <3> QED
      BY <3>2, <3>3
  <2>4. AgeOf(st_head.ptr, j, STQ_DEPTH) <= AgeOf(st_head.ptr, f, STQ_DEPTH)
    <3>1. /\ AgeOf(st_head.ptr, j, STQ_DEPTH) <= AgeOf(st_head.ptr, y, STQ_DEPTH)
          /\ AgeOf(st_head.ptr, f, STQ_DEPTH) <= AgeOf(st_head.ptr, y, STQ_DEPTH)
      BY <1>2, <1>8, <2>1, <2>2
    <3> QED
      BY <1>2, <1>8, <2>1, <2>3, <3>1, LastOfSlots
  <2> QED
    BY <1>8, <2>1, <2>4
<1> QED
  BY <1>2, <1>4, <1>9, <1>10 DEF f, M

\* A load that has data after a cycle has its address and no mark.
LEMMA LoadsAnsweredAfter ==
  ASSUME LInv, NEW p \in Ports, NEW x \in Executable, NEW r \in Answers, Cycle(x, p, r)
  PROVE  LoadsAnswered'
<1> SInv /\ LoadsAnswered /\ LoadsOwed /\ ForwardsLoad
  BY DEF LInv
<1>1. ASSUME NEW i \in LdqTag, ldq_entry'[i].data # None
      PROVE  ldq_entry'[i].addr_valid /\ ~ldq_entry'[i].order_fail
  <2> DEFINE e == ldq_entry[i]
  <2>1. Kept(i)
    BY <1>1, NotKeptAfter
  <2>2. /\ ldq_entry'[i].addr_valid <=> e.addr_valid \/ Executes(x, "ld", i)
        /\ ldq_entry'[i].order_fail = next_order_fail(x, p.ld, i)
        /\ ldq_entry'[i].data = next_data(x, p.ld, r, i)
    BY <2>1, KeptLoadIs
  <2>3. ~st_ld_violation(x, p.ld, i)
    BY <1>1, <2>2 DEF next_data
  <2>4. e.addr_valid /\ ~e.order_fail
    <3>1. CASE fwd_data_accept(i)
      BY <3>1 DEF fwd_data_accept, ForwardsLoad, Awaited
    <3>2. CASE ~fwd_data_accept(i) /\ dcache_data_accept(x, p.ld, r, i)
      <4>1. r = i
        BY <3>2 DEF dcache_data_accept
      <4> QED
        BY <4>1, AnswerIs DEF LoadsOwed
    <3>3. CASE ~fwd_data_accept(i) /\ ~dcache_data_accept(x, p.ld, r, i)
      <4>1. e.data # None
        BY <1>1, <2>2, <2>3, <3>3 DEF next_data
      <4> QED
        BY <4>1 DEF LoadsAnswered
    <3> QED
      BY <3>1, <3>2, <3>3
  <2>5. ~next_order_fail(x, p.ld, i)
    BY <2>3, <2>4 DEF next_order_fail
  <2> QED
    BY <2>2, <2>4, <2>5
<1> QED
  BY <1>1 DEF LoadsAnswered

\* The data of a load after a cycle is what the stores it can see make of it.
LEMMA AnsweredAfter ==
  ASSUME OInv, NEW p \in Ports, NEW x \in Executable, NEW r \in Answers, Cycle(x, p, r)
  PROVE  Answered'
<1> LInv /\ Answered /\ Outstanding /\ ForwardsValue
  BY DEF OInv
<1> SInv /\ LoadsAnswered /\ LoadsOwed /\ ForwardsLoad
  BY DEF LInv
<1>1. ASSUME NEW i \in LdqTag, ldq_entry'[i].data # None
      PROVE  ValuesOf(ldq_entry'[i].data, stq_entry', StAge', memory', View(i)', ldq_entry'[i].ld)
  <2> DEFINE e == ldq_entry[i]
             v == next_data(x, p.ld, r, i)
  <2>1. Kept(i)
    BY <1>1, NotKeptAfter
  <2>2. ldq_entry'[i].data = v
    BY <2>1, KeptLoadIs
  <2>3. ~st_ld_violation(x, p.ld, i)
    BY <1>1, <2>2 DEF next_data
  <2>4. /\ e.addr_valid /\ HasValues(v, View(i), e.ld)
        /\ e.data # None \/ FwdValid(i) \/ e.fired
    <3>1. CASE fwd_data_accept(i)
      <4>1. v = fwd.data
        BY <2>3, <3>1 DEF next_data
      <4>2. FwdValid(i) /\ ~e.order_fail
        BY <3>1 DEF fwd_data_accept
      <4>3. e.addr_valid /\ HasValues(fwd.data, View(i), e.ld)
        BY <4>2 DEF ForwardsLoad, ForwardsValue, Awaited
      <4> QED
        BY <4>1, <4>2, <4>3
    <3>2. CASE ~fwd_data_accept(i) /\ dcache_data_accept(x, p.ld, r, i)
      <4>1. v = dcache[i]
        BY <2>3, <3>2 DEF next_data
      <4>2. dcache[i] # None
        <5>1. r = i
          BY <3>2 DEF dcache_data_accept
        <5> QED
          BY <5>1, AnswerIs
      <4>3. ~Awaited(i)
        BY <3>2 DEF dcache_data_accept, fire_ld_kill, Awaited
      <4> QED
        BY <4>1, <4>2, <4>3 DEF Outstanding, LoadsOwed
    <3>3. CASE ~fwd_data_accept(i) /\ ~dcache_data_accept(x, p.ld, r, i)
      <4>1. v = e.data
        BY <2>3, <3>3 DEF next_data
      <4>2. e.data # None
        BY <1>1, <2>2, <4>1
      <4> QED
        BY <4>1, <4>2 DEF Answered, LoadsAnswered
    <3> QED
      BY <3>1, <3>2, <3>3
  <2>5. \A j \in e.st_mask : Executes(x, "st", j) => stq_entry[j].st.addr # e.ld.addr
    BY <2>3, <2>4, ToldOf
  <2> HIDE DEF v
  <2>6. ValuesOf(v, stq_entry', StAge', memory', View(i)', ldq_entry'[i].ld)
    BY <2>1, <2>4, <2>5, ValuesAfter
  <2> QED
    BY <2>2, <2>6
<1> QED
  BY <1>1 DEF Answered, HasValues

---------------------------------------------------------------------------
(* Answers of the cache *)

\* The load on offer has no data after the cycle, unless the store queue has it.
LEMMA OfferedLoad ==
  ASSUME LInv, NEW p \in Ports, NEW x \in Executable, NEW r \in Answers, Cycle(x, p, r),
         fire_ld # None
  PROVE  LET i == fire_ld.ldq_tag
         IN  /\ i \in LdqTag /\ Kept(i)
             /\ ldq_entry[i].addr_valid /\ ldq_entry[i].data = None
             /\ fire_ld.ld = ldq_entry[i].ld /\ ldq_entry[i].ld \in Loads
             /\ ldq_entry'[i].addr_valid /\ ldq_entry'[i].ld = ldq_entry[i].ld
             /\ ~FwdValid(i) => ldq_entry'[i].data = None
<1> SInv /\ OffersLoad /\ LoadsOwed
  BY DEF LInv
<1> TypeOK
  BY DEF SInv
<1> DEFINE i == fire_ld.ldq_tag
<1>1. i \in LdqTag
  BY DEF TypeOK, Offer
<1>2. Kept(i)
  BY <1>1, NotKeptIs
<1>3. /\ ldq_entry[i].addr_valid /\ ldq_entry[i].data = None /\ ~ldq_entry[i].fired
      /\ fire_ld.ld = ldq_entry[i].ld
  BY DEF OffersLoad
<1>4. r # i
  BY <1>1, <1>3, AnswerIs DEF LoadsOwed
<1>5. ~FwdValid(i) => next_data(x, p.ld, r, i) = None
  BY <1>3, <1>4 DEF next_data, fwd_data_accept, dcache_data_accept
<1> QED
  BY <1>1, <1>2, <1>3, <1>5, KeptLoadIs

\* What the cache answers next, and when.
LEMMA NextAnswer ==
  ASSUME LInv, NEW p \in Ports, NEW x \in Executable, NEW r \in Answers, Cycle(x, p, r),
         NEW i \in LdqTag, dcache'[i] # None
  PROVE  /\ Kept(i) /\ ~fire_ld_kill(x, p.ld, i) /\ ~Awaited(i)
         /\ ~st_ld_violation(x, p.ld, i)
         /\ ldq_entry[i].addr_valid /\ ldq_entry[i].data = None
         /\ IF Accepted(p.ld, i) THEN dcache'[i] = Fetched(p)
            ELSE r # i /\ dcache'[i] = dcache[i] /\ dcache[i] # None
<1> SInv /\ LoadsOwed
  BY DEF LInv
<1>1. Kept(i)
  BY NotKeptAfter
<1>2. dcache' = next_dcache(x, p, r)
  BY DEF Cycle
<1>3. dcache'[i] = IF fire_ld_kill(x, p.ld, i) THEN None
                   ELSE IF Accepted(p.ld, i) THEN Fetched(p)
                   ELSE IF r = i THEN None ELSE dcache[i]
  BY <1>2, Zenon DEF next_dcache, Fetched
<1>4. ~fire_ld_kill(x, p.ld, i)
  BY <1>3
<1>5. ~Awaited(i) /\ (ldq_entry[i].data = None => ~st_ld_violation(x, p.ld, i))
  BY <1>4 DEF fire_ld_kill, Awaited
<1>6. CASE Accepted(p.ld, i)
  <2>1. p.ld /\ fire_ld # None /\ fire_ld.ldq_tag = i
    BY <1>6, AcceptedIs
  <2>2. ldq_entry[i].addr_valid /\ ldq_entry[i].data = None
    BY <2>1, OfferedLoad
  <2> QED
    BY <1>1, <1>3, <1>4, <1>5, <1>6, <2>2
<1>7. CASE ~Accepted(p.ld, i)
  <2>1. r # i /\ dcache'[i] = dcache[i] /\ dcache[i] # None
    BY <1>3, <1>4, <1>7
  <2>2. ldq_entry[i].addr_valid /\ ldq_entry[i].data = None
    BY <2>1 DEF LoadsOwed
  <2> QED
    BY <1>1, <1>4, <1>5, <1>7, <2>1, <2>2
<1> QED
  BY <1>6, <1>7

\* The cache owes an answer only to loads that wait for it.
LEMMA LoadsOwedAfter ==
  ASSUME LInv, NEW p \in Ports, NEW x \in Executable, NEW r \in Answers, Cycle(x, p, r)
  PROVE  LoadsOwed'
<1> SInv /\ LoadsOwed
  BY DEF LInv
<1>1. ASSUME NEW i \in LdqTag, dcache'[i] # None
      PROVE  /\ ldq_entry'[i].addr_valid /\ ldq_entry'[i].data = None
             /\ ldq_entry'[i].fired /\ ~ldq_entry'[i].order_fail
  <2> DEFINE e == ldq_entry[i]
  <2>1. /\ Kept(i) /\ ~fire_ld_kill(x, p.ld, i) /\ ~Awaited(i) /\ ~st_ld_violation(x, p.ld, i)
        /\ e.addr_valid /\ e.data = None
        /\ IF Accepted(p.ld, i) THEN dcache'[i] = Fetched(p)
           ELSE r # i /\ dcache'[i] = dcache[i] /\ dcache[i] # None
    BY <1>1, NextAnswer
  <2>2. /\ ldq_entry'[i].addr_valid <=> e.addr_valid \/ Executes(x, "ld", i)
        /\ ldq_entry'[i].order_fail = next_order_fail(x, p.ld, i)
        /\ ldq_entry'[i].fired = next_fired(x, p.ld, i)
        /\ ldq_entry'[i].data = next_data(x, p.ld, r, i)
    BY <2>1, KeptLoadIs
  <2>3. ~FwdValid(i) /\ ~FwdSleep(i)
    BY <2>1 DEF Awaited
  <2>4. CASE Accepted(p.ld, i)
    <3>1. p.ld /\ fire_ld # None /\ fire_ld.ldq_tag = i
      BY <2>4, AcceptedIs
    <3>2. ldq_entry'[i].data = None
      BY <2>3, <3>1, OfferedLoad
    <3>3. next_fired(x, p.ld, i) /\ ~next_order_fail(x, p.ld, i)
      BY <2>1, <2>4, <3>1 DEF next_fired, next_order_fail
    <3> QED
      BY <2>1, <2>2, <3>2, <3>3
  <2>5. CASE ~Accepted(p.ld, i)
    <3>1. r # i /\ e.fired /\ ~e.order_fail
      BY <2>1, <2>5 DEF LoadsOwed
    <3>2. next_fired(x, p.ld, i) /\ ~next_order_fail(x, p.ld, i)
      BY <2>1, <2>3, <2>5, <3>1 DEF next_fired, next_order_fail
    <3>3. next_data(x, p.ld, r, i) = None
      BY <2>1, <2>3, <3>1 DEF next_data, fwd_data_accept, dcache_data_accept
    <3> QED
      BY <2>1, <2>2, <3>2, <3>3
  <2> QED
    BY <2>4, <2>5
<1> QED
  BY <1>1 DEF LoadsOwed

\* The answer the cache owes after a cycle.
LEMMA OutstandingAfter ==
  ASSUME OInv, NEW p \in Ports, NEW x \in Executable, NEW r \in Answers, Cycle(x, p, r)
  PROVE  Outstanding'
<1> LInv /\ Outstanding
  BY DEF OInv
<1> SInv /\ OffersLoad /\ LoadsOwed
  BY DEF LInv
<1> TypeOK /\ PointersInOrder
  BY DEF SInv
<1>1. /\ dcache' = next_dcache(x, p, r) /\ fwd' = next_fwd(p.st) /\ memory' = next_memory(p)
      /\ ~pipe_flush
  BY DEF Cycle, StqStep
<1>2. ASSUME NEW i \in LdqTag, dcache'[i] # None, ~Awaited(i)'
      PROVE  ValuesOf(dcache'[i], stq_entry', StAge', memory', View(i)', ldq_entry'[i].ld)
  <2> DEFINE e == ldq_entry[i]
  <2>1. /\ Kept(i) /\ ~Awaited(i) /\ ~st_ld_violation(x, p.ld, i) /\ e.addr_valid
        /\ IF Accepted(p.ld, i) THEN dcache'[i] = Fetched(p)
           ELSE dcache'[i] = dcache[i] /\ dcache[i] # None
    BY <1>2, NextAnswer
  <2>2. CASE Accepted(p.ld, i)
    <3>1. p.ld /\ fire_ld # None /\ fire_ld.ldq_tag = i
      BY <2>2, AcceptedIs
    <3>2. fire_ld.ld = e.ld /\ e.ld \in Loads /\ ldq_entry'[i].ld = e.ld
      BY <3>1, OfferedLoad
    <3>3. match \subseteq Taken(p)
      <4>1. CASE match = {}
        BY <4>1
      <4>2. CASE match # {}
        <5>1. (~next_fwd(p.st).valid /\ ~next_fwd(p.st).sleep) \/ next_fwd(p.st).ldq_tag # i
          BY <1>1, <1>2 DEF Awaited, FwdValid, FwdSleep
        <5>2. addr_conflict /\ p.st /\ fire_st = fwd_stq_idx
          BY <1>1, <3>1, <4>2, <5>1 DEF next_fwd
        <5>3. fwd_stq_idx \in match /\ (\A j \in match : FromHead(j) <= FromHead(fwd_stq_idx))
              /\ match \subseteq StqTag
          BY <3>1, <4>2, YoungestMatch, ForwardingStore
        <5>4. fire_st = st_head.ptr
          BY <5>2, TakenIsHead
        <5>5. FromHead(fire_st) = 0 /\ fire_st \in StqTag
          BY <5>4, StoreAges
        <5>6. \A j \in match : j = fire_st
          <6> TAKE j \in match
          <6>1. FromHead(j) <= 0 /\ FromHead(j) \in Nat
            BY <5>2, <5>3, <5>5, StoreAges
          <6>2. FromHead(j) = FromHead(fire_st)
            BY <5>5, <6>1
          <6> QED
            BY <5>3, <5>5, <6>2, StoreAges
        <5> QED
          BY <5>2, <5>6 DEF Taken
      <4> QED
        BY <4>1, <4>2
    <3>4. /\ View(i)' = {j \in e.st_mask \ Taken(p) :
                           stq_entry[j].addr_valid \/ Executes(x, "st", j)}
          /\ \A j \in e.st_mask \ Taken(p) : stq_entry'[j].st = stq_entry[j].st
      BY <2>1, ViewAfter
    <3>5. \A j \in e.st_mask : Executes(x, "st", j) => stq_entry[j].st.addr # e.ld.addr
      BY <2>1, <2>2, ToldOf
    <3>6. \A j \in e.st_mask : stq_entry[j].addr_valid /\ stq_entry[j].st.addr = e.ld.addr => j \in match
      <4>1. {j \in fire_ld.st_mask : stq_entry[j].entry_valid} = e.st_mask
        BY <3>1 DEF OffersLoad
      <4> QED
        BY <3>2, <4>1 DEF match
    <3>7. \A j \in View(i)' : stq_entry'[j].st.addr # e.ld.addr
      BY <3>3, <3>4, <3>5, <3>6
    <3>8. /\ Fetched(p) \in Data /\ DOMAIN Fetched(p) = e.ld.bytes
          /\ \A b \in e.ld.bytes : Fetched(p)[b] = memory'[e.ld.addr][b]
      BY <1>1, <3>1, <3>2, FetchTyped
    <3>9. ASSUME NEW b \in e.ld.bytes
          PROVE  IsValue(Fetched(p)[b], stq_entry', StAge', memory', View(i)', e.ld.addr, b)
      <4>1. Writers(stq_entry', View(i)', e.ld.addr, b) = {}
        BY <3>7 DEF Writers
      <4> QED
        BY <3>8, <4>1 DEF IsValue
    <3> QED
      BY <2>1, <2>2, <3>2, <3>8, <3>9 DEF ValuesOf
  <2>3. CASE ~Accepted(p.ld, i)
    <3>1. dcache'[i] = dcache[i] /\ dcache[i] # None
      BY <2>1, <2>3
    <3>2. e.fired /\ HasValues(dcache[i], View(i), e.ld)
      BY <2>1, <3>1 DEF Outstanding, LoadsOwed
    <3>3. \A j \in e.st_mask : Executes(x, "st", j) => stq_entry[j].st.addr # e.ld.addr
      BY <2>1, <3>2, ToldOf
    <3>4. ValuesOf(dcache[i], stq_entry', StAge', memory', View(i)', ldq_entry'[i].ld)
      BY <2>1, <3>2, <3>3, ValuesAfter
    <3> QED
      BY <3>1, <3>4
  <2> QED
    BY <2>2, <2>3
<1> QED
  BY <1>2 DEF Outstanding, HasValues

---------------------------------------------------------------------------
(* Answers of the store queue *)

\* The load offered next has no data and has not been sent.
LEMMA OffersLoadAfter ==
  ASSUME LInv, NEW p \in Ports, NEW x \in Executable, NEW r \in Answers, Cycle(x, p, r)
  PROVE  OffersLoad'
<1> SInv /\ LoadsOwed
  BY DEF LInv
<1> TypeOK
  BY DEF SInv
<1>1. fwd' = next_fwd(p.st) /\ fire_ld' = next_fire_ld(x, p.ld) /\ StqStep(x, p.st)
  BY DEF Cycle, StqStep
<1>2. ASSUME fire_ld' # None
      PROVE  \E i \in LdqTag :
               /\ fire_ld'.ldq_tag = i
               /\ ldq_entry'[i].addr_valid /\ ldq_entry'[i].data = None /\ ~ldq_entry'[i].fired
               /\ fire_ld'.ld = ldq_entry'[i].ld
               /\ fire_ld'.st_youngest = ldq_entry'[i].st_youngest
               /\ {j \in fire_ld'.st_mask : stq_entry'[j].entry_valid} = ldq_entry'[i].st_mask
  <2>1. PICK i \in LdqTag : /\ ld_wakeup(x, p.ld, i)
                            /\ next_fire_ld(x, p.ld) = [ldq_tag |-> i, ld |-> ldq_entry[i].ld,
                                                        st_mask |-> ldq_entry[i].st_mask,
                                                        st_youngest |-> ldq_entry[i].st_youngest]
    BY <1>1, <1>2, NextOffer
  <2> DEFINE e == ldq_entry[i]
  <2>2. /\ fire_ld'.ldq_tag = i /\ fire_ld'.ld = e.ld /\ fire_ld'.st_mask = e.st_mask
        /\ fire_ld'.st_youngest = e.st_youngest
    BY <1>1, <2>1
  <2>3. /\ e.addr_valid \/ Executes(x, "ld", i)
        /\ e.data = None /\ ~e.fired /\ ~Accepted(p.ld, i) /\ ~fwd_data_accept(i)
    BY <2>1 DEF ld_wakeup, fwd_data_accept
  <2>4. Kept(i)
    BY <1>2, <2>2, NotKeptAfter
  <2>5. /\ ldq_entry'[i].addr_valid <=> e.addr_valid \/ Executes(x, "ld", i)
        /\ ldq_entry'[i].ld = e.ld /\ ldq_entry'[i].st_mask = e.st_mask \ Taken(p)
        /\ ldq_entry'[i].st_youngest = e.st_youngest
        /\ ldq_entry'[i].fired = next_fired(x, p.ld, i)
        /\ ldq_entry'[i].data = next_data(x, p.ld, r, i)
    BY <2>4, KeptLoadIs
  <2>6. r # i
    BY <2>3, AnswerIs DEF LoadsOwed
  <2>7. ~next_fired(x, p.ld, i) /\ next_data(x, p.ld, r, i) = None
    BY <2>3, <2>6 DEF next_fired, next_data, dcache_data_accept
  <2>8. {j \in e.st_mask : stq_entry'[j].entry_valid} = e.st_mask \ Taken(p)
    <3>1. \A j \in e.st_mask \ Taken(p) : stq_entry'[j].entry_valid
      BY <2>4, ViewAfter
    <3>2. ASSUME NEW j \in e.st_mask, j \in Taken(p) PROVE ~stq_entry'[j].entry_valid
      <4>1. j \in StqTag
        BY <2>4, KeptMask
      <4>2. FromHead(j) < Leaving(p)
        BY <3>2, <4>1, TakenIsHead
      <4>3. stq_entry'[j] = EmptyStore
        BY <1>1, <4>1, <4>2, StoresAfter
      <4> QED
        BY <4>3 DEF EmptyStore
    <3> QED
      BY <3>1, <3>2
  <2> QED
    BY <2>2, <2>3, <2>5, <2>7, <2>8
<1> QED
  BY <1>2 DEF OffersLoad

\* What the store queue answers with next, and to which load.
LEMMA ForwardIs ==
  ASSUME LInv, NEW p \in Ports, NEW x \in Executable, NEW r \in Answers, Cycle(x, p, r),
         NEW i, Awaited(i)'
  PROVE  /\ fire_ld # None /\ match # {} /\ fire_ld.ldq_tag = i /\ fwd'.stq_tag = fwd_stq_idx
         /\ fwd'.valid =>
              /\ ~addr_conflict /\ ~fwd'.sleep
              /\ fwd'.data = [b \in fire_ld.ld.bytes |-> stq_entry[fwd_stq_idx].st.val]
         /\ fwd'.sleep => ~fwd'.valid /\ ~ (p.st /\ fire_st = fwd_stq_idx)
<1> SInv
  BY DEF LInv
<1>1. fwd' = next_fwd(p.st)
  BY DEF Cycle, StqStep
<1>2. p.st \in BOOLEAN
  BY TakenIsHead
<1>3. (fwd'.valid \/ fwd'.sleep) /\ fwd'.ldq_tag = i
  BY DEF Awaited, FwdValid, FwdSleep
<1> QED
  BY <1>1, <1>2, <1>3, NextForward

\* What is forwarded is what the youngest store before the load writes.
LEMMA ForwardedData ==
  ASSUME LInv, NEW p \in Ports, NEW x \in Executable, NEW r \in Answers, Cycle(x, p, r),
         NEW i \in LdqTag, FwdValid(i)'
  PROVE  fwd'.data \in Data /\ HasValues(fwd'.data, View(i), ldq_entry[i].ld)
<1> SInv
  BY DEF LInv
<1> TypeOK /\ PointersInOrder
  BY DEF SInv
<1> DEFINE e == ldq_entry[i]
           f == fwd_stq_idx
           v == [b \in e.ld.bytes |-> stq_entry[f].st.val]
<1>1. Awaited(i)' /\ fwd'.valid
  BY DEF Awaited, FwdValid
<1>2. /\ fire_ld # None /\ match # {} /\ fire_ld.ldq_tag = i
      /\ ~addr_conflict /\ fwd'.data = [b \in fire_ld.ld.bytes |-> stq_entry[f].st.val]
  BY <1>1, ForwardIs
<1>3. Kept(i) /\ fire_ld.ld = e.ld /\ e.ld \in Loads
  BY <1>2, OfferedLoad
<1>4. fwd'.data = v /\ e.ld.bytes \subseteq stq_entry[f].st.bytes
  BY <1>2, <1>3 DEF addr_conflict
<1>5. /\ f \in match /\ match \subseteq e.st_mask
      /\ match = {j \in e.st_mask : stq_entry[j].addr_valid /\ stq_entry[j].st.addr = e.ld.addr}
      /\ \A j \in match : FromHead(j) <= FromHead(f)
  BY <1>2, YoungestMatch
<1>6. View(i) = {j \in e.st_mask : stq_entry[j].addr_valid} /\ e.st_mask \in SUBSET StqTag
  BY <1>3, ViewAfter, KeptMask
<1>7. stq_entry[f].st \in Stores /\ e.ld.bytes \in (SUBSET Byte) \ {{}}
  BY <1>2, <1>3, <1>5, ForwardingStore, Accesses
<1>8. v \in Data /\ DOMAIN v = e.ld.bytes
  <2>1. stq_entry[f].st.val \in Val
    BY <1>7, Accesses
  <2>2. v \in [e.ld.bytes -> Val]
    BY <2>1
  <2> HIDE DEF v
  <2> QED
    BY <1>7, <2>2, DataIs
<1>9. ASSUME NEW b \in e.ld.bytes
      PROVE  IsValue(v[b], stq_entry, StAge, memory, View(i), e.ld.addr, b)
  <2>1. v[b] = stq_entry[f].st.val
    OBVIOUS
  <2>2. f \in Writers(stq_entry, View(i), e.ld.addr, b)
    BY <1>4, <1>5, <1>6 DEF Writers
  <2>3. \A j \in Writers(stq_entry, View(i), e.ld.addr, b) : j \in match
    BY <1>5, <1>6 DEF Writers
  <2>4. \A j \in StqTag : StAge[j] = FromHead(j)
    BY StoreAges
  <2>5. \A j \in Writers(stq_entry, View(i), e.ld.addr, b) : StAge[j] <= StAge[f]
    BY <1>5, <1>6, <2>3, <2>4
  <2> HIDE DEF v, f
  <2> QED
    BY <2>1, <2>2, <2>5 DEF IsValue
<1> HIDE DEF v
<1> QED
  BY <1>4, <1>8, <1>9 DEF HasValues, ValuesOf

\* The store queue answers no load that retires next, and puts a load to sleep
\* on a store before it.
LEMMA ForwardsLoadAfter ==
  ASSUME LInv, NEW p \in Ports, NEW x \in Executable, NEW r \in Answers, Cycle(x, p, r),
         NEW g, NEW misp \in BOOLEAN, NEW n \in Retirable(misp), Advance(g, n, misp)
  PROVE  ForwardsLoad'
<1> SInv
  BY DEF LInv
<1>1. ASSUME NEW i \in LdqTag, Awaited(i)'
      PROVE  /\ ldq_entry'[i].addr_valid /\ i \notin RetiredTags("ld")'
             /\ FwdValid(i)' => fwd'.data # None
             /\ FwdSleep(i)' => ~FwdValid(i)' /\ fwd'.stq_tag \in ldq_entry'[i].st_mask
  <2> DEFINE e == ldq_entry[i]
             f == fwd_stq_idx
  <2>1. /\ fire_ld # None /\ match # {} /\ fire_ld.ldq_tag = i /\ fwd'.stq_tag = f
        /\ fwd'.sleep => ~fwd'.valid /\ ~ (p.st /\ fire_st = f)
    BY <1>1, ForwardIs
  <2>2. Kept(i) /\ e.data = None /\ ldq_entry'[i].addr_valid
    BY <2>1, OfferedLoad
  <2>3. ASSUME FwdSleep(i)' PROVE ~FwdValid(i)' /\ fwd'.stq_tag \in ldq_entry'[i].st_mask
    <3>1. fwd'.sleep
      BY <2>3 DEF FwdSleep
    <3>2. ~fwd'.valid /\ f \notin Taken(p)
      BY <2>1, <3>1 DEF Taken
    <3>3. ldq_entry'[i].st_mask = e.st_mask \ Taken(p)
      BY <2>2, KeptLoadIs
    <3>4. f \in e.st_mask
      BY <2>1, YoungestMatch
    <3> QED
      BY <2>1, <3>2, <3>3, <3>4 DEF FwdValid
  <2>4. ASSUME FwdValid(i)' PROVE fwd'.data # None
    BY <2>4, ForwardedData, NoneAssumption
  <2>5. ASSUME i \in RetiredTags("ld")' PROVE FALSE
    <3>1. PICK k \in DOMAIN pipe_retire_pkt' :
            pipe_retire_pkt'[k].kind = "ld" /\ pipe_retire_pkt'[k].tag = i
      BY <2>5 DEF RetiredTags
    <3>2. pipe_retire_pkt'[k] = window[k] /\ Complete(window[k])
      BY RetiresNext
    <3>3. e.writebacked # None
      BY <3>1, <3>2 DEF Complete
    <3> QED
      BY <2>2, <3>3 DEF LInv, LoadsSettled
  <2> QED
    BY <2>2, <2>3, <2>4, <2>5
<1> QED
  BY <1>1 DEF ForwardsLoad

\* A cache that takes every load takes the one on offer.
LEMMA NotRefused ==
  ASSUME LoadStalls = FALSE, NEW p \in Ports, fire_ld # None
  PROVE  Accepted(p.ld, fire_ld.ldq_tag)
  BY DEF Ports, Accepted

\* Then the load that is answered waits for the answer, and is not offered again.
LEMMA AnsweredOnceAfter ==
  ASSUME LoadStalls = FALSE, OInv, NEW p \in Ports, NEW x \in Executable, NEW r \in Answers,
         Cycle(x, p, r)
  PROVE  AnsweredOnce'
<1> LInv /\ AnsweredOnce
  BY DEF OInv
<1> SInv
  BY DEF LInv
<1> TypeOK
  BY DEF SInv
<1>1. ASSUME NEW i \in LdqTag, Awaited(i)'
      PROVE  ldq_entry'[i].data = None /\ (fire_ld' # None => fire_ld'.ldq_tag # i)
  <2>1. fire_ld # None /\ fire_ld.ldq_tag = i
    BY <1>1, ForwardIs
  <2>2. ~FwdValid(i)
    BY <2>1 DEF AnsweredOnce, Awaited
  <2>3. ldq_entry'[i].data = None
    BY <2>1, <2>2, OfferedLoad
  <2>4. ASSUME fire_ld' # None, fire_ld'.ldq_tag = i PROVE FALSE
    <3>1. fire_ld' = next_fire_ld(x, p.ld)
      BY DEF Cycle
    <3>2. PICK j \in LdqTag : /\ ld_wakeup(x, p.ld, j)
                              /\ next_fire_ld(x, p.ld) = [ldq_tag |-> j, ld |-> ldq_entry[j].ld,
                                                          st_mask |-> ldq_entry[j].st_mask,
                                                          st_youngest |-> ldq_entry[j].st_youngest]
      BY <2>4, <3>1, NextOffer
    <3>3. j = i
      BY <2>4, <3>1, <3>2
    <3> QED
      BY <2>1, <3>2, <3>3, NotRefused DEF ld_wakeup
  <2> QED
    BY <2>3, <2>4
<1> QED
  BY <1>1 DEF AnsweredOnce

\* And the answer stays right while the address of a store before it arrives,
\* or the load is marked.
LEMMA ForwardsValueAfter ==
  ASSUME LoadStalls = FALSE, LInv, NEW p \in Ports, NEW x \in Executable, NEW r \in Answers,
         Cycle(x, p, r)
  PROVE  ForwardsValue'
<1> SInv
  BY DEF LInv
<1>1. ASSUME NEW i \in LdqTag, FwdValid(i)', ~ldq_entry'[i].order_fail
      PROVE  ValuesOf(fwd'.data, stq_entry', StAge', memory', View(i)', ldq_entry'[i].ld)
  <2> DEFINE e == ldq_entry[i]
  <2>1. Awaited(i)'
    BY <1>1 DEF Awaited
  <2>2. fire_ld # None /\ fire_ld.ldq_tag = i
    BY <2>1, ForwardIs
  <2>3. Kept(i) /\ e.addr_valid
    BY <2>2, OfferedLoad
  <2>4. ~st_ld_violation(x, p.ld, i)
    <3>1. ~next_order_fail(x, p.ld, i)
      BY <1>1, <2>3, KeptLoadIs
    <3> QED
      BY <3>1 DEF next_order_fail
  <2>5. \A j \in e.st_mask : Executes(x, "st", j) => stq_entry[j].st.addr # e.ld.addr
    <3>1. Accepted(p.ld, i)
      BY <2>2, NotRefused
    <3> QED
      BY <2>3, <2>4, <3>1, ToldOf
  <2>6. HasValues(fwd'.data, View(i), e.ld)
    BY <1>1, ForwardedData
  <2> QED
    BY <2>3, <2>5, <2>6, ValuesAfter
<1> QED
  BY <1>1 DEF ForwardsValue, HasValues

---------------------------------------------------------------------------
(* What is written back *)

\* A load is written back with its data, or with the answer that is taken for
\* its data, and all stores before it have their addresses.
LEMMA WritesBack ==
  ASSUME LInv, NEW p \in Ports, NEW x \in Executable, NEW r \in Answers, Cycle(x, p, r),
         NEW i \in LdqTag, Kept(i), Writebacks(x, p.ld, r, i)
  PROVE  /\ ~st_ld_violation(x, p.ld, i)
         /\ ldq_entry[i].data # None \/ fwd_data_accept(i) \/ dcache_data_accept(x, p.ld, r, i)
         /\ ldq_entry[i].st_mask \subseteq stq_addr_valid
         /\ next_data(x, p.ld, r, i) # None
<1> SInv /\ ForwardsLoad
  BY DEF LInv
<1> DEFINE e == ldq_entry[i]
<1>1. x.kind # "st" /\ ld_writeback(x, p.ld, r, i)
  <2> DEFINE req == {j \in LdqTag : ld_writeback(x, p.ld, r, j)}
  <2>1. x.kind # "st" /\ req # {} /\ i = MinOf(req)
    BY DEF Writebacks, writeback_ready
  <2>2. req \in SUBSET (0 .. LDQ_DEPTH) /\ LDQ_DEPTH \in Nat
    BY Sizes DEF LdqTag
  <2> HIDE DEF req
  <2>3. i \in req
    BY <2>1, <2>2, MinOfIs
  <2> QED
    BY <2>1, <2>3 DEF req
<1>2. ~st_ld_violation(x, p.ld, i)
  BY <1>1 DEF st_ld_violation
<1>3. /\ e.st_mask \subseteq stq_addr_valid
      /\ e.data # None \/ fwd_data_accept(i) \/ dcache_data_accept(x, p.ld, r, i)
  BY <1>1 DEF ld_writeback
<1>4. next_data(x, p.ld, r, i) # None
  <2>1. CASE fwd_data_accept(i)
    <3>1. fwd.data # None
      BY <2>1 DEF fwd_data_accept, ForwardsLoad, Awaited
    <3> QED
      BY <1>2, <2>1, <3>1 DEF next_data
  <2>2. CASE ~fwd_data_accept(i) /\ dcache_data_accept(x, p.ld, r, i)
    <3>1. r = i
      BY <2>2 DEF dcache_data_accept
    <3>2. dcache[i] # None
      BY <3>1, AnswerIs
    <3> QED
      BY <1>2, <2>2, <3>2 DEF next_data
  <2>3. CASE ~fwd_data_accept(i) /\ ~dcache_data_accept(x, p.ld, r, i)
    BY <1>2, <1>3, <2>3 DEF next_data
  <2> QED
    BY <2>1, <2>2, <2>3
<1> QED
  BY <1>2, <1>3, <1>4

\* All stores before it keep their addresses and stay those it can see.
LEMMA SettledMask ==
  ASSUME LInv, NEW p \in Ports, NEW x \in Executable, NEW r \in Answers, Cycle(x, p, r),
         NEW i \in LdqTag, Kept(i), ldq_entry[i].st_mask \subseteq stq_addr_valid
  PROVE  ldq_entry'[i].st_mask \subseteq stq_addr_valid' /\ View(i) = ldq_entry[i].st_mask
<1> DEFINE e == ldq_entry[i]
<1>1. View(i)' = {j \in e.st_mask \ Taken(p) : stq_entry[j].addr_valid \/ Executes(x, "st", j)}
  BY ViewAfter
<1>2. \A j \in e.st_mask : stq_entry[j].addr_valid
  BY DEF stq_addr_valid
<1>3. View(i)' = e.st_mask \ Taken(p)
  BY <1>1, <1>2
<1>4. View(i)' \subseteq stq_addr_valid'
  BY DEF View
<1>5. View(i) = e.st_mask
  BY DEF View
<1>6. ldq_entry'[i].st_mask = e.st_mask \ Taken(p)
  BY KeptLoadIs DEF LInv
<1> QED
  BY <1>3, <1>4, <1>5, <1>6

\* A load that is written back has data, and the addresses of all stores before it.
LEMMA LoadsSettledAfter ==
  ASSUME LInv, NEW p \in Ports, NEW x \in Executable, NEW r \in Answers, Cycle(x, p, r)
  PROVE  LoadsSettled'
<1> SInv /\ LoadsSettled
  BY DEF LInv
<1>1. ASSUME NEW i \in LdqTag, ldq_entry'[i].writebacked # None
      PROVE  /\ ldq_entry'[i].data # None
             /\ ldq_entry'[i].st_mask \subseteq stq_addr_valid'
  <2> DEFINE e == ldq_entry[i]
  <2>1. Kept(i)
    BY <1>1, NotKeptAfter
  <2>2. /\ ldq_entry'[i].data = next_data(x, p.ld, r, i)
        /\ ldq_entry'[i].writebacked = NextWriteback(x, p, r, i)
    BY <2>1, KeptLoadIs
  <2>3. ldq_entry'[i].data # None /\ e.st_mask \subseteq stq_addr_valid
    <3>1. CASE Writebacks(x, p.ld, r, i)
      BY <2>1, <2>2, <3>1, WritesBack
    <3>2. CASE ~Writebacks(x, p.ld, r, i)
      <4>1. e.writebacked # None
        BY <1>1, <2>2, <3>2 DEF NextWriteback
      <4> QED
        BY <2>1, <4>1, SettledLoad DEF LoadsSettled
    <3> QED
      BY <3>1, <3>2
  <2> QED
    BY <2>1, <2>3, SettledMask
<1> QED
  BY <1>1 DEF LoadsSettled

\* While every load is answered once, what is written back are the data of the
\* load, and what the stores it can see make of it.
LEMMA WritesBackData ==
  ASSUME OInv, NEW p \in Ports, NEW x \in Executable, NEW r \in Answers, Cycle(x, p, r),
         NEW i \in LdqTag, Kept(i), Writebacks(x, p.ld, r, i)
  PROVE  /\ writeback_data(x, p.ld, r, i) = next_data(x, p.ld, r, i)
         /\ HasValues(next_data(x, p.ld, r, i), View(i), ldq_entry[i].ld)
<1> LInv /\ Answered /\ Outstanding /\ ForwardsValue /\ AnsweredOnce
  BY DEF OInv
<1> DEFINE e == ldq_entry[i]
<1>1. ~st_ld_violation(x, p.ld, i)
      /\ (e.data # None \/ fwd_data_accept(i) \/ dcache_data_accept(x, p.ld, r, i))
  BY WritesBack
<1>2. CASE fwd_data_accept(i)
  <2>1. FwdValid(i) /\ ~e.order_fail
    BY <1>2 DEF fwd_data_accept
  <2>2. writeback_data(x, p.ld, r, i) = fwd.data /\ next_data(x, p.ld, r, i) = fwd.data
    BY <1>1, <1>2, <2>1 DEF writeback_data, next_data
  <2>3. HasValues(fwd.data, View(i), e.ld)
    BY <2>1 DEF ForwardsValue
  <2> QED
    BY <2>2, <2>3
<1>3. CASE ~fwd_data_accept(i) /\ dcache_data_accept(x, p.ld, r, i)
  <2>1. r = i /\ ~Awaited(i)
    BY <1>3 DEF dcache_data_accept, fire_ld_kill, Awaited
  <2>2. dcache[i] # None
    BY <2>1, AnswerIs
  <2>3. writeback_data(x, p.ld, r, i) = dcache[i] /\ next_data(x, p.ld, r, i) = dcache[i]
    BY <1>1, <1>3, <2>1 DEF writeback_data, next_data, Awaited
  <2>4. HasValues(dcache[i], View(i), e.ld)
    BY <2>1, <2>2 DEF Outstanding
  <2> QED
    BY <2>3, <2>4
<1>4. CASE ~fwd_data_accept(i) /\ ~dcache_data_accept(x, p.ld, r, i)
  <2>1. e.data # None
    BY <1>1, <1>4
  <2>2. ~FwdValid(i) /\ HasValues(e.data, View(i), e.ld)
    BY <2>1 DEF AnsweredOnce, Awaited, Answered
  <2>3. writeback_data(x, p.ld, r, i) = e.data /\ next_data(x, p.ld, r, i) = e.data
    BY <1>1, <1>4, <2>2 DEF writeback_data, next_data
  <2> QED
    BY <2>2, <2>3
<1> QED
  BY <1>2, <1>3, <1>4

\* And a load is written back once.
LEMMA WrittenOnce ==
  ASSUME OInv, NEW p \in Ports, NEW x \in Executable, NEW r \in Answers, Cycle(x, p, r),
         NEW i \in LdqTag, Kept(i), ldq_entry[i].writebacked # None
  PROVE  ~Writebacks(x, p.ld, r, i)
<1> LInv /\ AnsweredOnce
  BY DEF OInv
<1> LoadsSettled
  BY DEF LInv
<1>1. ldq_entry[i].data # None
  BY DEF LoadsSettled
<1>2. ~FwdValid(i) /\ r # i
  BY <1>1, SettledLoad DEF AnsweredOnce, Awaited
<1>3. ~ld_writeback(x, p.ld, r, i)
  BY <1>2 DEF ld_writeback, fwd_data_accept, dcache_data_accept
<1> DEFINE req == {j \in LdqTag : ld_writeback(x, p.ld, r, j)}
<1> SUFFICES ASSUME Writebacks(x, p.ld, r, i) PROVE FALSE
  OBVIOUS
<1>4. req # {} /\ i = MinOf(req)
  BY DEF Writebacks
<1>5. req \in SUBSET (0 .. LDQ_DEPTH) /\ LDQ_DEPTH \in Nat
  BY Sizes DEF LdqTag
<1> HIDE DEF req
<1>6. i \in req
  BY <1>4, <1>5, MinOfIs
<1> QED
  BY <1>3, <1>6 DEF req

\* There is one data that a set of stores makes of a load.
LEMMA DataUnique ==
  ASSUME SInv, NEW S \in SUBSET StqTag, NEW ld, NEW f, NEW g,
         HasValues(f, S, ld), HasValues(g, S, ld)
  PROVE  f = g
<1> TypeOK /\ PointersInOrder
  BY DEF SInv
<1>1. /\ \A i \in S : StAge[i] \in Int
      /\ \A i, j \in S : StAge[i] = StAge[j] => i = j
  BY StoreAges
<1>2. /\ f \in Data /\ g \in Data /\ DOMAIN f = ld.bytes /\ DOMAIN g = ld.bytes
      /\ \A b \in ld.bytes : /\ IsValue(f[b], stq_entry, StAge, memory, S, ld.addr, b)
                             /\ IsValue(g[b], stq_entry, StAge, memory, S, ld.addr, b)
  BY DEF HasValues, ValuesOf
<1>3. ASSUME NEW b \in ld.bytes PROVE f[b] = g[b]
  <2>1. /\ IsValue(f[b], stq_entry, StAge, memory, S, ld.addr, b)
        /\ IsValue(g[b], stq_entry, StAge, memory, S, ld.addr, b)
    BY <1>2
  <2> QED
    BY <1>1, <2>1, ValueUnique
<1>4. f = [b \in DOMAIN f |-> f[b]] /\ g = [b \in DOMAIN g |-> g[b]]
  BY <1>2 DEF Data
<1>5. [b \in ld.bytes |-> f[b]] = [b \in ld.bytes |-> g[b]]
  BY <1>3
<1> QED
  BY <1>2, <1>4, <1>5

\* A load is written back with what program order prescribes.
LEMMA WrittenBackAfter ==
  ASSUME OInv, NEW p \in Ports, NEW x \in Executable, NEW r \in Answers, Cycle(x, p, r)
  PROVE  WrittenBack'
<1> LInv /\ WrittenBack
  BY DEF OInv
<1> SInv /\ Expectation
  BY DEF LInv
<1>1. ASSUME NEW i \in LdqTag, ldq_entry'[i].writebacked # None
      PROVE  ldq_entry'[i].writebacked = ldq_entry'[i].expect
  <2> DEFINE e == ldq_entry[i]
             v == next_data(x, p.ld, r, i)
  <2>1. Kept(i)
    BY <1>1, NotKeptAfter
  <2>2. ldq_entry'[i].expect = e.expect /\ ldq_entry'[i].writebacked = NextWriteback(x, p, r, i)
    BY <2>1, KeptLoadIs
  <2>3. CASE Writebacks(x, p.ld, r, i)
    <3>1. writeback_data(x, p.ld, r, i) = v /\ HasValues(v, View(i), e.ld)
      BY <2>1, <2>3, WritesBackData
    <3>2. ldq_entry'[i].writebacked = v
      BY <2>2, <2>3, <3>1 DEF NextWriteback
    <3> HIDE DEF v
    <3>3. HasValues(v, e.st_mask, e.ld)
      BY <2>1, <2>3, <3>1, WritesBack, SettledMask
    <3>4. HasValues(e.expect, e.st_mask, e.ld)
      BY <2>1 DEF Expectation, Kept
    <3>5. e.st_mask \in SUBSET StqTag
      BY <2>1, KeptMask
    <3>6. v = e.expect
      BY <3>3, <3>4, <3>5, DataUnique
    <3> QED
      BY <2>2, <3>2, <3>6
  <2>4. CASE ~Writebacks(x, p.ld, r, i)
    <3>1. ldq_entry'[i].writebacked = e.writebacked
      BY <2>2, <2>4 DEF NextWriteback
    <3> QED
      BY <1>1, <2>2, <3>1 DEF WrittenBack
  <2> QED
    BY <2>3, <2>4
<1> QED
  BY <1>1 DEF WrittenBack

---------------------------------------------------------------------------
(* Sleeping loads *)

\* The stores before a load that retires have retired.
LEMMA BeforeRetiring ==
  ASSUME LInv, NEW i \in LdqTag, LdFromHead(i) < LoadCount, i \in RetiredTags("ld"),
         NEW t \in ldq_entry[i].st_mask
  PROVE  t \in StqTag /\ FromHead(t) < RetiredCount + RetiringCount
<1> SInv /\ MasksBounded /\ MasksInOrder
  BY DEF LInv
<1> TypeOK /\ PointersInOrder /\ StoresInOrder
  BY DEF SInv
<1>1. PICK n \in RetiredCount .. StoreCount : Bound(i, n)
  BY DEF MasksBounded
<1>2. /\ RetiredCount \in Nat /\ StoreCount \in Nat /\ n \in Int /\ n <= StoreCount
      /\ RetiringCount \in Nat
  BY <1>1, PointerTypes, RetiringStores, Sizes DEF RetiringCount
<1>3. t \in StqTag /\ FromHead(t) < n /\ FromHead(t) \in Nat /\ StAge[t] = FromHead(t)
  BY <1>1, StoreAges DEF Bound
<1>4. CASE FromHead(t) < RetiredCount
  BY <1>2, <1>3, <1>4
<1>5. CASE ~ (FromHead(t) < RetiredCount)
  <2>1. FromHead(t) \in RetiredCount .. (StoreCount - 1)
    BY <1>2, <1>3, <1>5
  <2>2. PICK k \in DOMAIN Unsettled : Unsettled[k].kind = "st" /\ StAge[Unsettled[k].tag] = FromHead(t)
    BY <2>1 DEF StoresInOrder, Runs
  <2>3. /\ pipe_retire_pkt \in Seq(Instruction) /\ window \in Seq(Instruction)
        /\ Unsettled \in Seq(Instruction)
    BY DEF TypeOK, Unsettled
  <2>4. Unsettled[k].tag \in StqTag
    BY <2>2, <2>3, TagKinds
  <2>5. Unsettled[k].tag = t
    BY <1>3, <2>2, <2>4, StoreAges
  <2>6. PICK c \in DOMAIN pipe_retire_pkt : pipe_retire_pkt[c].kind = "ld" /\ pipe_retire_pkt[c].tag = i
    BY DEF RetiredTags
  <2>7. /\ \A q \in DOMAIN pipe_retire_pkt : q \in DOMAIN Unsettled /\ Unsettled[q] = pipe_retire_pkt[q]
        /\ DOMAIN pipe_retire_pkt = 1 .. Len(pipe_retire_pkt) /\ Len(pipe_retire_pkt) \in Nat
        /\ \A q \in DOMAIN Unsettled : q \in Nat \ {0}
    <3>1. /\ \A q \in DOMAIN pipe_retire_pkt : q \in DOMAIN Unsettled /\ Unsettled[q] = pipe_retire_pkt[q]
          /\ DOMAIN pipe_retire_pkt = 1 .. Len(pipe_retire_pkt) /\ Len(pipe_retire_pkt) \in Nat
      BY <2>3, Concatenated DEF Unsettled
    <3>2. \A q \in DOMAIN Unsettled : q \in Nat \ {0}
      BY <2>3
    <3> QED
      BY <3>1, <3>2
  <2>8. k < c
    BY <2>2, <2>5, <2>6, <2>7 DEF MasksInOrder
  <2>9. k \in DOMAIN pipe_retire_pkt /\ pipe_retire_pkt[k] = Unsettled[k]
    BY <2>7, <2>8
  <2>10. t \in RetiredTags("st")
    BY <2>2, <2>5, <2>9 DEF RetiredTags
  <2> QED
    BY <1>3, <2>10, RetiringStores DEF RetiringCount
<1> QED
  BY <1>3, <1>4, <1>5

\* A load sleeps on a store that is still queued, before it or retired.
LEMMA SleepersAfter ==
  ASSUME LInv, NEW p \in Ports, NEW x \in Executable, NEW r \in Answers, Cycle(x, p, r)
  PROVE  Sleepers'
<1> SInv /\ Sleepers /\ IdleMasks /\ ForwardsLoad
  BY DEF LInv
<1> TypeOK /\ PointersInOrder
  BY DEF SInv
<1>1. StqStep(x, p.st) /\ ~pipe_flush
      /\ ldq_entry' = [k \in LdqTag |-> NextLoad(x, p.ld, p.st, r, k)]
  BY DEF Cycle
<1>2. ASSUME NEW i \in LdqTag, NEW t, t = ldq_entry'[i].sleep, t # None
      PROVE  stq_entry'[t].entry_valid /\ (stq_entry'[t].retired \/ t \in ldq_entry'[i].st_mask)
  <2> DEFINE e == ldq_entry[i]
  <2>1. t = next_sleep(x, p.ld, p.st, i)
    BY <1>1, <1>2, LoadAfter
  <2>2. CASE FwdSleep(i)
    <3>1. t = fwd.stq_tag /\ ~ (p.st /\ fire_st = t)
      BY <1>2, <2>1, <2>2 DEF next_sleep
    <3>2. Kept(i)
      BY <2>2, NotKeptIs DEF Awaited
    <3>3. t \in e.st_mask \ Taken(p)
      BY <2>2, <3>1 DEF ForwardsLoad, Awaited, Taken
    <3>4. ldq_entry'[i].st_mask = e.st_mask \ Taken(p)
      BY <3>2, KeptLoadIs
    <3>5. stq_entry'[t].entry_valid
      BY <3>2, <3>3, ViewAfter
    <3> QED
      BY <3>3, <3>4, <3>5
  <2>3. CASE ~FwdSleep(i)
    <3>1. t = e.sleep /\ ~ (p.st /\ fire_st = t)
      BY <1>2, <2>1, <2>3 DEF next_sleep
    <3>2. stq_entry[t].entry_valid /\ (stq_entry[t].retired \/ t \in e.st_mask)
      BY <1>2, <3>1 DEF Sleepers
    <3>3. t \in StqTag /\ t \notin Taken(p)
      <4>1. e \in LdqEntry
        BY DEF TypeOK
      <4>2. e.sleep \in StqTag \cup {None}
        BY <4>1 DEF LdqEntry
      <4> QED
        BY <1>2, <3>1, <4>2 DEF Taken
    <3>4. Stays(p, t) /\ FromHead(t) < StoreCount
      BY <3>2, <3>3, ValidStores, StoreFates
    <3>5. /\ stq_entry'[t].entry_valid
          /\ stq_entry'[t].retired <=> FromHead(t) < RetiredCount + RetiringCount
      BY <1>1, <3>3, <3>4, StoreFieldsAfter
    <3>6. ASSUME stq_entry[t].retired PROVE stq_entry'[t].retired
      <4>1. FromHead(t) < RetiredCount
        BY <3>3, <3>4, <3>6, QueuedStore
      <4>2. FromHead(t) \in Int /\ RetiredCount \in Int /\ RetiringCount \in Nat
        BY <3>3, StoreAges, PointerTypes, RetiringStores, Sizes DEF RetiringCount
      <4>3. FromHead(t) < RetiredCount + RetiringCount
        BY <4>1, <4>2
      <4> QED
        BY <3>5, <4>3
    <3>7. ASSUME t \in e.st_mask PROVE stq_entry'[t].retired \/ t \in ldq_entry'[i].st_mask
      <4>1. CASE Kept(i)
        BY <3>3, <3>7, <4>1, KeptLoadIs
      <4>2. CASE ~Kept(i)
        <5>1. LdFromHead(i) < LoadCount
          BY <3>7 DEF IdleMasks
        <5>2. i \in RetiredTags("ld")
          BY <4>2, <5>1, LoadFates
        <5>3. FromHead(t) < RetiredCount + RetiringCount
          BY <3>7, <5>1, <5>2, BeforeRetiring
        <5> QED
          BY <3>5, <5>3
      <4> QED
        BY <4>1, <4>2
    <3> QED
      BY <3>2, <3>5, <3>6, <3>7
  <2> QED
    BY <2>2, <2>3
<1> QED
  BY <1>2 DEF Sleepers

---------------------------------------------------------------------------
(* The invariant *)

\* A load queue without a load, and nothing on its way to one.
Quiet ==
  /\ NoLoads /\ fire_ld = None /\ fwd = NoFwd /\ dcache = [i \in LdqTag |-> None]
  /\ window = <<>> /\ pipe_retire_pkt = <<>>

\* Then both invariants hold.
LEMMA QuietIs == SInv /\ Quiet => OInv
<1> SUFFICES ASSUME SInv, Quiet PROVE OInv
  OBVIOUS
<1>1. \A i \in LdqTag : ldq_entry[i] = EmptyLoad /\ dcache[i] = None
  BY DEF Quiet, NoLoads
<1>2. /\ ~EmptyLoad.addr_valid /\ EmptyLoad.st_mask = {} /\ EmptyLoad.sleep = None
      /\ ~EmptyLoad.fired /\ EmptyLoad.data = None /\ EmptyLoad.writebacked = None
      /\ ~EmptyLoad.order_fail
  BY DEF EmptyLoad
<1>3. \A i \in LdqTag : ~ (LdFromHead(i) < LoadCount)
  <2>1. LoadCount = 0
    BY EmptyLoads DEF Quiet
  <2>2. \A i \in LdqTag : LdFromHead(i) \in Nat
    BY LoadAges DEF SInv
  <2> QED
    BY <2>1, <2>2
<1>4. \A i : ~Awaited(i)
  BY DEF Quiet, NoFwd, Awaited, FwdValid, FwdSleep
<1>5. Unsettled = <<>> /\ DOMAIN pipe_retire_pkt = {}
  BY DEF Unsettled, Quiet
<1>6. MasksBounded
  BY <1>3 DEF MasksBounded
<1>7. MasksInOrder
  BY <1>5 DEF MasksInOrder
<1>8. IdleMasks
  BY <1>1, <1>2 DEF IdleMasks
<1>9. LoadsMarked
  BY <1>1, <1>2 DEF LoadsMarked
<1>10. LoadsComplete
  BY <1>5 DEF LoadsComplete
<1>11. Expectation
  BY <1>3 DEF Expectation
<1>12. LoadsAnswered /\ LoadsSettled /\ Sleepers
  BY <1>1, <1>2 DEF LoadsAnswered, LoadsSettled, Sleepers
<1>13. LoadsOwed
  BY <1>1 DEF LoadsOwed
<1>14. OffersLoad
  BY DEF OffersLoad, Quiet
<1>15. ForwardsLoad
  BY <1>4 DEF ForwardsLoad
<1>16. LInv
  BY <1>6, <1>7, <1>8, <1>9, <1>10, <1>11, <1>12, <1>13, <1>14, <1>15 DEF LInv
<1>17. Answered /\ WrittenBack
  BY <1>1, <1>2 DEF Answered, WrittenBack
<1>18. Outstanding
  BY <1>1 DEF Outstanding
<1>19. ForwardsValue /\ AnsweredOnce
  BY <1>4 DEF ForwardsValue, AnsweredOnce, Awaited
<1> QED
  BY <1>16, <1>17, <1>18, <1>19 DEF OInv

\* The same of the next state.
LEMMA QuietAfter == SInv' /\ Quiet' => OInv'
  BY QuietIs, PTL

\* At reset and after a flush the load queue is quiet.
LEMMA ResetQuiet == Init => Quiet
  BY DEF Init, Quiet, NoLoads

\* A flush empties the load queue and what is on its way to it.
LEMMA FlushQuiet ==
  ASSUME NEW p \in Ports, FlushCycle(p)
  PROVE  Quiet'
<1>1. fwd' = NoFwd
  BY DEF FlushCycle, StqStep, next_fwd
<1> QED
  BY <1>1 DEF FlushCycle, Quiet, NoLoads

\* A cycle without a flush keeps LInv, whatever the cache does.
LEMMA LoadsKept ==
  ASSUME LInv, SInv', NEW p \in Ports, NEW x \in Executable, NEW r \in Answers, Cycle(x, p, r),
         NEW misp \in BOOLEAN, NEW n \in Retirable(misp), NEW g, Advance(g, n, misp)
  PROVE  LInv'
<1>1. MasksBounded'
  BY MasksBoundedAfter
<1>2. MasksInOrder'
  BY MasksInOrderAfter
<1>3. IdleMasks' /\ LoadsMarked'
  BY IdleMasksAfter, LoadsMarkedAfter
<1>4. LoadsComplete'
  BY LoadsCompleteAfter
<1>5. Expectation'
  BY ExpectationAfter
<1>6. LoadsAnswered' /\ LoadsOwed'
  BY LoadsAnsweredAfter, LoadsOwedAfter
<1>7. OffersLoad'
  BY OffersLoadAfter
<1>8. ForwardsLoad'
  BY ForwardsLoadAfter
<1>9. LoadsSettled'
  BY LoadsSettledAfter
<1>10. Sleepers'
  BY SleepersAfter
<1> QED
  BY <1>1, <1>2, <1>3, <1>4, <1>5, <1>6, <1>7, <1>8, <1>9, <1>10 DEF LInv

\* It keeps OInv while the cache refuses no load.
LEMMA OrderKept ==
  ASSUME LoadStalls = FALSE, OInv, LInv', NEW p \in Ports, NEW x \in Executable,
         NEW r \in Answers, Cycle(x, p, r)
  PROVE  OInv'
<1> LInv
  BY DEF OInv
<1>1. Answered' /\ Outstanding'
  BY AnsweredAfter, OutstandingAfter
<1>2. ForwardsValue' /\ AnsweredOnce'
  BY ForwardsValueAfter, AnsweredOnceAfter
<1>3. WrittenBack'
  BY WrittenBackAfter
<1> QED
  BY <1>1, <1>2, <1>3 DEF OInv

\* What the invariants speak of does not change while nothing changes.
LEMMA NothingChanges ==
  ASSUME UNCHANGED vars
  PROVE  /\ UNCHANGED <<stq_entry, ldq_entry, fire_ld, fwd, pipe_retire_pkt, dcache, memory>>
         /\ UNCHANGED <<RetiredCount, StoreCount, LoadCount, Unsettled, stq_addr_valid, StAge>>
         /\ RetiredTags("ld")' = RetiredTags("ld")
         /\ \A i : /\ FromHead(i)' = FromHead(i) /\ LdFromHead(i)' = LdFromHead(i)
                   /\ View(i)' = View(i) /\ Awaited(i)' = Awaited(i)
                   /\ FwdValid(i)' = FwdValid(i) /\ FwdSleep(i)' = FwdSleep(i)
<1>1. /\ UNCHANGED <<stq_entry, st_head, st_tail, st_retired, ldq_entry, ld_head, ld_tail>>
      /\ UNCHANGED <<fire_ld, fwd, window, pipe_retire_pkt, dcache, memory>>
  BY DEF vars, stq_vars, ldq_vars, env_vars
<1>2. /\ UNCHANGED <<RetiredCount, StoreCount, LoadCount, Unsettled, stq_addr_valid>>
      /\ \A i : FromHead(i)' = FromHead(i) /\ LdFromHead(i)' = LdFromHead(i)
  BY <1>1 DEF RetiredCount, StoreCount, LoadCount, Unsettled, FromHead, LdFromHead, stq_addr_valid
<1>3. StAge' = StAge
  BY <1>2 DEF StAge
<1>4. \A i : /\ View(i)' = View(i) /\ Awaited(i)' = Awaited(i)
             /\ FwdValid(i)' = FwdValid(i) /\ FwdSleep(i)' = FwdSleep(i)
  BY <1>1, <1>2 DEF View, Awaited, FwdValid, FwdSleep
<1>5. RetiredTags("ld")' = RetiredTags("ld")
  BY <1>1 DEF RetiredTags
<1> QED
  BY <1>1, <1>2, <1>3, <1>4, <1>5

\* So they stay.
LEMMA LoadsStutter ==
  ASSUME LInv, SInv', UNCHANGED vars
  PROVE  LInv'
<1>1. MasksBounded' /\ MasksInOrder' /\ IdleMasks' /\ LoadsMarked' /\ LoadsComplete'
  BY NothingChanges
  DEF LInv, MasksBounded, Bound, MasksInOrder, IdleMasks, LoadsMarked, LoadsComplete
<1>2. Expectation'
  BY NothingChanges DEF LInv, Expectation, HasValues
<1>3. LoadsAnswered' /\ LoadsOwed'
  BY NothingChanges DEF LInv, LoadsAnswered, LoadsOwed
<1>4. OffersLoad'
  BY NothingChanges DEF LInv, OffersLoad
<1>5. ForwardsLoad'
  BY NothingChanges DEF LInv, ForwardsLoad
<1>6. LoadsSettled' /\ Sleepers'
  BY NothingChanges DEF LInv, LoadsSettled, Sleepers
<1> QED
  BY <1>1, <1>2, <1>3, <1>4, <1>5, <1>6 DEF LInv

\* The second invariant, too.
LEMMA OrderStutters ==
  ASSUME OInv, LInv', UNCHANGED vars
  PROVE  OInv'
<1>1. Answered'
  BY NothingChanges DEF OInv, Answered, HasValues
<1>2. Outstanding'
  BY NothingChanges DEF OInv, Outstanding, HasValues
<1>3. ForwardsValue'
  BY NothingChanges DEF OInv, ForwardsValue, HasValues
<1>4. AnsweredOnce' /\ WrittenBack'
  BY NothingChanges DEF OInv, AnsweredOnce, WrittenBack
<1> QED
  BY <1>1, <1>2, <1>3, <1>4 DEF OInv

\* LInv is an invariant.
LEMMA LoadInvariant == Spec => []LInv
<1>1. Init => LInv
  BY ResetHolds, ResetQuiet, QuietIs DEF RInv, OInv
<1>2. LInv /\ RInv' /\ [Next]_vars => LInv'
  <2> SUFFICES ASSUME LInv, RInv', [Next]_vars PROVE LInv'
    OBVIOUS
  <2> SInv'
    BY DEF RInv
  <2>1. CASE UNCHANGED vars
    BY <2>1, LoadsStutter
  <2>2. ASSUME NEW p \in Ports, FlushCycle(p) PROVE LInv'
    BY <2>2, FlushQuiet, QuietAfter DEF OInv
  <2>3. ASSUME NEW p \in Ports, NEW x \in Executable, NEW r \in Answers, Cycle(x, p, r),
               NEW misp \in BOOLEAN, NEW n \in Retirable(misp),
               NEW g \in Renamed(p, n, misp), Advance(g, n, misp)
        PROVE  LInv'
    BY <2>3, LoadsKept
  <2> QED
    BY <2>1, <2>2, <2>3 DEF Next, Step
<1> QED
  BY <1>1, <1>2, QueueInvariant, PTL DEF Spec

\* OInv is one while the cache refuses no load.
LEMMA OrderInvariant ==
  ASSUME LoadStalls = FALSE
  PROVE  Spec => []OInv
<1>1. Init => OInv
  BY ResetHolds, ResetQuiet, QuietIs DEF RInv
<1>2. OInv /\ LInv' /\ [Next]_vars => OInv'
  <2> SUFFICES ASSUME OInv, LInv', [Next]_vars PROVE OInv'
    OBVIOUS
  <2> SInv'
    BY DEF LInv
  <2>1. CASE UNCHANGED vars
    BY <2>1, OrderStutters
  <2>2. ASSUME NEW p \in Ports, FlushCycle(p) PROVE OInv'
    BY <2>2, FlushQuiet, QuietAfter
  <2>3. ASSUME NEW p \in Ports, NEW x \in Executable, NEW r \in Answers, Cycle(x, p, r) PROVE OInv'
    BY <2>3, OrderKept
  <2> QED
    BY <2>1, <2>2, <2>3 DEF Next, Step
<1> QED
  BY <1>1, <1>2, LoadInvariant, PTL DEF Spec

\* While the cache refuses no load, the value a load puts on the result bus is
\* the one program order prescribes, however execution, forwarding, cache
\* answers, replays and flushes interleave.
THEOREM LoadsFollowProgram ==
  ASSUME LoadStalls = FALSE
  PROVE  Spec => []LoadsSeeProgramOrder
<1>1. OInv => LoadsSeeProgramOrder
  BY DEF OInv, WrittenBack, LoadsSeeProgramOrder
<1> QED
  BY <1>1, OrderInvariant, PTL

\* A load sleeps only on a store that is queued and will wake it, whatever the
\* cache refuses.
THEOREM SleepersWake == Spec => []SleepersHaveAStore
<1>1. LInv => SleepersHaveAStore
  BY DEF LInv, Sleepers, SleepersHaveAStore
<1> QED
  BY <1>1, LoadInvariant, PTL

\* No load retires while it is marked for replay, whatever the cache refuses:
\* the assertion of ldq.sv.
THEOREM NoReplayRetires == Spec => []RetiresWithoutOrderFail
<1>1. LInv => RetiresWithoutOrderFail
  <2> SUFFICES ASSUME LInv, NEW i \in RetiredTags("ld") PROVE ~ldq_entry[i].order_fail
    BY DEF RetiresWithoutOrderFail
  <2>1. PICK k \in DOMAIN pipe_retire_pkt : pipe_retire_pkt[k].kind = "ld" /\ pipe_retire_pkt[k].tag = i
    BY DEF RetiredTags
  <2>2. i \in LdqTag
    BY <2>1, TagKinds DEF LInv, SInv, TypeOK
  <2>3. ldq_entry[i].writebacked # None
    BY <2>1 DEF LInv, LoadsComplete
  <2>4. ldq_entry[i].data # None
    BY <2>2, <2>3 DEF LInv, LoadsSettled
  <2> QED
    BY <2>2, <2>4 DEF LInv, LoadsAnswered
<1> QED
  BY <1>1, LoadInvariant, PTL

---------------------------------------------------------------------------
(* The store buffer the queue implements *)

\* The store of age n, for the ages of a full queue.
StoreOf == [n \in 0 .. (STQ_DEPTH - 1) |-> stq_entry[SlotAt(st_head.ptr, n, STQ_DEPTH)].st]

\* As many as the numbers they are numbered with.
LEMMA NumberedAre ==
  ASSUME NEW S, NEW lo \in Int, NEW n \in Nat, NEW f \in [S -> lo .. ((lo + n) - 1)],
         \A i, j \in S : f[i] = f[j] => i = j,
         \A x \in lo .. ((lo + n) - 1) : \E i \in S : f[i] = x
  PROVE  Cardinality(S) = n
<1> DEFINE T == lo .. ((lo + n) - 1)
<1>1. IsFiniteSet(T) /\ Cardinality(T) = n
  <2>1. (lo + n) - 1 \in Int /\ (lo > (lo + n) - 1 => n = 0) /\ ((lo + n) - 1) - lo + 1 = n
    OBVIOUS
  <2> QED
    BY <2>1, FS_Interval
<1>2. f \in Injection(S, T)
  BY DEF Injection, IsInjective
<1>3. f \in Surjection(S, T)
  BY DEF Surjection
<1> HIDE DEF T
<1> QED
  BY <1>1, <1>2, <1>3, FS_Injection

\* Where the stores of a sequence stand, and the n-th of these places.
StPlaces(s) == {k \in DOMAIN s : s[k].kind = "st"}
StPlace(s, n) == CHOOSE j \in StPlaces(s) : Cardinality({i \in StPlaces(s) : i < j}) = n - 1

\* A sequence whose stores have consecutive ages from c on: the n-th has the
\* n-th of these ages.
LEMMA RankIsAge ==
  ASSUME NEW s \in Seq(Instruction), NEW age, NEW c \in Nat, NEW m \in Nat,
         Runs(s, "st", age, c, c + m)
  PROVE  /\ Cardinality(StPlaces(s)) = m
         /\ \A n \in 1 .. m : /\ StPlace(s, n) \in StPlaces(s)
                              /\ age[s[StPlace(s, n)].tag] = c + (n - 1)
<1> DEFINE K == StPlaces(s)
           A == [k \in K |-> age[s[k].tag]]
           Before(j) == {i \in K : i < j}
<1>1. K \in SUBSET Nat
  BY LenProperties DEF StPlaces
<1>2. /\ \A k \in K : A[k] \in c .. ((c + m) - 1)
      /\ \A j, k \in K : j < k => A[j] < A[k]
      /\ \A n \in c .. ((c + m) - 1) : \E k \in K : A[k] = n
  BY DEF Runs, StPlaces
<1> HIDE DEF K, A
<1>3. \A j, k \in K : (A[j] < A[k] <=> j < k) /\ (A[j] = A[k] => j = k)
  <2> TAKE j, k \in K
  <2>1. j \in Nat /\ k \in Nat /\ A[j] \in Int /\ A[k] \in Int
    BY <1>1, <1>2
  <2> QED
    BY <1>2, <2>1
<1>4. Cardinality(K) = m
  <2>1. A \in [K -> c .. ((c + m) - 1)]
    BY <1>2 DEF A
  <2> QED
    BY <1>2, <1>3, <2>1, NumberedAre
<1>5. ASSUME NEW j \in K PROVE Cardinality(Before(j)) = A[j] - c
  <2> DEFINE B == [i \in Before(j) |-> A[i]]
             n == A[j] - c
  <2>1. A[j] \in Nat /\ A[j] >= c /\ n \in Nat /\ (c + n) - 1 = A[j] - 1
    BY <1>2
  <2>2. B \in [Before(j) -> c .. ((c + n) - 1)]
    BY <1>2, <1>3, <2>1
  <2>3. \A x \in c .. ((c + n) - 1) : \E i \in Before(j) : B[i] = x
    <3> TAKE x \in c .. ((c + n) - 1)
    <3>1. x \in c .. ((c + m) - 1) /\ x < A[j]
      BY <1>2, <2>1
    <3>2. PICK i \in K : A[i] = x
      BY <1>2, <3>1
    <3>3. i \in Before(j)
      BY <1>3, <3>1, <3>2
    <3> QED
      BY <3>2, <3>3
  <2>4. \A i, k \in Before(j) : B[i] = B[k] => i = k
    BY <1>3
  <2>5. n \in Nat
    BY <2>1
  <2> HIDE DEF B, Before, n
  <2>6. Cardinality(Before(j)) = n
    BY <2>2, <2>3, <2>4, <2>5, NumberedAre
  <2> QED
    BY <2>6 DEF n
<1>6. ASSUME NEW n \in 1 .. m
      PROVE  StPlace(s, n) \in K /\ A[StPlace(s, n)] = c + (n - 1)
  <2> DEFINE k == StPlace(s, n)
  <2>1. c + (n - 1) \in c .. ((c + m) - 1)
    OBVIOUS
  <2>2. PICK j \in K : A[j] = c + (n - 1)
    BY <1>2, <2>1
  <2>3. Cardinality(Before(j)) = n - 1
    BY <1>5, <2>2
  <2>4. k = CHOOSE i \in K : Cardinality(Before(i)) = n - 1
    BY Zenon DEF StPlace, K
  <2> HIDE DEF Before, k
  <2>5. k \in K /\ Cardinality(Before(k)) = n - 1
    BY <2>3, <2>4
  <2>6. A[k] - c = n - 1 /\ A[k] \in Int
    BY <1>2, <1>5, <2>5
  <2>7. k \in K /\ A[k] = c + (n - 1)
    BY <2>5, <2>6
  <2> QED
    BY <2>7, Zenon DEF k
<1> QED
  BY <1>4, <1>6, Zenon DEF K, A

\* n elements of a numbering, from the number lo on.
Stretch(g, lo, n) == [k \in 1 .. n |-> g[lo + (k - 1)]]

\* The buffered stores have the ages below RetiredCount, those that retire the
\* ages from there on, in program order.
BufferShape ==
  /\ BufferedStores = Stretch(StoreOf, 0, RetiredCount)
  /\ RetiringInOrder = Stretch(StoreOf, RetiredCount, RetiringCount)
  /\ RetiredCount \in Nat /\ RetiringCount \in 0 .. MACHINE_WIDTH /\ StoreCount \in Nat
  /\ RetiredCount + RetiringCount <= StoreCount /\ StoreCount <= STQ_DEPTH
  /\ \A n \in 0 .. (STQ_DEPTH - 1) : n < StoreCount => StoreOf[n] \in Stores

\* Ages make it so.
LEMMA BufferIs == SInv => BufferShape
<1> SUFFICES ASSUME SInv PROVE BufferShape
  OBVIOUS
<1> TypeOK /\ PointersInOrder /\ StoreEntries
  BY DEF SInv
<1>1. /\ RetiredCount \in 0 .. STQ_DEPTH /\ StoreCount \in 0 .. STQ_DEPTH
      /\ st_head.ptr \in 0 .. (STQ_DEPTH - 1) /\ STQ_DEPTH \in Nat \ {0} /\ MACHINE_WIDTH \in Nat
  BY PointerTypes, Sizes
<1>2. /\ RetiringCount \in 0 .. MACHINE_WIDTH
      /\ RetiredCount + RetiringCount <= StoreCount
      /\ Runs(pipe_retire_pkt, "st", StAge, RetiredCount, RetiredCount + RetiringCount)
  BY RetiringStores DEF RetiringCount
<1>3. BufferedStores = Stretch(StoreOf, 0, RetiredCount)
  <2>1. BufferedStores =
          [k \in 1 .. RetiredCount |-> stq_entry[SlotAt(st_head.ptr, k - 1, STQ_DEPTH)].st]
    BY Zenon DEF BufferedStores, RetiredCount, Distance, SlotAt
  <2>2. \A k \in 1 .. RetiredCount : k - 1 \in 0 .. (STQ_DEPTH - 1) /\ 0 + (k - 1) = k - 1
    BY <1>1
  <2> QED
    BY <2>1, <2>2, Zenon DEF StoreOf, Stretch
<1>4. ASSUME NEW i \in StqTag PROVE StoreOf[FromHead(i)] = stq_entry[i].st
  <2>1. FromHead(i) = AgeOf(st_head.ptr, i, STQ_DEPTH) /\ FromHead(i) \in 0 .. (STQ_DEPTH - 1)
    BY StoreAges DEF FromHead, AgeOf
  <2>2. SlotAt(st_head.ptr, FromHead(i), STQ_DEPTH) = i
    BY <1>1, <2>1, AgesAndSlots DEF StqTag
  <2> QED
    BY <2>1, <2>2 DEF StoreOf
<1>5. RetiringInOrder = Stretch(StoreOf, RetiredCount, RetiringCount)
  <2> DEFINE K == StPlaces(pipe_retire_pkt)
             ranked(n) == StPlace(pipe_retire_pkt, n)
  <2>1. pipe_retire_pkt \in Seq(Instruction)
    BY DEF TypeOK
  <2>2. /\ Cardinality(K) = RetiringCount
        /\ \A n \in 1 .. RetiringCount :
             ranked(n) \in K /\ StAge[pipe_retire_pkt[ranked(n)].tag] = RetiredCount + (n - 1)
    <3>1. RetiredCount \in Nat /\ RetiringCount \in Nat
      BY <1>1, <1>2
    <3> HIDE DEF RetiredCount, RetiringCount, StAge
    <3> QED
      BY <1>2, <2>1, <3>1, RankIsAge
  <2>3. ASSUME NEW n \in 1 .. RetiringCount
        PROVE  stq_entry[pipe_retire_pkt[ranked(n)].tag].st = StoreOf[RetiredCount + (n - 1)]
    <3> DEFINE k == ranked(n)
               t == pipe_retire_pkt[k].tag
    <3>1. k \in K /\ StAge[t] = RetiredCount + (n - 1)
      BY <2>2
    <3>2. t \in StqTag
      <4>1. k \in DOMAIN pipe_retire_pkt /\ pipe_retire_pkt[k].kind = "st"
        BY <3>1 DEF StPlaces
      <4> HIDE DEF k
      <4>2. pipe_retire_pkt[k] \in Instruction
        BY <2>1, <4>1
      <4> QED
        BY <4>1, <4>2 DEF Instruction
    <3> HIDE DEF k
    <3>3. StAge[t] = FromHead(t)
      BY <3>2, StoreAges
    <3> HIDE DEF t
    <3>4. stq_entry[t].st = StoreOf[RetiredCount + (n - 1)]
      BY <1>4, <3>1, <3>2, <3>3
    <3> QED
      BY <3>4, Zenon DEF t, k
  <2>4. RetiringInOrder =
          [n \in 1 .. Cardinality(K) |-> stq_entry[pipe_retire_pkt[ranked(n)].tag].st]
    BY Zenon DEF RetiringInOrder, StPlaces, StPlace
  <2> HIDE DEF K, ranked
  <2> QED
    BY <2>2, <2>3, <2>4, Zenon DEF Stretch
<1>6. ASSUME NEW n \in 0 .. (STQ_DEPTH - 1), n < StoreCount PROVE StoreOf[n] \in Stores
  <2> DEFINE i == SlotAt(st_head.ptr, n, STQ_DEPTH)
  <2>1. i \in StqTag /\ AgeOf(st_head.ptr, i, STQ_DEPTH) = n
    BY <1>1, SlotIs, AgesAndSlots DEF StqTag
  <2>2. FromHead(i) = n
    BY <2>1 DEF FromHead, AgeOf
  <2> HIDE DEF i
  <2>3. stq_entry[i].st \in Stores
    BY <1>6, <2>1, <2>2, QueuedStore
  <2> QED
    BY <1>4, <2>1, <2>2, <2>3
<1> QED
  BY <1>1, <1>2, <1>3, <1>5, <1>6 DEF BufferShape

\* And after a step.
LEMMA BufferAfter == SInv' => BufferShape'
  BY BufferIs, PTL

\* A store that stays in the queue gets younger by the one that leaves.
LEMMA StoreOfAfter ==
  ASSUME SInv, SInv', NEW p \in Ports, NEW x \in Executable, StqStep(x, p.st),
         NEW n \in 0 .. (STQ_DEPTH - 1), n + Leaving(p) < RetiredCount + RetiringCount
  PROVE  StoreOf'[n] = StoreOf[n + Leaving(p)]
<1> TypeOK /\ PointersInOrder
  BY DEF SInv
<1> DEFINE q == n + Leaving(p)
<1>1. /\ STQ_DEPTH \in Nat \ {0} /\ Leaving(p) \in {0, 1}
      /\ RetiredCount + RetiringCount <= StoreCount /\ StoreCount <= STQ_DEPTH
      /\ RetiredCount + RetiringCount \in Nat /\ StoreCount \in Nat
      /\ st_head.ptr \in 0 .. (STQ_DEPTH - 1) /\ st_head'.ptr \in 0 .. (STQ_DEPTH - 1)
  <2>1. RetiredCount + RetiringCount <= StoreCount /\ RetiringCount \in Nat
    BY RetiringStores DEF RetiringCount
  <2>2. st_head' \in Pointer(STQ_DEPTH)
    BY StorePointersMove
  <2> QED
    BY <2>1, <2>2, PointerTypes, Sizes, TakenIsHead DEF Pointer
<1>2. q \in 0 .. (STQ_DEPTH - 1) /\ q >= Leaving(p) /\ q < StoreCount /\ q - Leaving(p) = n
  BY <1>1
<1> HIDE DEF q
<1>3. PICK i \in StqTag : i = SlotAt(st_head.ptr, q, STQ_DEPTH) /\ FromHead(i) = q
  BY <1>1, <1>2, SlotIs, AgesAndSlots DEF StqTag, FromHead, AgeOf
<1>4. StoreOf[q] = stq_entry[i].st
  BY <1>2, <1>3 DEF StoreOf
<1>5. stq_entry'[i].st = stq_entry[i].st
  <2>1. Stays(p, i)
    BY <1>1, <1>2, <1>3 DEF Stays, q
  <2> QED
    BY <1>3, <2>1, StoreFieldsAfter
<1>6. SlotAt(st_head'.ptr, n, STQ_DEPTH) = i
  <2>1. FromHead(i)' = n
    BY <1>2, <1>3, StorePointersMove
  <2>2. AgeOf(st_head'.ptr, i, STQ_DEPTH) = n
    BY <2>1 DEF FromHead, AgeOf
  <2> QED
    BY <1>1, <1>3, <2>2, AgesAndSlots DEF StqTag
<1>7. StoreOf'[n] = stq_entry'[SlotAt(st_head'.ptr, n, STQ_DEPTH)].st
  BY DEF StoreOf
<1> QED
  BY <1>4, <1>5, <1>6, <1>7 DEF q

\* The first n numbers have a value in V.
Numbered(g, n, V) == \A i \in 0 .. (n - 1) : g[i] \in V

\* Two stretches that meet are one.
LEMMA StretchesJoin ==
  ASSUME NEW V, NEW g, NEW c \in Nat, NEW m \in Nat, Numbered(g, c + m, V)
  PROVE  Stretch(g, 0, c) \o Stretch(g, c, m) = Stretch(g, 0, c + m)
<1> DEFINE s == Stretch(g, 0, c)
           t == Stretch(g, c, m)
           u == Stretch(g, 0, c + m)
<1> \A i \in 0 .. ((c + m) - 1) : g[i] \in V
  BY DEF Numbered
<1>1. s \in Seq(V) /\ Len(s) = c /\ \A k \in 1 .. c : s[k] = g[k - 1]
  BY DEF Stretch
<1>2. t \in Seq(V) /\ Len(t) = m /\ \A k \in 1 .. m : t[k] = g[c + (k - 1)]
  BY DEF Stretch
<1>3. u \in Seq(V) /\ Len(u) = c + m /\ \A k \in 1 .. (c + m) : u[k] = g[k - 1]
  BY DEF Stretch
<1> HIDE DEF s, t, u
<1>4. s \o t = u
  <2>1. /\ s \o t \in Seq(V) /\ Len(s \o t) = c + m
        /\ \A k \in 1 .. (c + m) : (s \o t)[k] = IF k <= c THEN s[k] ELSE t[k - c]
    BY <1>1, <1>2, ConcatProperties
  <2>2. \A k \in 1 .. (c + m) : (s \o t)[k] = u[k]
    <3> TAKE k \in 1 .. (c + m)
    <3>1. CASE k <= c
      <4>1. k \in 1 .. c
        BY <3>1
      <4> QED
        BY <1>1, <1>3, <2>1, <3>1, <4>1
    <3>2. CASE ~(k <= c)
      <4>1. k - c \in 1 .. m /\ c + ((k - c) - 1) = k - 1
        BY <3>2
      <4> QED
        BY <1>2, <1>3, <2>1, <3>2, <4>1
    <3> QED
      BY <3>1, <3>2
  <2> QED
    BY <1>3, <2>1, <2>2, SeqEqual
<1> QED
  BY <1>4, Zenon DEF s, t, u

\* Without the first of their elements they are the stretch from the next on.
LEMMA StretchesDrop ==
  ASSUME NEW V, NEW g, NEW c \in Nat, NEW m \in Nat, Numbered(g, c + m, V), c > 0
  PROVE  /\ Stretch(g, 0, c) # <<>> /\ Head(Stretch(g, 0, c)) = g[0]
         /\ Tail(Stretch(g, 0, c)) \o Stretch(g, c, m) = Stretch(g, 1, (c + m) - 1)
<1> DEFINE s == Stretch(g, 0, c)
           t == Stretch(g, c, m)
           w == Stretch(g, 1, (c + m) - 1)
<1> \A i \in 0 .. ((c + m) - 1) : g[i] \in V
  BY DEF Numbered
<1>1. s \in Seq(V) /\ Len(s) = c /\ \A k \in 1 .. c : s[k] = g[k - 1]
  BY DEF Stretch
<1>2. t \in Seq(V) /\ Len(t) = m /\ \A k \in 1 .. m : t[k] = g[c + (k - 1)]
  BY DEF Stretch
<1>3. w \in Seq(V) /\ Len(w) = (c + m) - 1 /\ \A k \in 1 .. ((c + m) - 1) : w[k] = g[k]
  BY DEF Stretch
<1> HIDE DEF s, t, w
<1>4. s # <<>> /\ Head(s) = g[0] /\ Tail(s) \o t = w
  <2>1. s # <<>> /\ Head(s) = s[1] /\ s[1] = g[0]
    BY <1>1
  <2>2. Tail(s) \in Seq(V) /\ Len(Tail(s)) = c - 1 /\ \A k \in 1 .. (c - 1) : Tail(s)[k] = g[k]
    <3>1. /\ Tail(s) \in Seq(V) /\ Len(Tail(s)) = c - 1
          /\ \A k \in 1 .. (c - 1) : Tail(s)[k] = s[k + 1]
      BY <1>1, <2>1, HeadTailProperties
    <3>2. \A k \in 1 .. (c - 1) : k + 1 \in 1 .. c /\ (k + 1) - 1 = k
      OBVIOUS
    <3> QED
      BY <1>1, <3>1, <3>2
  <2>3. /\ Tail(s) \o t \in Seq(V) /\ Len(Tail(s) \o t) = (c - 1) + m
        /\ \A k \in 1 .. ((c - 1) + m) :
             (Tail(s) \o t)[k] = IF k <= c - 1 THEN Tail(s)[k] ELSE t[k - (c - 1)]
    <3> DEFINE v == Tail(s)
    <3>1. v \in Seq(V) /\ Len(v) = c - 1
      BY <2>2
    <3> HIDE DEF v
    <3>2. /\ v \o t \in Seq(V) /\ Len(v \o t) = (c - 1) + m
          /\ \A k \in 1 .. ((c - 1) + m) : (v \o t)[k] = IF k <= c - 1 THEN v[k] ELSE t[k - (c - 1)]
      <4>1. /\ v \o t \in Seq(V) /\ Len(v \o t) = Len(v) + Len(t)
            /\ \A k \in 1 .. (Len(v) + Len(t)) :
                 (v \o t)[k] = IF k <= Len(v) THEN v[k] ELSE t[k - Len(v)]
        BY <1>2, <3>1, ConcatProperties
      <4> QED
        BY <1>2, <3>1, <4>1, Zenon
    <3> QED
      BY <3>2, Zenon DEF v
  <2>4. \A k \in 1 .. ((c + m) - 1) : (Tail(s) \o t)[k] = w[k]
    <3> TAKE k \in 1 .. ((c + m) - 1)
    <3>1. k \in 1 .. ((c - 1) + m) /\ w[k] = g[k]
      BY <1>3
    <3>2. CASE k <= c - 1
      BY <2>2, <2>3, <3>1, <3>2
    <3>3. CASE ~(k <= c - 1)
      <4>1. k - (c - 1) \in 1 .. m /\ c + ((k - (c - 1)) - 1) = k
        BY <3>3
      <4> QED
        BY <1>2, <2>3, <3>1, <3>3, <4>1
    <3> QED
      BY <3>2, <3>3
  <2>5. (c - 1) + m = (c + m) - 1
    OBVIOUS
  <2> QED
    BY <1>3, <2>1, <2>3, <2>4, <2>5, SeqEqual
<1> QED
  BY <1>4, Zenon DEF s, t, w

\* What a cycle does to the queue, seen as a buffer: the retiring stores join
\* it, and the one the cache accepts leaves it for memory.
LEMMA CycleDrains ==
  ASSUME SInv, SInv', NEW p \in Ports, NEW x \in Executable, StqStep(x, p.st),
         memory' = next_memory(p)
  PROVE  Buffer!BNext
<1> DEFINE c == RetiredCount
           m == RetiringCount
           out == Leaving(p)
<1>1. BufferShape /\ BufferShape'
  BY BufferIs, BufferAfter
<1>2. /\ c \in Nat /\ m \in Nat /\ out \in {0, 1} /\ out <= c
      /\ STQ_DEPTH \in Nat /\ c + m <= STQ_DEPTH
  <2>1. c \in Nat /\ m \in Nat /\ c + m <= StoreCount /\ StoreCount <= STQ_DEPTH /\ StoreCount \in Nat
    BY <1>1, PointerTypes DEF BufferShape, SInv
  <2> QED
    BY <2>1, Sizes, TakenIsHead
<1>3. RetiredCount' = (c + m) - out
  BY StorePointersMove
<1>4. \A k \in 1 .. RetiredCount' : StoreOf'[0 + (k - 1)] = StoreOf[out + (k - 1)]
  <2> TAKE k \in 1 .. RetiredCount'
  <2>1. /\ k - 1 \in 0 .. (STQ_DEPTH - 1) /\ (k - 1) + out < c + m
        /\ 0 + (k - 1) = k - 1 /\ out + (k - 1) = (k - 1) + out
    BY <1>2, <1>3
  <2> QED
    BY <2>1, StoreOfAfter
<1>5. BufferedStores' = Stretch(StoreOf, out, (c + m) - out)
  <2>1. BufferedStores' = [k \in 1 .. RetiredCount' |-> StoreOf'[0 + (k - 1)]]
    BY <1>1 DEF BufferShape, Stretch
  <2> QED
    BY <1>3, <1>4, <2>1, Zenon DEF Stretch
<1>6. Numbered(StoreOf, c + m, Stores)
  <2> SUFFICES \A i \in 0 .. ((c + m) - 1) : StoreOf[i] \in Stores
    BY Zenon DEF Numbered
  <2> TAKE i \in 0 .. ((c + m) - 1)
  <2>1. i \in 0 .. (STQ_DEPTH - 1) /\ i < StoreCount
    BY <1>1, <1>2, PointerTypes DEF BufferShape, SInv
  <2> QED
    BY <1>1, <2>1 DEF BufferShape
<1>7. BufferedStores = Stretch(StoreOf, 0, c) /\ RetiringInOrder = Stretch(StoreOf, c, m)
  BY <1>1 DEF BufferShape
<1> HIDE DEF c, m, out
<1>8. /\ BufferedStores \o RetiringInOrder = Stretch(StoreOf, 0, c + m)
      /\ c > 0 => /\ BufferedStores # <<>> /\ Head(BufferedStores) = StoreOf[0]
                  /\ Tail(BufferedStores) \o RetiringInOrder = Stretch(StoreOf, 1, (c + m) - 1)
  <2> DEFINE g == StoreOf
             s == Stretch(g, 0, c)
             t == Stretch(g, c, m)
  <2>1. c \in Nat /\ m \in Nat /\ Numbered(g, c + m, Stores)
    BY <1>2, <1>6
  <2>2. BufferedStores = s /\ RetiringInOrder = t
    BY <1>7
  <2> HIDE DEF g
  <2>3. s \o t = Stretch(g, 0, c + m)
    BY <2>1, StretchesJoin, Zenon
  <2>4. ASSUME c > 0
        PROVE  s # <<>> /\ Head(s) = g[0] /\ Tail(s) \o t = Stretch(g, 1, (c + m) - 1)
    BY <2>1, <2>4, StretchesDrop, Zenon
  <2> HIDE DEF s, t
  <2> QED
    BY <2>2, <2>3, <2>4, Zenon DEF g
<1>9. /\ Len(BufferedStores') <= STQ_DEPTH
      /\ Len(RetiringInOrder') <= MACHINE_WIDTH
      /\ \A k \in 1 .. Len(RetiringInOrder') : RetiringInOrder'[k] \in Stores
  <2> DEFINE C == RetiredCount'
             M == RetiringCount'
             N == StoreCount'
             G == StoreOf'
  <2>1. /\ BufferedStores' = Stretch(G, 0, C)
        /\ RetiringInOrder' = Stretch(G, C, M)
        /\ C \in Nat /\ M \in 0 .. MACHINE_WIDTH /\ C + M <= N /\ N <= STQ_DEPTH
        /\ \A n \in 0 .. (STQ_DEPTH - 1) : n < N => G[n] \in Stores
    BY <1>1 DEF BufferShape
  <2>2. N \in Int /\ STQ_DEPTH \in Nat /\ MACHINE_WIDTH \in Nat
    BY <1>1, Sizes DEF BufferShape
  <2> HIDE DEF C, M, N, G
  <2>3. \A i \in 0 .. ((C + M) - 1) : i \in 0 .. (STQ_DEPTH - 1) /\ i < N
    BY <2>1, <2>2
  <2>4. M \in Nat /\ M <= MACHINE_WIDTH /\ C <= STQ_DEPTH
    BY <2>1, <2>2
  <2>5. /\ \A k \in 1 .. C : G[0 + (k - 1)] \in Stores
        /\ \A k \in 1 .. M : G[C + (k - 1)] \in Stores
    BY <2>1, <2>3, <2>4
  <2>6. Len(Stretch(G, 0, C)) = C
    BY <2>1, <2>4 DEF Stretch
  <2>7. Stretch(G, C, M) \in Seq(Stores) /\ Len(Stretch(G, C, M)) = M
    BY <2>1, <2>4, <2>5 DEF Stretch
  <2>8. Len(BufferedStores') = C /\ RetiringInOrder' \in Seq(Stores) /\ Len(RetiringInOrder') = M
    BY <2>1, <2>6, <2>7
  <2> QED
    BY <2>4, <2>8
<1>10. p.st \in BOOLEAN
  BY TakenIsHead
<1>11. CASE p.st
  <2>1. out = 1 /\ c > 0 /\ fire_st = st_head.ptr
    BY <1>11, TakenIsHead DEF out, c, Leaving
  <2>2. BufferedStores' = Tail(BufferedStores) \o RetiringInOrder
    BY <1>5, <1>8, <2>1
  <2>3. StoreOf[0] = stq_entry[fire_st].st
    <3>1. /\ STQ_DEPTH \in Nat \ {0} /\ 0 \in 0 .. (STQ_DEPTH - 1)
          /\ st_head.ptr \in 0 .. (STQ_DEPTH - 1)
      BY Sizes, PointerTypes DEF SInv
    <3>2. SlotAt(st_head.ptr, 0, STQ_DEPTH) = st_head.ptr
      BY <3>1, SlotIs
    <3> QED
      BY <2>1, <3>1, <3>2 DEF StoreOf
  <2>4. memory' = Buffer!Written(memory, Head(BufferedStores))
    <3> DEFINE st == stq_entry[fire_st].st
    <3>1. /\ memory' \in [Addr -> [Byte -> Val]]
          /\ \A a \in Addr, b \in Byte :
               memory'[a][b] = IF st.addr = a /\ b \in st.bytes THEN st.val ELSE memory[a][b]
      BY <1>11, MemoryAfter
    <3>2. Head(BufferedStores) = st
      BY <1>8, <2>1, <2>3
    <3> HIDE DEF st
    <3>3. memory' = [a \in Addr |-> [b \in Byte |->
                       IF a = st.addr /\ b \in st.bytes THEN st.val ELSE memory[a][b]]]
      BY <3>1
    <3> QED
      BY <3>2, <3>3 DEF Buffer!Written
  <2>5. BufferedStores # <<>>
    BY <1>8, <2>1
  <2> QED
    BY <1>9, <2>2, <2>4, <2>5 DEF Buffer!BNext, Buffer!Drain, Buffer!Retire
<1>12. CASE ~p.st
  <2>1. out = 0 /\ memory' = memory
    BY <1>12, MemoryAfter DEF out, Leaving
  <2>2. BufferedStores' = BufferedStores \o RetiringInOrder
    <3>1. (c + m) - out = c + m
      BY <1>2, <2>1
    <3> QED
      BY <1>5, <1>8, <2>1, <3>1
  <2> QED
    BY <1>9, <2>1, <2>2 DEF Buffer!BNext, Buffer!Wait, Buffer!Retire
<1> QED
  BY <1>10, <1>11, <1>12

\* Every step is a step of the buffer, or leaves it alone.
LEMMA StepDrains ==
  ASSUME SInv, SInv', [Next]_vars
  PROVE  [Buffer!BNext]_Buffer!bvars
<1>1. ASSUME NEW p \in Ports, FlushCycle(p) PROVE Buffer!BNext
  <2>1. NoExec \in Executable /\ StqStep(NoExec, p.st) /\ memory' = next_memory(p)
    BY <1>1 DEF FlushCycle, Executable
  <2> QED
    BY <2>1, CycleDrains
<1>2. ASSUME NEW p \in Ports, NEW x \in Executable, NEW r \in Answers, Cycle(x, p, r)
      PROVE  Buffer!BNext
  <2>1. StqStep(x, p.st) /\ memory' = next_memory(p)
    BY <1>2 DEF Cycle
  <2> QED
    BY <2>1, CycleDrains
<1>3. CASE UNCHANGED vars
  <2>1. UNCHANGED <<stq_entry, st_head, st_retired, pipe_retire_pkt, memory>>
    BY <1>3 DEF vars, stq_vars, env_vars
  <2> QED
    BY <2>1 DEF Buffer!bvars, BufferedStores, RetiringInOrder
<1> QED
  BY <1>1, <1>2, <1>3 DEF Next, Step

\* Seen from memory, the store queue is a buffer which retired stores enter in
\* program order and leave for memory in that order, for every depth and width,
\* whatever executes, is refused or is flushed.
THEOREM StoresRefineBuffer == Spec => ImplementsStoreBuffer
<1>1. Init => Buffer!BInit
  <2> SUFFICES ASSUME Init PROVE Buffer!BInit
    OBVIOUS
  <2>1. st_head = st_retired /\ st_head.ptr = 0 /\ pipe_retire_pkt = <<>>
    BY DEF Init, Zero
  <2>2. BufferedStores = <<>>
    BY <2>1 DEF BufferedStores
  <2>3. RetiringInOrder = <<>>
    <3> DEFINE K == {k \in DOMAIN pipe_retire_pkt : pipe_retire_pkt[k].kind = "st"}
    <3>1. K = {}
      BY <2>1
    <3>2. Cardinality(K) = 0
      BY <3>1, FS_EmptySet
    <3> DEFINE e(n) == stq_entry[pipe_retire_pkt[StPlace(pipe_retire_pkt, n)].tag].st
    <3>3. RetiringInOrder = [n \in 1 .. Cardinality(K) |-> e(n)]
      BY Zenon DEF RetiringInOrder, StPlaces, StPlace
    <3> HIDE DEF K, e
    <3> QED
      BY <3>2, <3>3
  <2> QED
    BY <2>2, <2>3 DEF Init, Buffer!BInit
<1>2. RInv => SInv
  BY DEF RInv
<1> QED
  BY <1>1, <1>2, QueueInvariant, StepDrains, PTL
     DEF Spec, ImplementsStoreBuffer, Buffer!BSpec

==============================================================================
