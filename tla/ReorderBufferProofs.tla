------------------------ MODULE ReorderBufferProofs ------------------------
(***************************************************************************)
(* Proofs about the reorder buffer, for every depth, width and instruction *)
(* set.  The entries in use are described by their distance from the head: *)
(* retirement removes the nearest ones, dispatch adds the ones just beyond *)
(* the window, and the room granted a cycle ahead keeps the two apart.     *)
(***************************************************************************)
EXTENDS ReorderBuffer, PselGenTheorems

\* Equal position bits: the window does not wrap; different ones: it does.
PointerOrder ==
  IF head_position_bit = tail_position_bit THEN head_ptr <= tail_ptr
                                           ELSE tail_ptr <= head_ptr

\* A group is only in the rename/dispatch register when a whole group fits.
RoomForGroup ==
  pipe_rename_pkt # NoGroup => Occupancy + MACHINE_WIDTH <= ROB_DEPTH

IInv == TypeOK /\ PointerOrder /\ ValidExactlyWindow /\ RoomForGroup

---------------------------------------------------------------------------
(* Pointers *)

\* Advancing a pointer by at most a group stays in range, and Overflow holds
\* exactly when it wraps.
LEMMA Advancing ==
  ASSUME NEW ptr \in Slot, NEW n \in 0 .. MACHINE_WIDTH
  PROVE  /\ Wrap(ptr + n) \in Slot
         /\ Overflow(ptr, Wrap(ptr + n)) <=> ptr + n >= ROB_DEPTH
BY DepthAssumption DEF Slot, Wrap, Overflow

\* A slot is in the window when its distance from the head is below the
\* occupancy.
LEMMA WindowByAge ==
  ASSUME TypeOK, PointerOrder
  PROVE  /\ Occupancy \in 0 .. ROB_DEPTH
         /\ \A i \in Slot : Age(i) \in Slot /\ (InWindow(i) <=> Age(i) < Occupancy)
<1>1. /\ head_ptr \in Slot /\ tail_ptr \in Slot
      /\ head_position_bit \in {0, 1} /\ tail_position_bit \in {0, 1}
  BY DEF TypeOK
<1>2. Occupancy \in 0 .. ROB_DEPTH
  BY <1>1, DepthAssumption DEF PointerOrder, Occupancy, Slot
<1>3. ASSUME NEW i \in Slot
      PROVE  Age(i) \in Slot /\ (InWindow(i) <=> Age(i) < Occupancy)
  BY <1>1, DepthAssumption DEF PointerOrder, Occupancy, Slot, InWindow, Age, Wrap
<1> QED
  BY <1>2, <1>3

---------------------------------------------------------------------------
(* Retirement *)

\* The retiring lanes are the first retire_en_cnt ones and stay in the window.
LEMMA RetiringLanes ==
  ASSUME TypeOK, PointerOrder, ValidExactlyWindow
  PROVE  /\ retire_en_cnt \in 0 .. MACHINE_WIDTH
         /\ retire_en_cnt <= Occupancy
         /\ \A k \in Lane : retire_en(k) <=> k < retire_en_cnt
<1> DEFINE S == {k \in Lane : retire_en(k)}
<1>1. S \in SUBSET (0 .. (MACHINE_WIDTH - 1))
  BY DEF Lane
<1>2. \A i \in S : \A j \in 0 .. i : j \in S
  <2> SUFFICES ASSUME NEW i \in S, NEW j \in 0 .. i PROVE retire_en(j) /\ j \in Lane
    OBVIOUS
  <2>1. i \in Lane /\ retire_en(i)
    OBVIOUS
  <2>2. j \in Lane
    BY <2>1, DepthAssumption DEF Lane
  <2>3. \A m \in 0 .. j : m \in 0 .. i /\ (m < j => m < i)
    BY <2>1, DepthAssumption DEF Lane
  <2> QED
    BY <2>1, <2>2, <2>3 DEF retire_en
<1>3. /\ Cardinality(S) \in 0 .. MACHINE_WIDTH
      /\ S = 0 .. (Cardinality(S) - 1)
  <2> HIDE DEF S
  <2> QED
    BY <1>1, <1>2, PrefixIsInterval, DepthAssumption
<1>4. retire_en_cnt = Cardinality(S) /\ \A k \in Lane : retire_en(k) <=> k \in S
  BY DEF retire_en_cnt
<1> HIDE DEF S
<1>5. retire_en_cnt <= Occupancy
  <2>1. CASE retire_en_cnt = 0
    BY <2>1, WindowByAge
  <2>2. CASE retire_en_cnt > 0
    <3> DEFINE k == retire_en_cnt - 1
    <3>1. k \in S /\ k \in Lane
      BY <1>3, <1>4, <2>2, <1>1 DEF Lane
    <3>2. HeadEntry(k).valid
      BY <3>1, <1>4, DepthAssumption DEF retire_en, Lane
    <3>3. head_ptr \in Slot /\ Wrap(head_ptr + k) \in Slot /\ Age(Wrap(head_ptr + k)) = k
      BY <3>1, DepthAssumption DEF TypeOK, Slot, Lane, Wrap, Age
    <3>4. k < Occupancy
      BY <3>2, <3>3, WindowByAge DEF ValidExactlyWindow, HeadEntry
    <3> QED
      BY <3>4, <3>1, <1>3, <1>4, WindowByAge, DepthAssumption DEF Lane
  <2> QED
    BY <2>1, <2>2, <1>3, <1>4
<1>6. \A k \in Lane : k \in S <=> k < retire_en_cnt
  BY <1>3, <1>4, DepthAssumption DEF Lane
<1> QED
  BY <1>3, <1>4, <1>5, <1>6

\* The slots freed are those nearest to the head.
LEMMA RetiringSlots ==
  ASSUME TypeOK, PointerOrder, ValidExactlyWindow, NEW i \in Slot
  PROVE  i \in RetireSlot <=> Age(i) < retire_en_cnt
<1>1. head_ptr \in Slot
  BY DEF TypeOK
<1>2. ASSUME i \in RetireSlot PROVE Age(i) < retire_en_cnt
  <2>1. PICK k \in Lane : retire_en(k) /\ i = Wrap(head_ptr + k)
    BY <1>2 DEF RetireSlot
  <2>2. Age(i) = k
    BY <1>1, <2>1, DepthAssumption DEF Slot, Lane, Wrap, Age
  <2> QED
    BY <2>1, <2>2, RetiringLanes
<1>3. ASSUME Age(i) < retire_en_cnt PROVE i \in RetireSlot
  <2>1. Age(i) \in Lane /\ i = Wrap(head_ptr + Age(i))
    BY <1>1, <1>3, RetiringLanes, DepthAssumption DEF Slot, Lane, Wrap, Age
  <2> QED
    BY <1>3, <2>1, RetiringLanes DEF RetireSlot
<1> QED
  BY <1>2, <1>3

---------------------------------------------------------------------------
(* Dispatch *)

\* The valid lanes are an interval from FirstLane on.
LEMMA DispatchingLanes ==
  ASSUME TypeOK
  PROVE  /\ dispatch_pkt_cnt \in 0 .. MACHINE_WIDTH
         /\ dispatch_pkt_cnt > 0 <=> pipe_rename_pkt # NoGroup
         /\ dispatch_pkt_cnt > 0 =>
              /\ FirstLane \in ValidLane
              /\ ValidLane = FirstLane .. (FirstLane + dispatch_pkt_cnt - 1)
         /\ dispatch_pkt_cnt = 0 => ValidLane = {}
<1>1. pipe_rename_pkt \in [Lane -> Inst \cup {NoInst}] /\ Contiguous(pipe_rename_pkt)
  BY DEF TypeOK, RenameGroup
<1>2. ValidLane \in SUBSET (0 .. (MACHINE_WIDTH - 1)) /\ ValidLane \in SUBSET Nat
  BY DepthAssumption DEF ValidLane, Lane
<1>3. \A a, c \in ValidLane : \A b \in 0 .. (MACHINE_WIDTH - 1) :
        a <= b /\ b <= c => b \in ValidLane
  BY <1>1 DEF Contiguous, ValidLane, Lane
<1>4. ValidLane = {} <=> pipe_rename_pkt = NoGroup
  <2>1. ASSUME ValidLane = {} PROVE pipe_rename_pkt = NoGroup
    <3>1. \A l \in Lane : pipe_rename_pkt[l] = NoInst
      BY <2>1 DEF ValidLane
    <3> QED
      BY <1>1, <3>1 DEF NoGroup
  <2>2. ASSUME pipe_rename_pkt = NoGroup PROVE ValidLane = {}
    BY <2>2 DEF ValidLane, NoGroup
  <2> QED
    BY <2>1, <2>2
<1>5. CASE ValidLane = {}
  <2>1. dispatch_pkt_cnt = 0
    BY <1>5, FS_EmptySet DEF dispatch_pkt_cnt
  <2> QED
    BY <1>4, <1>5, <2>1, DepthAssumption
<1>6. CASE ValidLane # {}
  <2>1. FirstLane \in ValidLane /\ \A m \in ValidLane : FirstLane <= m
    BY <1>2, <1>6, LeastElement DEF FirstLane
  <2>2. FirstLane \in Nat /\ MACHINE_WIDTH \in Nat
    BY <1>2, <2>1, DepthAssumption
  <2>3. /\ dispatch_pkt_cnt \in 1 .. (MACHINE_WIDTH - FirstLane)
        /\ ValidLane = FirstLane .. (FirstLane + dispatch_pkt_cnt - 1)
    <3> HIDE DEF ValidLane, FirstLane
    <3> QED
      BY <1>2, <1>3, <1>6, <2>1, <2>2, ContiguousIsInterval DEF dispatch_pkt_cnt
  <2> QED
    BY <1>4, <1>6, <2>1, <2>2, <2>3
<1> QED
  BY <1>5, <1>6

\* Distance of an entry from the tail.
AgeFromTail(i) == Wrap(i + ROB_DEPTH - tail_ptr)

\* The slots written are the dispatch_pkt_cnt ones from the tail on.
LEMMA DispatchedSlots ==
  ASSUME TypeOK, NEW i \in Slot
  PROVE  AllocLane(i) # {} <=> AgeFromTail(i) < dispatch_pkt_cnt
<1>1. tail_ptr \in Slot
  BY DEF TypeOK
<1>2. \A l : dispatch_pkt_resp(l).ptr = Wrap(tail_ptr + (l - FirstLane))
  BY DEF dispatch_pkt_resp
<1>3. ASSUME NEW l \in AllocLane(i) PROVE AgeFromTail(i) < dispatch_pkt_cnt
  <2>1. l \in ValidLane /\ Wrap(tail_ptr + (l - FirstLane)) = i
    BY <1>2 DEF AllocLane
  <2>2. dispatch_pkt_cnt > 0 /\ dispatch_pkt_cnt \in 0 .. MACHINE_WIDTH
    BY <2>1, DispatchingLanes
  <2>3. l - FirstLane \in 0 .. (dispatch_pkt_cnt - 1)
    <3>1. FirstLane \in Nat
      BY <2>2, DispatchingLanes, DepthAssumption DEF ValidLane, Lane
    <3> QED
      BY <2>1, <2>2, <3>1, DispatchingLanes
  <2>4. \A d \in 0 .. (MACHINE_WIDTH - 1) : Wrap(tail_ptr + d) = i => AgeFromTail(i) = d
    BY <1>1, DepthAssumption DEF Slot, Wrap, AgeFromTail
  <2> QED
    BY <2>1, <2>2, <2>3, <2>4, DepthAssumption
<1>4. ASSUME AgeFromTail(i) < dispatch_pkt_cnt PROVE AllocLane(i) # {}
  <2>1. AgeFromTail(i) \in Slot /\ i = Wrap(tail_ptr + AgeFromTail(i))
    BY <1>1, DepthAssumption DEF Slot, Wrap, AgeFromTail
  <2>2. dispatch_pkt_cnt > 0 /\ dispatch_pkt_cnt \in 0 .. MACHINE_WIDTH
    BY <1>4, <2>1, DispatchingLanes, DepthAssumption DEF Slot
  <2>3. FirstLane \in Nat
    BY <2>2, DispatchingLanes, DepthAssumption DEF ValidLane, Lane
  <2> DEFINE l == FirstLane + AgeFromTail(i)
  <2>4. l \in ValidLane /\ l - FirstLane = AgeFromTail(i)
    BY <1>4, <2>1, <2>2, <2>3, DispatchingLanes, DepthAssumption DEF Slot
  <2>5. l \in AllocLane(i)
    BY <1>2, <2>1, <2>4 DEF AllocLane
  <2> QED
    BY <2>5
<1> QED
  BY <1>3, <1>4

---------------------------------------------------------------------------
(* The window after a cycle *)

\* The pointers registered at the next edge describe the window that keeps what
\* does not retire and gains what is dispatched.
LEMMA NextPointers ==
  ASSUME IInv
  PROVE  /\ next_head_ptr \in Slot /\ next_tail_ptr \in Slot
         /\ next_head_position_bit \in {0, 1} /\ next_tail_position_bit \in {0, 1}
         /\ next_head_ptr = Wrap(head_ptr + retire_en_cnt)
         /\ next_tail_ptr = Wrap(tail_ptr + dispatch_pkt_cnt)
         /\ next_head_position_bit = IF head_ptr + retire_en_cnt >= ROB_DEPTH
                                       THEN 1 - head_position_bit ELSE head_position_bit
         /\ next_tail_position_bit = IF tail_ptr + dispatch_pkt_cnt >= ROB_DEPTH
                                       THEN 1 - tail_position_bit ELSE tail_position_bit
<1>1. /\ head_ptr \in Slot /\ tail_ptr \in Slot
      /\ head_position_bit \in {0, 1} /\ tail_position_bit \in {0, 1}
  BY DEF IInv, TypeOK
<1>2. retire_en_cnt \in 0 .. MACHINE_WIDTH
  BY RetiringLanes DEF IInv
<1>3. dispatch_pkt_cnt \in 0 .. MACHINE_WIDTH
  BY DispatchingLanes DEF IInv
<1>4. /\ next_head_ptr \in Slot
      /\ Overflow(head_ptr, next_head_ptr) <=> head_ptr + retire_en_cnt >= ROB_DEPTH
  BY <1>1, <1>2, Advancing DEF next_head_ptr
<1>5. /\ next_tail_ptr \in Slot
      /\ Overflow(tail_ptr, next_tail_ptr) <=> tail_ptr + dispatch_pkt_cnt >= ROB_DEPTH
  BY <1>1, <1>3, Advancing DEF next_tail_ptr
<1>6. next_head_position_bit = IF head_ptr + retire_en_cnt >= ROB_DEPTH
                                 THEN 1 - head_position_bit ELSE head_position_bit
  BY <1>4 DEF next_head_position_bit, NextPositionBit
<1>7. next_tail_position_bit = IF tail_ptr + dispatch_pkt_cnt >= ROB_DEPTH
                                 THEN 1 - tail_position_bit ELSE tail_position_bit
  BY <1>5 DEF next_tail_position_bit, NextPositionBit
<1> QED
  BY <1>1, <1>4, <1>5, <1>6, <1>7 DEF next_head_ptr, next_tail_ptr

\* What stays, what comes and the room between them.
LEMMA CountsFit ==
  ASSUME IInv
  PROVE  /\ retire_en_cnt \in 0 .. MACHINE_WIDTH
         /\ dispatch_pkt_cnt \in 0 .. MACHINE_WIDTH
         /\ Occupancy \in 0 .. ROB_DEPTH
         /\ retire_en_cnt <= Occupancy
         /\ Occupancy + dispatch_pkt_cnt <= ROB_DEPTH
<1>1. /\ retire_en_cnt \in 0 .. MACHINE_WIDTH
      /\ retire_en_cnt <= Occupancy
  BY RetiringLanes DEF IInv
<1>2. Occupancy \in 0 .. ROB_DEPTH
  BY WindowByAge DEF IInv
<1>3. /\ dispatch_pkt_cnt \in 0 .. MACHINE_WIDTH
      /\ dispatch_pkt_cnt > 0 => Occupancy + MACHINE_WIDTH <= ROB_DEPTH
  BY DispatchingLanes DEF IInv, RoomForGroup
<1> QED
  BY <1>1, <1>2, <1>3, DepthAssumption

\* A cycle keeps the pointers in order and the valid entries between them.
LEMMA CycleKeepsWindow ==
  ASSUME IInv, NEW w, Cycle(w)
  PROVE  PointerOrder' /\ ValidExactlyWindow'
<1> DEFINE D == ROB_DEPTH
           h == head_ptr
           t == tail_ptr
           n == retire_en_cnt
           m == dispatch_pkt_cnt
<1>1. /\ D \in Nat /\ h \in 0 .. (D - 1) /\ t \in 0 .. (D - 1)
      /\ head_position_bit \in {0, 1} /\ tail_position_bit \in {0, 1}
  BY DepthAssumption DEF IInv, TypeOK, Slot
<1>2. /\ n \in 0 .. D /\ m \in 0 .. D /\ Occupancy \in 0 .. D
      /\ n <= Occupancy /\ Occupancy + m <= D
  BY CountsFit, DepthAssumption
<1>3. Occupancy = IF head_position_bit = tail_position_bit THEN t - h ELSE t - h + D
  BY DEF Occupancy
<1>4. /\ head_ptr' = IF h + n >= D THEN h + n - D ELSE h + n
      /\ tail_ptr' = IF t + m >= D THEN t + m - D ELSE t + m
      /\ head_position_bit' = IF h + n >= D THEN 1 - head_position_bit
                                            ELSE head_position_bit
      /\ tail_position_bit' = IF t + m >= D THEN 1 - tail_position_bit
                                            ELSE tail_position_bit
  <2>1. /\ head_ptr' = next_head_ptr /\ tail_ptr' = next_tail_ptr
        /\ head_position_bit' = next_head_position_bit
        /\ tail_position_bit' = next_tail_position_bit
    BY DEF Cycle
  <2>2. Wrap(h + n) = IF h + n >= D THEN h + n - D ELSE h + n
    BY <1>1, <1>2 DEF Wrap
  <2>3. Wrap(t + m) = IF t + m >= D THEN t + m - D ELSE t + m
    BY <1>1, <1>2 DEF Wrap
  <2> QED
    BY <2>1, <2>2, <2>3, NextPointers
<1>5. PointerOrder'
  <2> HIDE DEF n, m
  <2> QED
    BY <1>1, <1>2, <1>3, <1>4 DEF PointerOrder, IInv
<1>6. ASSUME NEW i \in Slot PROVE rob_entry'[i].valid <=> InWindow(i)'
  <2>1. rob_entry'[i] = NextEntry(i, w)
    BY <1>6 DEF Cycle
  <2>2. rob_entry[i] \in RobEntry
    BY <1>6 DEF IInv, TypeOK
  <2>3. NextEntry(i, w).valid <=>
          AllocLane(i) # {} \/ (i \notin RetireSlot /\ rob_entry[i].valid)
    BY <2>2 DEF NextEntry, dispatch_2_rob, EmptyEntry, RobEntry
  <2>4. AllocLane(i) # {} <=> AgeFromTail(i) < m
    BY DispatchedSlots DEF IInv
  <2>5. i \in RetireSlot <=> Age(i) < n
    BY RetiringSlots DEF IInv
  <2>6. rob_entry[i].valid <=> Age(i) < Occupancy
    BY WindowByAge DEF IInv, ValidExactlyWindow
  <2>7. rob_entry'[i].valid <=>
          AgeFromTail(i) < m \/ (Age(i) >= n /\ Age(i) < Occupancy)
    <3>1. Age(i) \in Int /\ n \in Int
      BY <1>1, <1>2, <1>6 DEF Age, Wrap, Slot
    <3> HIDE DEF n, m
    <3> QED
      BY <2>1, <2>3, <2>4, <2>5, <2>6, <3>1
  <2>8. /\ Age(i) = IF i + D - h >= D THEN i - h ELSE i + D - h
        /\ AgeFromTail(i) = IF i + D - t >= D THEN i - t ELSE i + D - t
    BY <1>1, <1>6 DEF Age, AgeFromTail, Wrap, Slot
  <2>9. InWindow(i)' <=> IF head_position_bit' = tail_position_bit'
                           THEN head_ptr' <= i /\ i < tail_ptr'
                           ELSE head_ptr' <= i \/ i < tail_ptr'
    BY DEF InWindow
  <2> HIDE DEF n, m
  <2> QED
    BY <1>1, <1>2, <1>3, <1>4, <1>6, <2>7, <2>8, <2>9 DEF Slot
<1> QED
  BY <1>5, <1>6 DEF ValidExactlyWindow

---------------------------------------------------------------------------
(* Types *)

\* What the type of an entry says of its fields.
LEMMA EntryFields ==
  ASSUME NEW e \in RobEntry
  PROVE  /\ e.pos \in {0, 1}
         /\ e.inst \in Inst \cup {NoInst}
         /\ e.branch_misp \in BOOLEAN
         /\ e.valid => /\ e.inst \in Inst
                       /\ e \in [valid : {TRUE}, inst : Inst, complete : BOOLEAN,
                                 branch_misp : BOOLEAN, pos : {0, 1}]
<1>1. CASE e = EmptyEntry
  BY <1>1 DEF EmptyEntry
<1>2. CASE e \in [valid : {TRUE}, inst : Inst, complete : BOOLEAN,
                  branch_misp : BOOLEAN, pos : {0, 1}]
  BY <1>2
<1> QED
  BY <1>1, <1>2 DEF RobEntry

\* Noting a result in a valid entry gives an entry.
LEMMA EntryUpdate ==
  ASSUME NEW e \in RobEntry, e.valid, NEW c \in BOOLEAN, NEW b \in BOOLEAN
  PROVE  [e EXCEPT !.complete = c, !.branch_misp = b] \in RobEntry
<1> DEFINE E == [valid : {TRUE}, inst : Inst, complete : BOOLEAN,
                 branch_misp : BOOLEAN, pos : {0, 1}]
           d == [e EXCEPT !.complete = c]
<1>1. e \in E
  BY EntryFields
<1>2. d \in E
  BY <1>1
<1>3. [d EXCEPT !.branch_misp = b] \in E
  <2> HIDE DEF d
  <2> QED
    BY <1>2
<1> QED
  BY <1>3 DEF RobEntry

\* What retires, and what dispatch writes, has the type of the registers.
LEMMA CycleKeepsTypes ==
  ASSUME IInv, NEW w \in Writeback, Cycle(w)
  PROVE  TypeOK'
<1>1. TypeOK
  BY DEF IInv
<1>2. /\ head_ptr' \in Slot /\ tail_ptr' \in Slot
      /\ head_position_bit' \in {0, 1} /\ tail_position_bit' \in {0, 1}
  BY NextPointers DEF Cycle
<1>3. rob_entry' \in [Slot -> RobEntry]
  <2> SUFFICES ASSUME NEW i \in Slot PROVE NextEntry(i, w) \in RobEntry
    BY DEF Cycle
  <2>1. rob_entry[i] \in RobEntry /\ tail_position_bit \in {0, 1}
    BY <1>1 DEF TypeOK
  <2>2. CASE AllocLane(i) # {}
    <3> DEFINE l == CHOOSE x \in AllocLane(i) : TRUE
    <3>1. l \in ValidLane
      BY <2>2 DEF AllocLane
    <3>2. pipe_rename_pkt[l] \in Inst
      BY <1>1, <3>1 DEF TypeOK, RenameGroup, ValidLane
    <3>3. dispatch_pkt_resp(l).pos \in {0, 1}
      BY <2>1 DEF dispatch_pkt_resp
    <3>4. dispatch_2_rob(l) \in RobEntry
      BY <3>2, <3>3 DEF dispatch_2_rob, RobEntry
    <3> QED
      BY <2>2, <3>4 DEF NextEntry
  <2>3. CASE AllocLane(i) = {} /\ i \in RetireSlot
    BY <2>3 DEF NextEntry, RobEntry
  <2>4. CASE AllocLane(i) = {} /\ i \notin RetireSlot /\ rob_entry[i].valid
               /\ ~rob_entry[i].complete
    <3> DEFINE c == i \in w.done
               b == w.misp /\ WbBranch(w, i)
    <3>1. c \in BOOLEAN /\ b \in BOOLEAN
      BY DEF WbBranch, Writeback
    <3>2. NextEntry(i, w) = [rob_entry[i] EXCEPT !.complete = c, !.branch_misp = b]
      BY <2>4 DEF NextEntry
    <3> HIDE DEF c, b
    <3>3. [rob_entry[i] EXCEPT !.complete = c, !.branch_misp = b] \in RobEntry
      BY <2>1, <2>4, <3>1, EntryUpdate
    <3> QED
      BY <3>2, <3>3
  <2>5. CASE AllocLane(i) = {} /\ i \notin RetireSlot
               /\ ~(rob_entry[i].valid /\ ~rob_entry[i].complete)
    BY <2>1, <2>5 DEF NextEntry
  <2> QED
    BY <2>2, <2>3, <2>4, <2>5
<1>4. /\ branch_misp' \in BOOLEAN /\ misp_rob' \in RobTag
      /\ redirect_pc' \in Inst \cup {NoInst}
  <2>1. RecordMisp(w)
    BY DEF Cycle
  <2>2. branch_misp \in BOOLEAN /\ misp_rob \in RobTag /\ redirect_pc \in Inst \cup {NoInst}
    BY <1>1 DEF TypeOK
  <2>3. \A i \in Slot : /\ rob_entry[i].pos \in {0, 1}
                        /\ rob_entry[i].inst \in Inst \cup {NoInst}
    BY <1>1, EntryFields DEF TypeOK
  <2>4. CASE UNCHANGED <<branch_misp, misp_rob, redirect_pc>>
    BY <2>2, <2>4
  <2>5. ASSUME NEW i \in Slot,
               branch_misp' = TRUE,
               misp_rob' = [pos |-> rob_entry[i].pos, ptr |-> i],
               redirect_pc' = rob_entry[i].inst
        PROVE  /\ branch_misp' \in BOOLEAN /\ misp_rob' \in RobTag
               /\ redirect_pc' \in Inst \cup {NoInst}
    BY <2>3, <2>5 DEF RobTag
  <2> QED
    BY <2>1, <2>4, <2>5 DEF RecordMisp
<1>5. pipe_rename_pkt' \in RenameGroup
  <2>1. NoGroup \in RenameGroup
    BY DEF NoGroup, RenameGroup, Contiguous
  <2> QED
    BY <2>1 DEF Cycle, AcceptedGroup
<1>6. pipe_retire_pkt' \in [Lane -> RetirePkt \cup {NoPkt}]
  <2> SUFFICES ASSUME NEW k \in Lane PROVE retire_pkt[k] \in RetirePkt \cup {NoPkt}
    BY DEF Cycle, retire_pkt
  <2>1. CASE retire_en(k)
    <3>1. Wrap(head_ptr + k) \in Slot
      BY <1>1, DepthAssumption DEF TypeOK, Slot, Lane, Wrap
    <3>2. HeadEntry(k).valid /\ HeadEntry(k) \in RobEntry
      BY <1>1, <2>1, <3>1, DepthAssumption DEF retire_en, Lane, TypeOK, HeadEntry
    <3>3. HeadEntry(k).inst \in Inst /\ HeadEntry(k).branch_misp \in BOOLEAN
      BY <3>2, EntryFields
    <3>4. redirect_pc \in Inst \cup {NoInst}
      BY <1>1 DEF TypeOK
    <3> QED
      BY <2>1, <3>3, <3>4 DEF retire_pkt, RetirePkt
  <2>2. CASE ~retire_en(k)
    BY <2>2 DEF retire_pkt
  <2> QED
    BY <2>1, <2>2
<1>7. sys_exception' \in BOOLEAN
  BY <1>1 DEF Cycle, TypeOK
<1> QED
  BY <1>2, <1>3, <1>4, <1>5, <1>6, <1>7 DEF TypeOK

---------------------------------------------------------------------------
(* The inductive invariant *)

\* At reset the window is empty and the pointers are equal.
LEMMA InitIInv == Init => IInv
<1> SUFFICES ASSUME Init PROVE IInv
  OBVIOUS
<1>1. 0 \in Slot
  BY DepthAssumption DEF Slot
<1>2. TypeOK
  <2>1. NoGroup \in RenameGroup
    BY DEF NoGroup, RenameGroup, Contiguous
  <2> QED
    BY <1>1, <2>1 DEF Init, TypeOK, RobEntry, RobTag
<1>3. PointerOrder /\ RoomForGroup
  BY DEF Init, PointerOrder, RoomForGroup
<1>4. ValidExactlyWindow
  BY DEF Init, ValidExactlyWindow, InWindow, EmptyEntry, Slot
<1> QED
  BY <1>2, <1>3, <1>4 DEF IInv

\* A group is accepted only when the pointers of the next cycle leave room.
LEMMA CycleKeepsRoom ==
  ASSUME IInv, NEW w, Cycle(w)
  PROVE  RoomForGroup'
<1> SUFFICES ASSUME pipe_rename_pkt' # NoGroup
             PROVE  Occupancy' + MACHINE_WIDTH <= ROB_DEPTH
  BY DEF RoomForGroup, NoGroup
<1>1. MACHINE_WIDTH - 1 \in Lane
  BY DepthAssumption DEF Lane
<1>2. FreeAfter > MACHINE_WIDTH - 1
  BY <1>1 DEF Cycle, AcceptedGroup, rename_pkt_ready, dispatch_pkt_ready
<1>3. next_head_ptr \in Slot /\ next_tail_ptr \in Slot
  BY NextPointers
<1>4. Occupancy' = IF next_head_position_bit = next_tail_position_bit
                     THEN next_tail_ptr - next_head_ptr
                     ELSE next_tail_ptr - next_head_ptr + ROB_DEPTH
  BY DEF Cycle, Occupancy
<1>5. FreeAfter = IF next_head_position_bit = next_tail_position_bit
                    THEN next_head_ptr + ROB_DEPTH - next_tail_ptr
                    ELSE next_head_ptr - next_tail_ptr
  BY DEF FreeAfter
<1> QED
  BY <1>2, <1>3, <1>4, <1>5, DepthAssumption DEF Slot

\* Each of the two steps, a cycle and a flush, keeps the invariant.
LEMMA NextIInv == IInv /\ [Next]_vars => IInv'
<1> SUFFICES ASSUME IInv, [Next]_vars PROVE IInv'
  OBVIOUS
<1>1. CASE FlushCycle
  <2>1. 0 \in Slot
    BY DepthAssumption DEF Slot
  <2>2. TypeOK'
    <3>1. NoGroup \in RenameGroup
      BY DEF NoGroup, RenameGroup, Contiguous
    <3>2. sys_exception' \in BOOLEAN
      BY <1>1 DEF FlushCycle, IInv, TypeOK, retire_exception
    <3> QED
      BY <1>1, <2>1, <3>1, <3>2 DEF FlushCycle, TypeOK, RobEntry, RobTag
  <2>3. PointerOrder' /\ RoomForGroup'
    BY <1>1 DEF FlushCycle, PointerOrder, RoomForGroup, NoGroup
  <2>4. ValidExactlyWindow'
    BY <1>1 DEF FlushCycle, ValidExactlyWindow, InWindow, EmptyEntry, Slot
  <2> QED
    BY <2>2, <2>3, <2>4 DEF IInv
<1>2. ASSUME NEW w \in Writeback, Cycle(w) PROVE IInv'
  BY <1>2, CycleKeepsTypes, CycleKeepsWindow, CycleKeepsRoom DEF IInv
<1>3. CASE UNCHANGED vars
  BY <1>3 DEF vars, IInv, TypeOK, PointerOrder, ValidExactlyWindow, InWindow,
              RoomForGroup, Occupancy
<1> QED
  BY <1>1, <1>2, <1>3 DEF Next

\* The invariant holds in every reachable state.
LEMMA Inductive == Spec => []IInv
BY InitIInv, NextIInv, PTL DEF Spec

\* Every register of the reorder buffer and of the pipeline stages around it
\* keeps its type; in particular, an entry marked valid holds an instruction.
THEOREM TypeCorrect == Spec => []TypeOK
<1>1. IInv => TypeOK
  BY DEF IInv
<1> QED
  BY <1>1, Inductive, PTL

\* For every depth and width with ROB_DEPTH >= 2 * MACHINE_WIDTH, the valid
\* entries are exactly those between the pointers: the ready signal, given a
\* cycle before the group is written, never admits a group onto live entries.
THEOREM WindowCorrect == Spec => []ValidExactlyWindow
<1>1. IInv => ValidExactlyWindow
  BY DEF IInv
<1> QED
  BY <1>1, Inductive, PTL

---------------------------------------------------------------------------
(* Tags *)

\* The position bit an entry carries is that of the head for the slots from the
\* head up, and the opposite one for those behind the wrap.
TagsFollowHead ==
  \A i \in Slot : rob_entry[i].valid =>
    rob_entry[i].pos = IF i >= head_ptr THEN head_position_bit ELSE 1 - head_position_bit

\* A slot written by dispatch carries the bit of the tail, flipped behind a wrap.
LEMMA DispatchedTag ==
  ASSUME IInv, NEW i \in Slot, NEW l \in AllocLane(i)
  PROVE  /\ dispatch_pkt_resp(l).pos = IF i >= tail_ptr THEN tail_position_bit
                                                        ELSE 1 - tail_position_bit
         /\ dispatch_pkt_cnt > 0
<1>1. tail_ptr \in Slot /\ dispatch_pkt_cnt \in 0 .. MACHINE_WIDTH
  BY CountsFit DEF IInv, TypeOK
<1>2. /\ AgeFromTail(i) < dispatch_pkt_cnt
      /\ dispatch_pkt_resp(l).ptr = i
  BY DispatchedSlots DEF IInv, AllocLane
<1>3. Wrap(tail_ptr + (l - FirstLane)) = i
  BY <1>2 DEF dispatch_pkt_resp
<1>4. dispatch_pkt_resp(l).pos = IF Overflow(tail_ptr, next_tail_ptr) /\ i < MACHINE_WIDTH
                                   THEN 1 - tail_position_bit ELSE tail_position_bit
  BY <1>3 DEF dispatch_pkt_resp
<1>5. Overflow(tail_ptr, next_tail_ptr) <=> tail_ptr + dispatch_pkt_cnt >= ROB_DEPTH
  BY <1>1, Advancing DEF next_tail_ptr
<1>6. AgeFromTail(i) = IF i >= tail_ptr THEN i - tail_ptr ELSE i + ROB_DEPTH - tail_ptr
  BY <1>1, DepthAssumption DEF AgeFromTail, Wrap, Slot
<1>7. (Overflow(tail_ptr, next_tail_ptr) /\ i < MACHINE_WIDTH) <=> i < tail_ptr
  BY <1>1, <1>2, <1>5, <1>6, DepthAssumption DEF Slot
<1>8. dispatch_pkt_cnt > 0
  BY <1>1, <1>2, <1>6, DepthAssumption DEF Slot
<1> QED
  BY <1>1, <1>4, <1>7, <1>8 DEF Slot

\* An entry that stays still agrees with the head, also when the head wraps; one
\* that is written carries the bit of the tail, flipped behind a wrap.
LEMMA CycleKeepsTags ==
  ASSUME IInv, TagsFollowHead, NEW w, Cycle(w)
  PROVE  TagsFollowHead'
<1> SUFFICES ASSUME NEW i \in Slot, rob_entry'[i].valid
             PROVE  rob_entry'[i].pos = IF i >= head_ptr' THEN head_position_bit'
                                                          ELSE 1 - head_position_bit'
  BY DEF TagsFollowHead
<1> DEFINE D == ROB_DEPTH
           h == head_ptr
           t == tail_ptr
           n == retire_en_cnt
           m == dispatch_pkt_cnt
<1>1. /\ D \in Nat /\ h \in 0 .. (D - 1) /\ t \in 0 .. (D - 1) /\ i \in 0 .. (D - 1)
      /\ head_position_bit \in {0, 1} /\ tail_position_bit \in {0, 1}
  BY DepthAssumption DEF IInv, TypeOK, Slot
<1>2. /\ n \in 0 .. MACHINE_WIDTH /\ m \in 0 .. MACHINE_WIDTH /\ Occupancy \in 0 .. D
      /\ n <= Occupancy
  BY CountsFit
<1>3. Occupancy = IF head_position_bit = tail_position_bit THEN t - h ELSE t - h + D
  BY DEF Occupancy
<1>4. /\ head_ptr' = IF h + n >= D THEN h + n - D ELSE h + n
      /\ head_position_bit' = IF h + n >= D THEN 1 - head_position_bit
                                            ELSE head_position_bit
  <2>1. head_ptr' = next_head_ptr /\ head_position_bit' = next_head_position_bit
    BY DEF Cycle
  <2>2. Wrap(h + n) = IF h + n >= D THEN h + n - D ELSE h + n
    BY <1>1, <1>2 DEF Wrap
  <2> QED
    BY <2>1, <2>2, NextPointers
<1>5. rob_entry'[i] = NextEntry(i, w)
  BY DEF Cycle
<1>6. Age(i) = IF i >= h THEN i - h ELSE i + D - h
  BY <1>1 DEF Age, Wrap
<1>7. CASE AllocLane(i) # {}
  <2> DEFINE l == CHOOSE x \in AllocLane(i) : TRUE
  <2>1. l \in AllocLane(i)
    BY <1>7
  <2>2. rob_entry'[i].pos = dispatch_pkt_resp(l).pos
    BY <1>5, <1>7 DEF NextEntry, dispatch_2_rob
  <2>3. rob_entry'[i].pos = IF i >= t THEN tail_position_bit ELSE 1 - tail_position_bit
    BY <2>1, <2>2, DispatchedTag
  <2>4. m > 0 /\ Occupancy + MACHINE_WIDTH <= D
    <3>1. m > 0
      BY <2>1, DispatchedTag
    <3> QED
      BY <3>1, DispatchingLanes DEF IInv, RoomForGroup
  <2>5. IF i >= t THEN i - t < m ELSE i + D - t < m
    <3>1. AgeFromTail(i) < m
      BY <1>7, DispatchedSlots DEF IInv
    <3>2. AgeFromTail(i) = IF i >= t THEN i - t ELSE i + D - t
      BY <1>1 DEF AgeFromTail, Wrap
    <3> QED
      BY <3>1, <3>2
  <2>6. IF head_position_bit = tail_position_bit THEN h <= t ELSE t <= h
    BY DEF IInv, PointerOrder
  <2> HIDE DEF n, m
  <2> QED
    BY <1>1, <1>2, <1>3, <1>4, <2>3, <2>4, <2>5, <2>6, DepthAssumption
<1>8. CASE AllocLane(i) = {}
  <2>1. i \notin RetireSlot /\ rob_entry[i].valid
    BY <1>5, <1>8 DEF NextEntry, EmptyEntry
  <2>2. rob_entry'[i].pos = rob_entry[i].pos
    BY <1>5, <1>8, <2>1 DEF NextEntry
  <2>3. Age(i) >= n
    BY <1>1, <1>2, <1>6, <2>1, RetiringSlots DEF IInv
  <2>4. rob_entry[i].pos = IF i >= h THEN head_position_bit ELSE 1 - head_position_bit
    BY <2>1 DEF TagsFollowHead
  <2> HIDE DEF n, m
  <2> QED
    BY <1>1, <1>2, <1>4, <1>6, <2>2, <2>3, <2>4, DepthAssumption
<1> QED
  BY <1>7, <1>8

\* In every reachable state the bits of the entries agree with the head's.
LEMMA TagsInductive == Spec => []TagsFollowHead
<1>1. Init => TagsFollowHead
  BY DEF Init, TagsFollowHead, EmptyEntry
<1>2. IInv /\ TagsFollowHead /\ [Next]_vars => TagsFollowHead'
  <2> SUFFICES ASSUME IInv, TagsFollowHead, [Next]_vars PROVE TagsFollowHead'
    OBVIOUS
  <2>1. CASE FlushCycle
    BY <2>1 DEF FlushCycle, TagsFollowHead, EmptyEntry
  <2>2. ASSUME NEW w \in Writeback, Cycle(w)
        PROVE  TagsFollowHead'
    BY <2>2, CycleKeepsTags
  <2>3. CASE UNCHANGED vars
    BY <2>3 DEF vars, TagsFollowHead
  <2> QED
    BY <2>1, <2>2, <2>3 DEF Next
<1> QED
  BY <1>1, <1>2, Inductive, PTL DEF Spec

\* With the bits of the entries known, comparing tags compares ages.
LEMMA TagsByAge ==
  ASSUME IInv, TagsFollowHead
  PROVE  TagsOrderByAge
<1> SUFFICES ASSUME NEW i \in Slot, NEW j \in Slot, rob_entry[i].valid, rob_entry[j].valid
             PROVE  Older(SlotTag(i), SlotTag(j)) <=> Age(i) < Age(j)
  BY DEF TagsOrderByAge
<1>1. /\ head_ptr \in Slot /\ head_position_bit \in {0, 1}
  BY DEF IInv, TypeOK
<1>2. \A k \in {i, j} :
        rob_entry[k].pos = IF k >= head_ptr THEN head_position_bit
                                            ELSE 1 - head_position_bit
  BY DEF TagsFollowHead
<1>3. \A k \in {i, j} : Age(k) = IF k >= head_ptr THEN k - head_ptr
                                                  ELSE k + ROB_DEPTH - head_ptr
  BY <1>1, DepthAssumption DEF Age, Wrap, Slot
<1>4. Older(SlotTag(i), SlotTag(j)) <=>
        \/ rob_entry[i].pos = rob_entry[j].pos /\ i < j
        \/ rob_entry[i].pos # rob_entry[j].pos /\ i > j
  BY DEF Older, SlotTag
<1> QED
  BY <1>1, <1>2, <1>3, <1>4, DepthAssumption DEF Slot

\* For every depth and width, comparing two tags as the code does compares the
\* ages of the instructions, on both sides of a pointer wrap.
THEOREM TagsCorrect == Spec => []TagsOrderByAge
BY TagsByAge, Inductive, TagsInductive, PTL

---------------------------------------------------------------------------
(* One branch per cycle *)

\* The group retired has at most one branch.
LEMMA RetiredGroupHasOneBranch ==
  ASSUME NEW j \in Lane, NEW k \in Lane,
         retire_pkt[j].inst \in BranchInst, retire_pkt[k].inst \in BranchInst
  PROVE  j = k
<1>1. NoInst \notin BranchInst
  BY InstAssumption
<1>2. /\ retire_en(j) /\ HeadEntry(j).inst \in BranchInst
      /\ retire_en(k) /\ HeadEntry(k).inst \in BranchInst
  BY <1>1 DEF retire_pkt, NoPkt
<1>3. /\ j \in 0 .. j /\ k \in 0 .. k
      /\ j \in 0 .. k \/ k \in 0 .. j
  BY DepthAssumption DEF Lane
<1>4. br_mask(j) /\ br_mask(k)
  BY <1>2, <1>3 DEF retire_en
<1> QED
  BY <1>2, <1>3, <1>4 DEF br_mask

\* For every depth, width and program, at most one branch retires per cycle: the
\* assertion the head of ROB.sv asks for, on which the single register for the
\* redirect pc relies.
THEOREM OneBranch == Spec => []OneBranchRetires
<1>1. NoPkt.inst \notin BranchInst
  BY InstAssumption DEF NoPkt
<1>2. Init => OneBranchRetires
  BY <1>1 DEF Init, OneBranchRetires
<1>3. OneBranchRetires /\ [Next]_vars => OneBranchRetires'
  <2> SUFFICES ASSUME OneBranchRetires, [Next]_vars
               PROVE  OneBranchRetires'
    OBVIOUS
  <2>1. CASE FlushCycle
    BY <1>1, <2>1 DEF FlushCycle, OneBranchRetires
  <2>2. CASE \E w \in Writeback : Cycle(w)
    <3>1. pipe_retire_pkt' = retire_pkt
      BY <2>2 DEF Cycle
    <3> QED
      BY <3>1, RetiredGroupHasOneBranch DEF OneBranchRetires
  <2>3. CASE UNCHANGED vars
    BY <2>3 DEF vars, OneBranchRetires
  <2> QED
    BY <2>1, <2>2, <2>3 DEF Next
<1> QED
  BY <1>2, <1>3, PTL DEF Spec

---------------------------------------------------------------------------
(* The redirect: one register serves whatever mispredictions are written     *)
(* back, in any order, and still holds the target of the branch that        *)
(* retires.                                                                 *)

\* A misprediction is only noted in the entry of a completed instruction.
MispSettled ==
  \A i \in Slot : rob_entry[i].branch_misp => rob_entry[i].valid /\ rob_entry[i].complete

\* The misprediction recorded is that of an entry in the window, and no entry
\* with a misprediction is older.  In the cycle before a flush that entry has
\* retired already.
RecordedIsOldest ==
  ~pipe_flush =>
    /\ branch_misp => /\ rob_entry[misp_rob.ptr].branch_misp
                      /\ SlotTag(misp_rob.ptr) = misp_rob
                      /\ rob_entry[misp_rob.ptr].inst = redirect_pc
    /\ \A i \in Slot : rob_entry[i].branch_misp =>
                         branch_misp /\ ~Older(SlotTag(i), misp_rob)

\* In the retired group at most one lane redirects, to its own target.
OneRedirect ==
  /\ \A k \in Lane : pipe_retire_pkt[k].branch_misp =>
                       pipe_retire_pkt[k].redirect_pc = pipe_retire_pkt[k].inst
  /\ \A j, k \in Lane :
       pipe_retire_pkt[j].branch_misp /\ pipe_retire_pkt[k].branch_misp => j = k

MispInv == MispSettled /\ RecordedIsOldest

---------------------------------------------------------------------------
(* Entries *)

\* Lane k retires from the slot at distance k.
LEMMA LaneSlot ==
  ASSUME TypeOK, NEW k \in Lane
  PROVE  Wrap(head_ptr + k) \in Slot /\ Age(Wrap(head_ptr + k)) = k
BY DepthAssumption DEF TypeOK, Slot, Lane, Wrap, Age

\* The slot at a distance is one slot.
LEMMA AgeIsInjective ==
  ASSUME TypeOK, NEW i \in Slot, NEW j \in Slot, Age(i) = Age(j)
  PROVE  i = j
BY DepthAssumption DEF TypeOK, Slot, Wrap, Age

\* Dispatch never writes a valid entry.
LEMMA ValidNotWritten ==
  ASSUME IInv, NEW i \in Slot, rob_entry[i].valid
  PROVE  AllocLane(i) = {}
<1>1. /\ head_ptr \in Slot /\ tail_ptr \in Slot
      /\ head_position_bit \in {0, 1} /\ tail_position_bit \in {0, 1}
  BY DEF IInv, TypeOK
<1>2. Age(i) < Occupancy
  BY WindowByAge DEF IInv, ValidExactlyWindow
<1>3. dispatch_pkt_cnt \in 0 .. MACHINE_WIDTH /\ Occupancy + dispatch_pkt_cnt <= ROB_DEPTH
  BY CountsFit
<1>4. Occupancy = IF head_position_bit = tail_position_bit
                    THEN tail_ptr - head_ptr ELSE tail_ptr - head_ptr + ROB_DEPTH
  BY DEF Occupancy
<1>5. IF head_position_bit = tail_position_bit THEN head_ptr <= tail_ptr
                                               ELSE tail_ptr <= head_ptr
  BY DEF IInv, PointerOrder
<1>6. /\ Age(i) = IF i >= head_ptr THEN i - head_ptr ELSE i + ROB_DEPTH - head_ptr
      /\ AgeFromTail(i) = IF i >= tail_ptr THEN i - tail_ptr ELSE i + ROB_DEPTH - tail_ptr
  BY <1>1, DepthAssumption DEF Age, AgeFromTail, Wrap, Slot
<1>7. ~(AgeFromTail(i) < dispatch_pkt_cnt)
  BY <1>1, <1>2, <1>3, <1>4, <1>5, <1>6, DepthAssumption DEF Slot
<1> QED
  BY <1>7, DispatchedSlots DEF IInv

\* A completed entry that does not retire stays as it is.
LEMMA CompletedStays ==
  ASSUME IInv, NEW w, NEW i \in Slot, i \notin RetireSlot,
         rob_entry[i].valid, rob_entry[i].complete
  PROVE  NextEntry(i, w) = rob_entry[i]
BY ValidNotWritten DEF NextEntry

\* Noting a result changes two fields.
LEMMA UpdatedFields ==
  ASSUME NEW e \in RobEntry, e.valid, NEW c \in BOOLEAN, NEW b \in BOOLEAN
  PROVE  LET f == [e EXCEPT !.complete = c, !.branch_misp = b]
         IN  /\ f.valid /\ f.complete = c /\ f.branch_misp = b
             /\ f.inst = e.inst /\ f.pos = e.pos
<1> DEFINE E == [valid : {TRUE}, inst : Inst, complete : BOOLEAN,
                 branch_misp : BOOLEAN, pos : {0, 1}]
           d == [e EXCEPT !.complete = c]
<1>1. e \in E
  BY EntryFields
<1>2. d \in E /\ d.complete = c /\ d.inst = e.inst /\ d.pos = e.pos
  BY <1>1
<1>3. LET f == [d EXCEPT !.branch_misp = b]
      IN  /\ f.valid /\ f.complete = c /\ f.branch_misp = b
          /\ f.inst = e.inst /\ f.pos = e.pos
  <2> HIDE DEF d
  <2> QED
    BY <1>2
<1> QED
  BY <1>3

\* The entry a branch is written back to takes its misprediction.
LEMMA WrittenBack ==
  ASSUME IInv, NEW w \in Writeback, NEW i \in Slot, WbBranch(w, i)
  PROVE  /\ rob_entry[i].valid /\ ~rob_entry[i].complete
         /\ i \notin RetireSlot
         /\ NextEntry(i, w).branch_misp = w.misp
         /\ NextEntry(i, w).inst = rob_entry[i].inst
         /\ NextEntry(i, w).pos = rob_entry[i].pos
<1>1. rob_entry[i].valid /\ ~rob_entry[i].complete /\ i \in w.done
  BY DEF WbBranch, Writeback, InFlight
<1>2. i \notin RetireSlot
  <2>1. ASSUME i \in RetireSlot PROVE FALSE
    <3>1. PICK k \in Lane : retire_en(k) /\ i = Wrap(head_ptr + k)
      BY <2>1 DEF RetireSlot
    <3>2. HeadEntry(k).complete
      BY <3>1, DepthAssumption DEF retire_en, Lane
    <3> QED
      BY <1>1, <3>1, <3>2 DEF HeadEntry
  <2> QED
    BY <2>1
<1>3. AllocLane(i) = {}
  BY <1>1, ValidNotWritten
<1>4. /\ (i \in w.done) \in BOOLEAN
      /\ (w.misp /\ WbBranch(w, i)) \in BOOLEAN
      /\ (w.misp /\ WbBranch(w, i)) = w.misp
  BY DEF WbBranch, Writeback
<1>5. NextEntry(i, w) = [rob_entry[i] EXCEPT !.complete = i \in w.done,
                                             !.branch_misp = w.misp /\ WbBranch(w, i)]
  BY <1>1, <1>2, <1>3 DEF NextEntry
<1>6. rob_entry[i] \in RobEntry
  BY DEF IInv, TypeOK
<1>7. /\ NextEntry(i, w).branch_misp = (w.misp /\ WbBranch(w, i))
      /\ NextEntry(i, w).inst = rob_entry[i].inst
      /\ NextEntry(i, w).pos = rob_entry[i].pos
  BY <1>1, <1>4, <1>5, <1>6, UpdatedFields
<1> QED
  BY <1>1, <1>2, <1>4, <1>7

\* An entry has a misprediction after a cycle when it had one and stayed, or
\* when it is the branch written back.
LEMMA NextMisp ==
  ASSUME IInv, MispSettled, NEW w \in Writeback, NEW i \in Slot, NextEntry(i, w).branch_misp
  PROVE  /\ NextEntry(i, w).valid /\ NextEntry(i, w).complete
         /\ \/ w.misp /\ WbBranch(w, i)
            \/ rob_entry[i].branch_misp /\ NextEntry(i, w) = rob_entry[i]
<1> DEFINE e == rob_entry[i]
<1>1. e \in RobEntry
  BY DEF IInv, TypeOK
<1>2. AllocLane(i) = {} /\ i \notin RetireSlot
  BY DEF NextEntry, dispatch_2_rob, EmptyEntry
<1>3. CASE e.valid /\ ~e.complete
  <2> DEFINE c == i \in w.done
             b == w.misp /\ WbBranch(w, i)
  <2>1. c \in BOOLEAN /\ b \in BOOLEAN
    BY DEF WbBranch, Writeback
  <2>2. NextEntry(i, w) = [e EXCEPT !.complete = c, !.branch_misp = b]
    BY <1>2, <1>3 DEF NextEntry
  <2>3. /\ NextEntry(i, w).valid /\ NextEntry(i, w).complete = c
        /\ NextEntry(i, w).branch_misp = b
    <3> HIDE DEF b, c, e
    <3> QED
      BY <1>1, <1>3, <2>1, <2>2, UpdatedFields
  <2> QED
    BY <2>3 DEF WbBranch
<1>4. CASE ~(e.valid /\ ~e.complete)
  <2>1. NextEntry(i, w) = e
    BY <1>2, <1>4 DEF NextEntry
  <2> QED
    BY <2>1 DEF MispSettled
<1> QED
  BY <1>3, <1>4

---------------------------------------------------------------------------
(* Retirement *)

\* A lane that retires a misprediction retires the oldest one, which is the one
\* recorded: the lanes before it do not redirect.
LEMMA RetiresRecorded ==
  ASSUME IInv, TagsOrderByAge, MispInv, ~pipe_flush,
         NEW k \in Lane, retire_en(k), HeadEntry(k).branch_misp
  PROVE  redirect_pc = HeadEntry(k).inst
<1> DEFINE s == Wrap(head_ptr + k)
           m == misp_rob.ptr
<1>1. s \in Slot /\ Age(s) = k /\ rob_entry[s].branch_misp /\ rob_entry[s].valid
  BY LaneSlot DEF HeadEntry, IInv, MispInv, MispSettled
<1>2. /\ m \in Slot
      /\ rob_entry[m].branch_misp /\ rob_entry[m].valid
      /\ SlotTag(m) = misp_rob /\ rob_entry[m].inst = redirect_pc
      /\ ~Older(SlotTag(s), misp_rob)
  <2>1. m \in Slot
    BY DEF IInv, TypeOK, RobTag
  <2> QED
    BY <1>1, <2>1 DEF MispInv, MispSettled, RecordedIsOldest
<1>3. Age(m) \in Nat /\ k \in Nat /\ ~(k < Age(m))
  <2>1. Age(m) \in Slot
    BY <1>2, WindowByAge DEF IInv
  <2>2. Older(SlotTag(s), SlotTag(m)) <=> Age(s) < Age(m)
    BY <1>1, <1>2 DEF TagsOrderByAge
  <2> QED
    BY <1>1, <1>2, <2>1, <2>2, DepthAssumption DEF Slot, Lane
<1>4. CASE Age(m) = k
  <2>1. m = s
    BY <1>1, <1>2, <1>4, AgeIsInjective DEF IInv
  <2> QED
    BY <1>2, <2>1 DEF HeadEntry
<1>5. CASE Age(m) < k
  <2>1. Age(m) \in Lane /\ Age(m) \in 0 .. k
    BY <1>3, <1>5, DepthAssumption DEF Lane
  <2>2. m = Wrap(head_ptr + Age(m))
    BY <1>2, <2>1, LaneSlot, AgeIsInjective DEF IInv
  <2>3. ~Redirects(HeadEntry(Age(m)))
    BY <1>5, <2>1 DEF retire_en
  <2> QED
    BY <1>2, <2>2, <2>3 DEF Redirects, HeadEntry
<1> QED
  BY <1>3, <1>4, <1>5

\* Of two lanes that retire a misprediction the later one would not retire.
LEMMA CycleKeepsOneRedirect ==
  ASSUME IInv, TagsOrderByAge, MispInv, ~pipe_flush, NEW w, Cycle(w)
  PROVE  OneRedirect'
<1>1. pipe_retire_pkt' = retire_pkt
  BY DEF Cycle
<1>2. ASSUME NEW k \in Lane, retire_pkt[k].branch_misp
      PROVE  /\ retire_en(k) /\ HeadEntry(k).branch_misp
             /\ retire_pkt[k].inst = HeadEntry(k).inst
             /\ retire_pkt[k].redirect_pc = redirect_pc
  BY <1>2 DEF retire_pkt, NoPkt
<1>3. ASSUME NEW k \in Lane, retire_pkt[k].branch_misp
      PROVE  retire_pkt[k].redirect_pc = retire_pkt[k].inst
  BY <1>2, <1>3, RetiresRecorded
<1>4. ASSUME NEW j \in Lane, NEW k \in Lane, j < k,
             retire_pkt[j].branch_misp, retire_pkt[k].branch_misp
      PROVE  FALSE
  <2>1. j \in 0 .. k
    BY <1>4, DepthAssumption DEF Lane
  <2>2. ~Redirects(HeadEntry(j))
    BY <1>2, <1>4, <2>1 DEF retire_en
  <2> QED
    BY <1>2, <1>4, <2>2 DEF Redirects
<1>5. \A j, k \in Lane : j < k \/ k < j \/ j = k
  BY DepthAssumption DEF Lane
<1> QED
  BY <1>1, <1>3, <1>4, <1>5 DEF OneRedirect

---------------------------------------------------------------------------
(* The record *)

\* If no flush follows, no entry with a misprediction retires.
LEMMA NoMispRetires ==
  ASSUME IInv, NEW w, Cycle(w), ~pipe_flush',
         NEW i \in Slot, rob_entry[i].branch_misp
  PROVE  i \notin RetireSlot
<1> SUFFICES ASSUME i \in RetireSlot PROVE FALSE
  OBVIOUS
<1>1. PICK k \in Lane : retire_en(k) /\ i = Wrap(head_ptr + k)
  BY DEF RetireSlot
<1>2. HeadEntry(k).branch_misp
  BY <1>1 DEF HeadEntry
<1>3. retire_pkt[k].branch_misp /\ retire_pkt[k] # NoPkt
  BY <1>1, <1>2 DEF retire_pkt, NoPkt
<1>4. pipe_retire_pkt' = retire_pkt
  BY DEF Cycle
<1> QED
  BY <1>3, <1>4 DEF pipe_flush, retire_br_misp, Retired

\* Whatever is written back, the record stays the oldest misprediction.
LEMMA CycleKeepsMispInv ==
  ASSUME IInv, TagsOrderByAge, MispInv, NEW w \in Writeback, Cycle(w)
  PROVE  MispInv'
<1> DEFINE NextTag(i) == [pos |-> rob_entry'[i].pos, ptr |-> i]
<1>1. rob_entry' = [i \in Slot |-> NextEntry(i, w)] /\ RecordMisp(w) /\ ~pipe_flush
  BY DEF Cycle
<1>2. MispSettled'
  BY <1>1, NextMisp DEF MispInv, MispSettled
<1>3. ASSUME ~pipe_flush'
      PROVE  /\ branch_misp' => /\ rob_entry'[misp_rob'.ptr].branch_misp
                                /\ NextTag(misp_rob'.ptr) = misp_rob'
                                /\ rob_entry'[misp_rob'.ptr].inst = redirect_pc'
             /\ \A i \in Slot : rob_entry'[i].branch_misp =>
                                  branch_misp' /\ ~Older(NextTag(i), misp_rob')
  <2>1. /\ misp_rob.ptr \in Slot
        /\ branch_misp => /\ rob_entry[misp_rob.ptr].branch_misp
                          /\ rob_entry[misp_rob.ptr].valid
                          /\ SlotTag(misp_rob.ptr) = misp_rob
                          /\ rob_entry[misp_rob.ptr].inst = redirect_pc
        /\ \A i \in Slot : rob_entry[i].branch_misp =>
              /\ rob_entry[i].valid /\ rob_entry[i].complete
              /\ branch_misp /\ ~Older(SlotTag(i), misp_rob)
    BY <1>1 DEF MispInv, RecordedIsOldest, MispSettled, IInv, TypeOK, RobTag
  <2>2. ASSUME NEW i \in Slot, rob_entry[i].branch_misp
        PROVE  rob_entry'[i] = rob_entry[i] /\ NextTag(i) = SlotTag(i)
    BY <1>1, <1>3, <2>1, <2>2, NoMispRetires, CompletedStays DEF SlotTag
  <2>3. ASSUME NEW i \in Slot, rob_entry'[i].branch_misp
        PROVE  (w.misp /\ WbBranch(w, i)) \/ rob_entry[i].branch_misp
    BY <1>1, <2>3, NextMisp DEF MispInv
  <2>4. CASE UNCHANGED <<branch_misp, misp_rob, redirect_pc>> /\ ~w.misp
    BY <2>1, <2>2, <2>3, <2>4
  <2>5. ASSUME w.misp, NEW i \in Slot, WbBranch(w, i)
        PROVE  /\ rob_entry[i].valid
               /\ rob_entry'[i].branch_misp /\ NextTag(i) = SlotTag(i)
               /\ rob_entry'[i].inst = rob_entry[i].inst
               /\ \A j \in Slot : WbBranch(w, j) => j = i
    <3>1. /\ rob_entry[i].valid /\ rob_entry'[i].branch_misp = w.misp
          /\ rob_entry'[i].inst = rob_entry[i].inst
          /\ rob_entry'[i].pos = rob_entry[i].pos
      BY <1>1, <2>5, WrittenBack
    <3>2. \A j \in Slot : WbBranch(w, j) => j = i
      BY <2>5 DEF WbBranch, Writeback
    <3> QED
      BY <2>5, <3>1, <3>2 DEF SlotTag
  <2>6. ASSUME w.misp, NEW i \in Slot, WbBranch(w, i),
               ~branch_misp \/ Older(SlotTag(i), misp_rob),
               branch_misp', misp_rob' = SlotTag(i), redirect_pc' = rob_entry[i].inst
        PROVE  /\ rob_entry'[misp_rob'.ptr].branch_misp
               /\ NextTag(misp_rob'.ptr) = misp_rob'
               /\ rob_entry'[misp_rob'.ptr].inst = redirect_pc'
               /\ \A j \in Slot : rob_entry'[j].branch_misp =>
                                    branch_misp' /\ ~Older(NextTag(j), misp_rob')
    <3>1. misp_rob'.ptr = i
      BY <2>6 DEF SlotTag
    <3>2. ~Older(SlotTag(i), SlotTag(i))
      BY DEF Older, SlotTag, Slot
    <3>3. ASSUME NEW j \in Slot, rob_entry[j].branch_misp
          PROVE  ~Older(SlotTag(j), SlotTag(i))
      <4> DEFINE m == misp_rob.ptr
      <4>1. /\ branch_misp /\ rob_entry[j].valid /\ rob_entry[i].valid
            /\ m \in Slot /\ rob_entry[m].valid /\ SlotTag(m) = misp_rob
            /\ ~Older(SlotTag(j), SlotTag(m)) /\ Older(SlotTag(i), SlotTag(m))
        BY <2>1, <2>5, <2>6, <3>3
      <4>2. ~(Age(j) < Age(m)) /\ Age(i) < Age(m)
        BY <4>1 DEF TagsOrderByAge
      <4>3. Age(i) \in Int /\ Age(j) \in Int /\ Age(m) \in Int
        BY <4>1, WindowByAge DEF IInv, Slot
      <4>4. ~(Age(j) < Age(i))
        BY <4>2, <4>3
      <4> QED
        BY <4>1, <4>4 DEF TagsOrderByAge
    <3> QED
      BY <2>2, <2>3, <2>5, <2>6, <3>1, <3>2, <3>3
  <2>7. ASSUME w.misp, NEW i \in Slot, WbBranch(w, i), branch_misp,
               ~Older(SlotTag(i), misp_rob),
               UNCHANGED <<branch_misp, misp_rob, redirect_pc>>
        PROVE  /\ rob_entry'[misp_rob'.ptr].branch_misp
               /\ NextTag(misp_rob'.ptr) = misp_rob'
               /\ rob_entry'[misp_rob'.ptr].inst = redirect_pc'
               /\ \A j \in Slot : rob_entry'[j].branch_misp =>
                                    branch_misp' /\ ~Older(NextTag(j), misp_rob')
    BY <2>1, <2>2, <2>3, <2>5, <2>7
  <2>8. ASSUME w.misp
        PROVE  \E i \in Slot :
                 /\ WbBranch(w, i)
                 /\ \/ /\ ~branch_misp \/ Older(SlotTag(i), misp_rob)
                       /\ branch_misp' /\ misp_rob' = SlotTag(i)
                       /\ redirect_pc' = rob_entry[i].inst
                    \/ /\ branch_misp /\ ~Older(SlotTag(i), misp_rob)
                       /\ UNCHANGED <<branch_misp, misp_rob, redirect_pc>>
    BY <1>1, <2>8 DEF RecordMisp, SlotTag
  <2>9. ~w.misp => UNCHANGED <<branch_misp, misp_rob, redirect_pc>>
    BY <1>1 DEF RecordMisp
  <2> QED
    BY <2>4, <2>6, <2>7, <2>8, <2>9
<1> QED
  BY <1>2, <1>3 DEF MispInv, RecordedIsOldest, SlotTag

---------------------------------------------------------------------------
(* In every reachable state *)

\* Both invariants, from the window and the tags of the reorder buffer.
LEMMA RedirectInductive == Spec => [](MispInv /\ OneRedirect)
<1>1. Init => MispInv /\ OneRedirect
  BY DEF Init, MispInv, MispSettled, RecordedIsOldest, OneRedirect, EmptyEntry, NoPkt
<1>2. /\ IInv /\ TagsFollowHead /\ MispInv /\ OneRedirect
      /\ [Next]_vars
      => MispInv' /\ OneRedirect'
  <2> SUFFICES ASSUME IInv, TagsFollowHead, MispInv, OneRedirect, [Next]_vars
               PROVE  MispInv' /\ OneRedirect'
    OBVIOUS
  <2>1. CASE FlushCycle
    BY <2>1 DEF FlushCycle, MispInv, MispSettled, RecordedIsOldest, OneRedirect,
                EmptyEntry, NoPkt
  <2>2. ASSUME NEW w \in Writeback, Cycle(w)
        PROVE  MispInv' /\ OneRedirect'
    <3>1. TagsOrderByAge /\ ~pipe_flush
      BY <2>2, TagsByAge DEF Cycle
    <3> QED
      BY <2>2, <3>1, CycleKeepsMispInv, CycleKeepsOneRedirect
  <2>3. CASE UNCHANGED vars
    BY <2>3 DEF vars, MispInv, MispSettled, RecordedIsOldest, OneRedirect, SlotTag,
                pipe_flush, retire_br_misp, retire_exception, Retired
  <2> QED
    BY <2>1, <2>2, <2>3 DEF Next
<1> QED
  BY <1>1, <1>2, Inductive, TagsInductive, PTL DEF Spec

\* For every depth, width and program: when a mispredicted branch has retired, the
\* pc sent to the front end is the one that branch computed, whatever other
\* mispredictions were written back in the meantime and in whatever order
\* (ROB.sv:162-185 keeps one, backend.sv:629-640 sends it).
THEOREM RedirectCorrect == Spec => []RedirectIsOfRetiredBranch
<1>1. OneRedirect => RedirectIsOfRetiredBranch
  <2> SUFFICES ASSUME OneRedirect, NEW k \in Lane,
                      Retired(k), pipe_retire_pkt[k].branch_misp
               PROVE  retire_redirect_pc = pipe_retire_pkt[k].inst
    BY DEF RedirectIsOfRetiredBranch
  <2> DEFINE misp == {l \in Lane : Retired(l) /\ pipe_retire_pkt[l].branch_misp}
  <2>1. misp = {k}
    BY DEF OneRedirect
  <2>2. k <= k
    BY DepthAssumption DEF Lane
  <2>3. (CHOOSE l \in misp : \A n \in misp : l <= n) = k
    BY <2>1, <2>2
  <2>4. retire_redirect_pc = pipe_retire_pkt[k].redirect_pc
    BY <2>3 DEF retire_redirect_pc
  <2> QED
    BY <2>4 DEF OneRedirect
<1> QED
  BY <1>1, RedirectInductive, PTL

---------------------------------------------------------------------------
(* The reorder buffer implements RetireWindow: seen as the sequence of the   *)
(* instructions between its pointers, every cycle is a step of the abstract *)
(* window.                                                                  *)

Item == [inst : Inst, complete : BOOLEAN, branch_misp : BOOLEAN]

ItemOf(e) == [inst |-> e.inst, complete |-> e.complete, branch_misp |-> e.branch_misp]

\* The lanes retired are the first ones.
RetiredPrefix == \A j, k \in Lane : j <= k /\ Retired(k) => Retired(j)

---------------------------------------------------------------------------
(* The two sequences *)

\* The k-th instruction of the window is in the slot at distance k - 1.
WindowIsSequence ==
  /\ Window \in Seq(Item)
  /\ Len(Window) = Occupancy
  /\ Occupancy \in 0 .. ROB_DEPTH
  /\ \A k \in 1 .. Occupancy :
       /\ Window[k] = ItemOf(rob_entry[Wrap(head_ptr + k - 1)])
       /\ Wrap(head_ptr + k - 1) \in Slot
       /\ Age(Wrap(head_ptr + k - 1)) = k - 1
       /\ rob_entry[Wrap(head_ptr + k - 1)].valid
       /\ ItemOf(rob_entry[Wrap(head_ptr + k - 1)]) \in Item

\* The window is the sequence of the slots by their distance.
LEMMA WindowIs == IInv => WindowIsSequence
<1> SUFFICES ASSUME IInv PROVE WindowIsSequence
  OBVIOUS
<1>1. Occupancy \in 0 .. ROB_DEPTH /\ Occupancy \in Nat /\ head_ptr \in Slot
  BY WindowByAge, DepthAssumption DEF IInv, TypeOK
<1>2. ASSUME NEW k \in 1 .. Occupancy
      PROVE  /\ Window[k] = ItemOf(rob_entry[Wrap(head_ptr + k - 1)])
             /\ Wrap(head_ptr + k - 1) \in Slot
             /\ Age(Wrap(head_ptr + k - 1)) = k - 1
             /\ rob_entry[Wrap(head_ptr + k - 1)].valid
             /\ ItemOf(rob_entry[Wrap(head_ptr + k - 1)]) \in Item
  <2>1. head_ptr + (k - 1) = head_ptr + k - 1
    BY <1>1 DEF Slot
  <2>2. Window[k] = ItemOf(rob_entry[Wrap(head_ptr + k - 1)])
    BY <2>1 DEF Window, HeadEntry, ItemOf
  <2>3. Wrap(head_ptr + k - 1) \in Slot /\ Age(Wrap(head_ptr + k - 1)) = k - 1
    BY <1>1, DepthAssumption DEF Slot, Wrap, Age
  <2>4. rob_entry[Wrap(head_ptr + k - 1)].valid
    BY <1>1, <2>3, WindowByAge DEF IInv, ValidExactlyWindow
  <2> DEFINE e == rob_entry[Wrap(head_ptr + k - 1)]
  <2>5. e \in [valid : {TRUE}, inst : Inst, complete : BOOLEAN,
               branch_misp : BOOLEAN, pos : {0, 1}]
    BY <2>3, <2>4, EntryFields DEF IInv, TypeOK
  <2>6. ItemOf(e) \in Item
    <3> HIDE DEF e
    <3> QED
      BY <2>5 DEF ItemOf, Item
  <2> QED
    BY <2>2, <2>3, <2>4, <2>6
<1>3. Window \in [1 .. Occupancy -> Item]
  <2>1. Window = [k \in 1 .. Occupancy |-> Window[k]]
    BY DEF Window
  <2> QED
    BY <1>2, <2>1
<1>4. Window \in Seq(Item) /\ Len(Window) = Occupancy
  BY <1>1, <1>3, LengthIs
<1> QED
  BY <1>1, <1>2, <1>4 DEF WindowIsSequence

\* The k-th instruction retired is in lane k - 1.
RetiredIsSequence ==
  /\ RetiredCount \in 0 .. MACHINE_WIDTH
  /\ \A k \in Lane : Retired(k) <=> k < RetiredCount
  /\ RetiredSeq \in Seq(Item)
  /\ Len(RetiredSeq) = RetiredCount
  /\ \A k \in 1 .. RetiredCount :
       RetiredSeq[k] = [inst |-> pipe_retire_pkt[k - 1].inst, complete |-> TRUE,
                        branch_misp |-> pipe_retire_pkt[k - 1].branch_misp]

\* The retired group is the sequence of its lanes.
LEMMA RetiredIs == TypeOK /\ RetiredPrefix => RetiredIsSequence
<1> SUFFICES ASSUME TypeOK, RetiredPrefix PROVE RetiredIsSequence
  OBVIOUS
<1> DEFINE S == {k \in Lane : Retired(k)}
<1>1. S \in SUBSET (0 .. (MACHINE_WIDTH - 1))
  BY DEF Lane
<1>2. \A i \in S : \A j \in 0 .. i : j \in S
  <2> SUFFICES ASSUME NEW i \in S, NEW j \in 0 .. i PROVE j \in Lane /\ Retired(j)
    OBVIOUS
  <2>1. i \in Lane /\ Retired(i) /\ j \in Lane /\ j <= i
    BY DepthAssumption DEF Lane
  <2> QED
    BY <2>1 DEF RetiredPrefix
<1>3. /\ Cardinality(S) \in 0 .. MACHINE_WIDTH
      /\ S = 0 .. (Cardinality(S) - 1)
  <2> HIDE DEF S
  <2> QED
    BY <1>1, <1>2, PrefixIsInterval, DepthAssumption
<1>4. RetiredCount = Cardinality(S) /\ \A k \in Lane : Retired(k) <=> k \in S
  BY DEF RetiredCount
<1> HIDE DEF S
<1>5. /\ RetiredCount \in 0 .. MACHINE_WIDTH
      /\ \A k \in Lane : Retired(k) <=> k < RetiredCount
  BY <1>3, <1>4, DepthAssumption DEF Lane
<1>6. ASSUME NEW k \in 1 .. RetiredCount
      PROVE  /\ RetiredSeq[k] = [inst |-> pipe_retire_pkt[k - 1].inst, complete |-> TRUE,
                                 branch_misp |-> pipe_retire_pkt[k - 1].branch_misp]
             /\ RetiredSeq[k] \in Item
  <2>1. RetiredSeq[k] = [inst |-> pipe_retire_pkt[k - 1].inst, complete |-> TRUE,
                         branch_misp |-> pipe_retire_pkt[k - 1].branch_misp]
    BY DEF RetiredSeq
  <2>2. k - 1 \in Lane /\ k - 1 < RetiredCount
    BY <1>5, DepthAssumption DEF Lane
  <2>3. pipe_retire_pkt[k - 1] \in RetirePkt
    BY <1>5, <2>2 DEF TypeOK, Retired
  <2>4. /\ pipe_retire_pkt[k - 1].inst \in Inst
        /\ pipe_retire_pkt[k - 1].branch_misp \in BOOLEAN
    BY <2>3 DEF RetirePkt
  <2> QED
    BY <2>1, <2>4 DEF Item
<1>7. RetiredSeq \in [1 .. RetiredCount -> Item]
  <2>1. RetiredSeq = [k \in 1 .. RetiredCount |-> RetiredSeq[k]]
    BY DEF RetiredSeq
  <2> QED
    BY <1>6, <2>1
<1>8. RetiredSeq \in Seq(Item) /\ Len(RetiredSeq) = RetiredCount
  BY <1>5, <1>7, LengthIs, DepthAssumption
<1> QED
  BY <1>5, <1>6, <1>8 DEF RetiredIsSequence

---------------------------------------------------------------------------
(* Retirement *)

\* The abstract window flushes when the backend does.
LEMMA FlushingIs ==
  ASSUME RetiredIsSequence
  PROVE  /\ InOrder!Flushing <=> pipe_flush
         /\ (\E k \in 1 .. Len(RetiredSeq) : RetiredSeq[k].inst \in HaltInst)
              <=> retire_exception
<1>1. \A k \in 1 .. Len(RetiredSeq) :
        /\ k - 1 \in Lane /\ Retired(k - 1)
        /\ RetiredSeq[k].inst = pipe_retire_pkt[k - 1].inst
        /\ RetiredSeq[k].branch_misp = pipe_retire_pkt[k - 1].branch_misp
  BY DepthAssumption DEF RetiredIsSequence, Lane
<1>2. \A k \in Lane : Retired(k) => /\ k + 1 \in 1 .. Len(RetiredSeq)
                                    /\ (k + 1) - 1 = k
  BY DepthAssumption DEF RetiredIsSequence, Lane
<1>3. (\E k \in 1 .. Len(RetiredSeq) : RetiredSeq[k].inst \in HaltInst) <=> retire_exception
  BY <1>1, <1>2 DEF retire_exception
<1>4. (\E k \in 1 .. Len(RetiredSeq) : RetiredSeq[k].branch_misp) <=> retire_br_misp
  <2>1. ASSUME NEW k \in 1 .. Len(RetiredSeq), RetiredSeq[k].branch_misp
        PROVE  retire_br_misp
    BY <1>1, <2>1, Zenon DEF retire_br_misp
  <2>2. ASSUME NEW k \in Lane, Retired(k), pipe_retire_pkt[k].branch_misp
        PROVE  \E m \in 1 .. Len(RetiredSeq) : RetiredSeq[m].branch_misp
    <3>1. k + 1 \in 1 .. Len(RetiredSeq) /\ (k + 1) - 1 = k
      BY <1>2, <2>2
    <3>2. RetiredSeq[k + 1].branch_misp = pipe_retire_pkt[k].branch_misp
      BY <1>1, <3>1
    <3> QED
      BY <2>2, <3>1, <3>2, Zenon
  <2> QED
    BY <2>1, <2>2, Zenon DEF retire_br_misp
<1>5. InOrder!Flushing <=>
        \E k \in 1 .. Len(RetiredSeq) :
          RetiredSeq[k].branch_misp \/ RetiredSeq[k].inst \in HaltInst
  BY DEF InOrder!Flushing, InOrder!ItemRedirects
<1> QED
  BY <1>3, <1>4, <1>5 DEF pipe_flush

\* What is in the retired group after a cycle is what retires in it.
LEMMA RetiredNext ==
  ASSUME IInv, NEW w, Cycle(w)
  PROVE  /\ \A k \in Lane : Retired(k)' <=> retire_en(k)
         /\ RetiredCount' = retire_en_cnt
<1>1. pipe_retire_pkt' = retire_pkt
  BY DEF Cycle
<1>2. ASSUME NEW k \in Lane, retire_en(k) PROVE retire_pkt[k] # NoPkt
  <2>1. HeadEntry(k).valid /\ HeadEntry(k) \in RobEntry
    BY <1>2, LaneSlot, DepthAssumption DEF retire_en, Lane, IInv, TypeOK, HeadEntry
  <2>2. HeadEntry(k).inst # NoInst
    BY <2>1, EntryFields, InstAssumption
  <2> QED
    BY <1>2, <2>2 DEF retire_pkt, NoPkt
<1>3. ASSUME NEW k \in Lane, ~retire_en(k) PROVE retire_pkt[k] = NoPkt
  BY <1>3 DEF retire_pkt
<1>4. \A k \in Lane : Retired(k)' <=> retire_en(k)
  BY <1>1, <1>2, <1>3 DEF Retired
<1>5. {k \in Lane : Retired(k)'} = {k \in Lane : retire_en(k)}
  BY <1>4
<1> QED
  BY <1>4, <1>5 DEF RetiredCount, retire_en_cnt

\* A lane only retires with all the lanes before it.
LEMMA CycleKeepsPrefix ==
  ASSUME IInv, NEW w, Cycle(w)
  PROVE  RetiredPrefix'
<1>1. \A j, k \in Lane : j <= k => \A i \in 0 .. j : i \in 0 .. k /\ (i < j => i < k)
  BY DepthAssumption DEF Lane
<1>2. \A j, k \in Lane : j <= k /\ retire_en(k) => retire_en(j)
  BY <1>1 DEF retire_en
<1> QED
  BY <1>2, RetiredNext DEF RetiredPrefix

---------------------------------------------------------------------------
(* A cycle is a step of the abstract window *)

\* The abstract window may retire what the reorder buffer retires.
LEMMA MayRetireCount ==
  ASSUME IInv, WindowIsSequence
  PROVE  /\ InOrder!MayRetire(retire_en_cnt)
         /\ \A k \in 1 .. retire_en_cnt :
              /\ k - 1 \in Lane /\ retire_en(k - 1)
              /\ Window[k] = ItemOf(HeadEntry(k - 1))
              /\ HeadEntry(k - 1).complete
<1>1. retire_en_cnt \in 0 .. MACHINE_WIDTH /\ retire_en_cnt <= Occupancy
      /\ head_ptr \in Slot
  BY CountsFit DEF IInv, TypeOK
<1>2. ASSUME NEW k \in 1 .. retire_en_cnt
      PROVE  /\ k - 1 \in Lane /\ retire_en(k - 1)
             /\ Window[k] = ItemOf(HeadEntry(k - 1))
             /\ HeadEntry(k - 1).complete
  <2>1. k - 1 \in Lane /\ k - 1 < retire_en_cnt /\ k \in 1 .. Occupancy
    BY <1>1, DepthAssumption DEF Lane, WindowIsSequence
  <2>2. retire_en(k - 1)
    BY <2>1, RetiringLanes DEF IInv
  <2>3. head_ptr + (k - 1) = head_ptr + k - 1 /\ k - 1 \in 0 .. (k - 1)
    BY <1>1, <2>1, DepthAssumption DEF Slot, Lane
  <2>4. Window[k] = ItemOf(HeadEntry(k - 1))
    BY <2>1, <2>3 DEF WindowIsSequence, HeadEntry
  <2>5. HeadEntry(k - 1).complete
    BY <2>2, <2>3 DEF retire_en
  <2> QED
    BY <2>1, <2>2, <2>4, <2>5
<1>3. \A k \in 1 .. retire_en_cnt :
        /\ Window[k].inst = HeadEntry(k - 1).inst
        /\ Window[k].complete = HeadEntry(k - 1).complete
        /\ Window[k].branch_misp = HeadEntry(k - 1).branch_misp
  <2>1. \A e : /\ ItemOf(e).inst = e.inst /\ ItemOf(e).complete = e.complete
               /\ ItemOf(e).branch_misp = e.branch_misp
    BY DEF ItemOf
  <2> QED
    BY <1>2, <2>1
<1>4. ASSUME NEW k \in 1 .. (retire_en_cnt - 1) PROVE ~InOrder!ItemRedirects(Window[k])
  <2>1. k \in 1 .. retire_en_cnt /\ retire_en_cnt \in 1 .. retire_en_cnt
    BY <1>1
  <2>2. k - 1 \in 0 .. (retire_en_cnt - 1) /\ k - 1 < retire_en_cnt - 1
    BY <1>1
  <2>3. ~Redirects(HeadEntry(k - 1))
    BY <1>2, <2>1, <2>2 DEF retire_en
  <2> QED
    BY <1>3, <2>1, <2>3, Zenon DEF InOrder!ItemRedirects, Redirects
<1>5. ASSUME NEW j \in 1 .. retire_en_cnt, NEW k \in 1 .. retire_en_cnt,
             Window[j].inst \in BranchInst, Window[k].inst \in BranchInst
      PROVE  j = k
  <2>1. /\ HeadEntry(j - 1).inst \in BranchInst
        /\ HeadEntry(k - 1).inst \in BranchInst
    BY <1>3, <1>5
  <2>2. /\ retire_en_cnt \in 1 .. retire_en_cnt
        /\ j - 1 \in 0 .. (retire_en_cnt - 1) /\ k - 1 \in 0 .. (retire_en_cnt - 1)
        /\ retire_en_cnt - 1 \in 0 .. (retire_en_cnt - 1)
    BY <1>1
  <2>3. br_mask(retire_en_cnt - 1)
    BY <1>2, <2>2 DEF retire_en
  <2>4. j - 1 = k - 1
    BY <2>1, <2>2, <2>3 DEF br_mask
  <2> QED
    BY <2>4
<1>6. \A k \in 1 .. retire_en_cnt : Window[k].complete
  BY <1>3, <1>2
<1> QED
  BY <1>2, <1>4, <1>5, <1>6 DEF InOrder!MayRetire

\* The abstract window may retire nothing longer in that cycle.
LEMMA RetiresLongest ==
  ASSUME IInv, WindowIsSequence, retire_en_cnt < MACHINE_WIDTH, retire_en_cnt < Len(Window)
  PROVE  ~InOrder!MayRetire(retire_en_cnt + 1)
<1> DEFINE n == retire_en_cnt
<1> SUFFICES ASSUME InOrder!MayRetire(n + 1) PROVE FALSE
  OBVIOUS
<1>1. /\ n \in Nat /\ n \in Lane /\ n + 1 \in 1 .. Occupancy
      /\ Occupancy \in Nat /\ head_ptr \in Slot
  BY CountsFit, DepthAssumption DEF IInv, TypeOK, WindowIsSequence, Lane
<1>2. ~retire_en(n)
  BY <1>1, RetiringLanes DEF IInv
<1>3. ASSUME NEW k \in 0 .. n
      PROVE  /\ k + 1 \in 1 .. (n + 1) /\ HeadEntry(k).valid
             /\ Window[k + 1] = ItemOf(HeadEntry(k))
  <2>1. /\ k + 1 \in 1 .. Occupancy /\ k + 1 \in 1 .. (n + 1)
        /\ head_ptr + (k + 1) - 1 = head_ptr + k
    <3> HIDE DEF n
    <3> QED
      BY <1>1 DEF Slot
  <2> QED
    BY <2>1 DEF WindowIsSequence, HeadEntry
<1>4. \A k \in 0 .. n :
        /\ k + 1 \in 1 .. (n + 1) /\ HeadEntry(k).valid
        /\ Window[k + 1].inst = HeadEntry(k).inst
        /\ Window[k + 1].complete = HeadEntry(k).complete
        /\ Window[k + 1].branch_misp = HeadEntry(k).branch_misp
  <2>1. \A e : /\ ItemOf(e).inst = e.inst /\ ItemOf(e).complete = e.complete
               /\ ItemOf(e).branch_misp = e.branch_misp
    BY DEF ItemOf
  <2> QED
    BY <1>3, <2>1
<1>5. \A k \in 0 .. n : HeadEntry(k).complete
  BY <1>4 DEF InOrder!MayRetire
<1>6. ASSUME NEW k \in 0 .. n, k < n PROVE ~Redirects(HeadEntry(k))
  <2>1. k + 1 \in 1 .. ((n + 1) - 1)
    <3> HIDE DEF n
    <3> QED
      BY <1>1, <1>6
  <2>2. ~InOrder!ItemRedirects(Window[k + 1])
    BY <2>1 DEF InOrder!MayRetire
  <2> QED
    BY <1>4, <2>2, Zenon DEF InOrder!ItemRedirects, Redirects
<1>7. ASSUME NEW k \in 0 .. n PROVE br_mask(k)
  <2> SUFFICES ASSUME NEW i \in 0 .. k, NEW j \in 0 .. k,
                      HeadEntry(i).inst \in BranchInst, HeadEntry(j).inst \in BranchInst
               PROVE  i = j
    BY Zenon DEF br_mask
  <2>1. i \in 0 .. n /\ j \in 0 .. n
    <3> HIDE DEF n
    <3> QED
      BY <1>1
  <2>2. /\ i + 1 \in 1 .. (n + 1) /\ Window[i + 1].inst \in BranchInst
        /\ j + 1 \in 1 .. (n + 1) /\ Window[j + 1].inst \in BranchInst
    BY <1>4, <2>1
  <2>3. i + 1 = j + 1
    BY <2>2 DEF InOrder!MayRetire
  <2> QED
    BY <2>3
<1> HIDE DEF n
<1> QED
  BY <1>2, <1>4, <1>5, <1>6, <1>7 DEF retire_en

\* The retired group after a cycle is the beginning of the window before it.
LEMMA RetiresBeginning ==
  ASSUME IInv, WindowIsSequence, RetiredIsSequence', NEW w, Cycle(w)
  PROVE  RetiredSeq' = SubSeq(Window, 1, retire_en_cnt)
<1> DEFINE n == retire_en_cnt
<1>1. n \in 0 .. MACHINE_WIDTH /\ n \in Int /\ n <= Occupancy /\ Occupancy \in Nat
  BY CountsFit, DepthAssumption
<1>2. /\ RetiredSeq' \in Seq(Item) /\ Len(RetiredSeq') = n
      /\ \A k \in 1 .. n : RetiredSeq'[k] =
           [inst |-> retire_pkt[k - 1].inst, complete |-> TRUE,
            branch_misp |-> retire_pkt[k - 1].branch_misp]
  BY RetiredNext DEF RetiredIsSequence, Cycle
<1>3. ASSUME NEW k \in 1 .. n PROVE RetiredSeq'[k] = Window[k] /\ Window[k] \in Item
  <2>1. /\ k - 1 \in Lane /\ retire_en(k - 1)
        /\ Window[k] = ItemOf(HeadEntry(k - 1)) /\ HeadEntry(k - 1).complete
    BY MayRetireCount
  <2>2. /\ retire_pkt[k - 1].inst = HeadEntry(k - 1).inst
        /\ retire_pkt[k - 1].branch_misp = HeadEntry(k - 1).branch_misp
    BY <2>1 DEF retire_pkt
  <2>3. Window[k] \in Item
    <3>1. k \in 1 .. Occupancy
      BY <1>1
    <3> QED
      BY <3>1 DEF WindowIsSequence
  <2>4. HeadEntry(k - 1).complete = TRUE
    <3>1. HeadEntry(k - 1).complete \in BOOLEAN
      BY <2>1, <2>3 DEF ItemOf, Item
    <3> QED
      BY <2>1, <3>1
  <2> QED
    BY <1>2, <2>1, <2>2, <2>3, <2>4 DEF ItemOf
<1>4. \A i \in 1 .. n : Window[i] \in Item
  BY <1>3
<1> DEFINE s == SubSeq(Window, 1, n)
<1>5. /\ s \in Seq(Item)
      /\ Len(s) = n
      /\ \A i \in 1 .. n : s[i] = Window[i]
  <2>1. /\ s \in Seq(Item)
        /\ Len(s) = IF 1 <= n THEN n - 1 + 1 ELSE 0
        /\ \A i \in 1 .. n - 1 + 1 : s[i] = Window[1 + i - 1]
    <3> HIDE DEF n
    <3> QED
      BY <1>1, <1>4, SubSeqProperties
  <2>2. n - 1 + 1 = n /\ \A i \in 1 .. n : 1 + i - 1 = i
    BY <1>1
  <2> HIDE DEF n, s
  <2> QED
    BY <1>1, <2>1, <2>2, DepthAssumption
<1> HIDE DEF s, n
<1>6. RetiredSeq' = s
  BY <1>2, <1>3, <1>5, SeqEqual
<1> QED
  BY <1>6 DEF s, n

\* The occupancy loses what retires and gains what is dispatched.
LEMMA NextCounts ==
  ASSUME IInv, NEW w, Cycle(w)
  PROVE  /\ Occupancy' = Occupancy - retire_en_cnt + dispatch_pkt_cnt
         /\ head_ptr' = Wrap(head_ptr + retire_en_cnt)
<1> DEFINE D == ROB_DEPTH
           h == head_ptr
           t == tail_ptr
           n == retire_en_cnt
           m == dispatch_pkt_cnt
<1>1. /\ D \in Nat /\ h \in 0 .. (D - 1) /\ t \in 0 .. (D - 1)
      /\ head_position_bit \in {0, 1} /\ tail_position_bit \in {0, 1}
  BY DepthAssumption DEF IInv, TypeOK, Slot
<1>2. /\ n \in 0 .. D /\ m \in 0 .. D /\ n <= Occupancy /\ Occupancy + m <= D
  BY CountsFit, DepthAssumption
<1>3. /\ head_ptr' = Wrap(h + n)
      /\ tail_ptr' = Wrap(t + m)
      /\ head_position_bit' = IF h + n >= D THEN 1 - head_position_bit
                                            ELSE head_position_bit
      /\ tail_position_bit' = IF t + m >= D THEN 1 - tail_position_bit
                                            ELSE tail_position_bit
  BY NextPointers DEF Cycle
<1>4. IF head_position_bit = tail_position_bit THEN h <= t ELSE t <= h
  BY DEF IInv, PointerOrder
<1> HIDE DEF n, m
<1>5. Occupancy' = Occupancy - n + m
  BY <1>1, <1>2, <1>3, <1>4 DEF Occupancy, Wrap
<1> QED
  BY <1>3, <1>5 DEF n, m

\* Seen from the head after the cycle, a slot is nearer by what retired.
LEMMA NearerByRetired ==
  ASSUME NEW h \in Slot, NEW n \in 0 .. ROB_DEPTH, NEW k \in 1 .. ROB_DEPTH
  PROVE  LET j == Wrap(Wrap(h + n) + k - 1)
         IN  /\ j \in Slot
             /\ n + k <= ROB_DEPTH => j = Wrap(h + (n + k) - 1)
             /\ Wrap(j + ROB_DEPTH - h) = IF n + k <= ROB_DEPTH THEN n + k - 1
                                                                ELSE n + k - 1 - ROB_DEPTH
BY DepthAssumption DEF Slot, Wrap

\* An instruction that does not retire keeps its slot, its identity and, once it
\* is complete, its result.
LEMMA KeptItem ==
  ASSUME IInv, MispInv, WindowIsSequence, WindowIsSequence',
         NEW w \in Writeback, Cycle(w),
         NEW k \in 1 .. (Occupancy - retire_en_cnt)
  PROVE  InOrder!Progresses(Window[retire_en_cnt + k], Window'[k])
<1> DEFINE n == retire_en_cnt
           i == Wrap(head_ptr + (n + k) - 1)
           x == rob_entry[i]
           y == NextEntry(i, w)
<1>1. /\ n \in 0 .. ROB_DEPTH /\ Occupancy \in 0 .. ROB_DEPTH /\ k \in 1 .. ROB_DEPTH
      /\ n + k \in 1 .. Occupancy /\ k \in 1 .. Occupancy' /\ head_ptr \in Slot
      /\ n + k <= ROB_DEPTH
  <2>1. /\ n \in 0 .. MACHINE_WIDTH /\ dispatch_pkt_cnt \in 0 .. MACHINE_WIDTH
        /\ Occupancy \in 0 .. ROB_DEPTH /\ n <= Occupancy
        /\ Occupancy' = Occupancy - n + dispatch_pkt_cnt
    BY CountsFit, NextCounts
  <2>2. k \in 1 .. (Occupancy - n) /\ head_ptr \in Slot
    BY DEF IInv, TypeOK
  <2> HIDE DEF n
  <2> QED
    BY <2>1, <2>2, DepthAssumption
<1>2. /\ i \in Slot /\ Age(i) = (n + k) - 1 /\ x.valid
      /\ Window[n + k] = ItemOf(x)
  <2> HIDE DEF n
  <2> QED
    BY <1>1 DEF WindowIsSequence
<1>3. Window'[k] = ItemOf(y)
  <2>1. Wrap(head_ptr' + k - 1) = i
    <3>1. head_ptr' = Wrap(head_ptr + n)
      BY NextCounts
    <3> HIDE DEF n
    <3> QED
      BY <1>1, <3>1, NearerByRetired
  <2>2. rob_entry'[i] = y
    BY <1>2 DEF Cycle
  <2>3. Window'[k] = ItemOf(rob_entry'[Wrap(head_ptr' + k - 1)])
    BY <1>1 DEF WindowIsSequence, ItemOf
  <2> QED
    BY <2>1, <2>2, <2>3
<1>4. i \notin RetireSlot /\ AllocLane(i) = {}
  <2>1. ~(Age(i) < n)
    <3> HIDE DEF n, i
    <3> QED
      BY <1>1, <1>2
  <2> QED
    BY <1>2, <2>1, RetiringSlots, ValidNotWritten DEF IInv
<1>5. x \in RobEntry
  BY <1>2 DEF IInv, TypeOK
<1>6. x.complete => y = x
  BY <1>2, <1>4, CompletedStays
<1>7. y.inst = x.inst
  <2>1. CASE x.complete
    BY <1>6, <2>1
  <2>2. CASE ~x.complete
    <3> DEFINE c == i \in w.done
               b == w.misp /\ WbBranch(w, i)
    <3>1. c \in BOOLEAN /\ b \in BOOLEAN
      BY DEF WbBranch, Writeback
    <3>2. y = [x EXCEPT !.complete = c, !.branch_misp = b]
      BY <1>2, <1>4, <2>2 DEF NextEntry
    <3> HIDE DEF b, c, x, y
    <3> QED
      BY <1>2, <1>5, <3>1, <3>2, UpdatedFields
  <2> QED
    BY <2>1, <2>2
<1>8. ASSUME y.branch_misp PROVE y.complete /\ (x.complete \/ y.inst \in BranchInst)
  <2>1. /\ y.complete
        /\ \/ w.misp /\ WbBranch(w, i)
           \/ x.branch_misp /\ y = x
    BY <1>2, <1>8, NextMisp DEF MispInv
  <2>2. WbBranch(w, i) => x.inst \in BranchInst
    BY DEF WbBranch
  <2>3. x.branch_misp => x.complete
    BY <1>2 DEF MispInv, MispSettled
  <2> HIDE DEF x, y, i
  <2> QED
    BY <1>7, <2>1, <2>2, <2>3
<1>9. \A e : /\ ItemOf(e).inst = e.inst /\ ItemOf(e).complete = e.complete
             /\ ItemOf(e).branch_misp = e.branch_misp
  BY DEF ItemOf
<1> HIDE DEF x, y, i
<1>10. /\ Window[n + k].inst = x.inst /\ Window[n + k].complete = x.complete
       /\ Window'[k].inst = y.inst /\ Window'[k].complete = y.complete
       /\ Window'[k].branch_misp = y.branch_misp
       /\ x = y => Window'[k] = Window[n + k]
  BY <1>2, <1>3, <1>9, Zenon
<1> QED
  BY <1>6, <1>7, <1>8, <1>10, Zenon DEF InOrder!Progresses

\* What is behind the instructions kept has just been dispatched.
LEMMA NewItem ==
  ASSUME IInv, MispInv, WindowIsSequence',
         NEW w \in Writeback, Cycle(w),
         NEW k \in (Occupancy - retire_en_cnt + 1) .. Occupancy'
  PROVE  Window'[k] \in Item /\ ~Window'[k].branch_misp
<1> DEFINE n == retire_en_cnt
           j == Wrap(head_ptr' + k - 1)
<1>1. /\ n \in 0 .. ROB_DEPTH /\ Occupancy \in 0 .. ROB_DEPTH
      /\ n <= Occupancy /\ k \in 1 .. Occupancy' /\ k \in 1 .. ROB_DEPTH
      /\ n + k > Occupancy /\ head_ptr \in Slot
  <2>1. /\ n \in 0 .. MACHINE_WIDTH /\ Occupancy \in 0 .. ROB_DEPTH /\ n <= Occupancy
        /\ Occupancy' \in 0 .. ROB_DEPTH
    BY CountsFit DEF WindowIsSequence
  <2>2. k \in (Occupancy - n + 1) .. Occupancy' /\ head_ptr \in Slot
    BY DEF IInv, TypeOK
  <2> HIDE DEF n
  <2> QED
    BY <2>1, <2>2, DepthAssumption
<1>2. Window'[k] = ItemOf(rob_entry'[j]) /\ ItemOf(rob_entry'[j]) \in Item /\ j \in Slot
  BY <1>1 DEF WindowIsSequence, ItemOf, Item
<1>3. Age(j) = IF n + k <= ROB_DEPTH THEN n + k - 1 ELSE n + k - 1 - ROB_DEPTH
  <2>1. head_ptr' = Wrap(head_ptr + n)
    BY NextCounts
  <2> HIDE DEF n
  <2> QED
    BY <1>1, <2>1, NearerByRetired DEF Age
<1>4. ~(Age(j) >= n /\ Age(j) < Occupancy)
  <2> HIDE DEF n, j
  <2> QED
    BY <1>1, <1>3, DepthAssumption
<1>5. ASSUME rob_entry'[j].branch_misp PROVE FALSE
  <2>1. NextEntry(j, w).branch_misp
    BY <1>2, <1>5 DEF Cycle
  <2>2. rob_entry[j].valid
    BY <1>2, <2>1, NextMisp, WrittenBack DEF MispInv, MispSettled
  <2>3. j \notin RetireSlot
    BY <1>2, <2>1, <2>2, ValidNotWritten DEF NextEntry, EmptyEntry
  <2>4. Age(j) < Occupancy /\ Age(j) \in Int /\ ~(Age(j) < n)
    BY <1>2, <2>2, <2>3, RetiringSlots, WindowByAge, DepthAssumption
       DEF IInv, ValidExactlyWindow, Slot
  <2> HIDE DEF n, j
  <2> QED
    BY <1>1, <1>4, <2>4
<1>6. ItemOf(rob_entry'[j]).branch_misp = rob_entry'[j].branch_misp
  BY DEF ItemOf
<1> QED
  BY <1>2, <1>5, <1>6

\* A cycle is a step of the abstract window.
LEMMA CycleAdvances ==
  ASSUME IInv, MispInv, WindowIsSequence, WindowIsSequence',
         RetiredIsSequence, RetiredIsSequence',
         NEW w \in Writeback, Cycle(w)
  PROVE  InOrder!Advance
<1>1. /\ retire_en_cnt \in 0 .. Len(Window) /\ retire_en_cnt <= MACHINE_WIDTH
      /\ dispatch_pkt_cnt \in 0 .. MACHINE_WIDTH
      /\ Len(Window) = Occupancy /\ Len(Window)' = Occupancy'
      /\ Len(Window)' = Len(Window) - retire_en_cnt + dispatch_pkt_cnt
      /\ Len(Window)' <= ROB_DEPTH
  <2>1. /\ Len(Window) = Occupancy /\ Len(Window)' = Occupancy'
        /\ Occupancy' \in 0 .. ROB_DEPTH
    BY DEF WindowIsSequence
  <2> QED
    BY <2>1, CountsFit, NextCounts, DepthAssumption
<1>2. ~InOrder!Flushing
  BY FlushingIs DEF Cycle
<1>3. /\ InOrder!MayRetire(retire_en_cnt)
      /\ retire_en_cnt < MACHINE_WIDTH /\ retire_en_cnt < Len(Window)
           => ~InOrder!MayRetire(retire_en_cnt + 1)
  BY MayRetireCount, RetiresLongest
<1>4. RetiredSeq' = SubSeq(Window, 1, retire_en_cnt)
  BY RetiresBeginning
<1>5. \A k \in 1 .. (Len(Window) - retire_en_cnt) :
        InOrder!Progresses(Window[retire_en_cnt + k], Window'[k])
  BY <1>1, KeptItem
<1>6. \A k \in (Len(Window) - retire_en_cnt + 1) .. Len(Window)' :
        Window'[k] \in Item /\ ~Window'[k].branch_misp
  BY <1>1, NewItem
<1>7. InOrder!Item = Item
  BY DEF InOrder!Item, Item
<1>8. UNCHANGED sys_exception
  BY DEF Cycle
<1> QED
  BY <1>1, <1>2, <1>3, <1>4, <1>5, <1>6, <1>7, <1>8 DEF InOrder!Advance

\* The cycle of a flush empties both sequences.
LEMMA FlushSquashes ==
  ASSUME RetiredIsSequence, WindowIsSequence', RetiredIsSequence', FlushCycle
  PROVE  InOrder!Squash
<1>1. Occupancy' = 0
  BY DEF FlushCycle, Occupancy
<1>2. Window' = <<>>
  BY <1>1, EmptySeq DEF WindowIsSequence
<1>3. RetiredCount' = 0
  <2>1. {k \in Lane : Retired(k)'} = {}
    BY DEF FlushCycle, Retired
  <2> QED
    BY <2>1, FS_EmptySet DEF RetiredCount
<1>4. RetiredSeq' = <<>>
  BY <1>3, EmptySeq DEF RetiredIsSequence
<1>5. InOrder!Flushing
  BY FlushingIs DEF FlushCycle
<1>6. sys_exception' = (sys_exception
                         \/ \E k \in 1 .. Len(RetiredSeq) : RetiredSeq[k].inst \in HaltInst)
  BY FlushingIs DEF FlushCycle
<1> QED
  BY <1>2, <1>4, <1>5, <1>6 DEF InOrder!Squash

---------------------------------------------------------------------------
(* The refinement *)

\* What every step relies on.
Facts == IInv /\ MispInv /\ WindowIsSequence /\ RetiredIsSequence

\* The lanes retired are always the first ones.
LEMMA PrefixInductive == Spec => []RetiredPrefix
<1>1. Init => RetiredPrefix
  BY DEF Init, RetiredPrefix, Retired
<1>2. IInv /\ RetiredPrefix /\ [Next]_vars => RetiredPrefix'
  <2> SUFFICES ASSUME IInv, RetiredPrefix, [Next]_vars PROVE RetiredPrefix'
    OBVIOUS
  <2>1. CASE FlushCycle
    BY <2>1 DEF FlushCycle, RetiredPrefix, Retired
  <2>2. ASSUME NEW w \in Writeback, Cycle(w)
        PROVE  RetiredPrefix'
    BY <2>2, CycleKeepsPrefix
  <2>3. CASE UNCHANGED vars
    BY <2>3 DEF vars, RetiredPrefix, Retired
  <2> QED
    BY <2>1, <2>2, <2>3 DEF Next
<1> QED
  BY <1>1, <1>2, Inductive, PTL DEF Spec

\* They hold in every reachable state.
LEMMA FactsHold == Spec => []Facts
<1>1. IInv /\ MispInv /\ RetiredPrefix => Facts
  BY WindowIs, RetiredIs DEF IInv, Facts
<1> QED
  BY <1>1, Inductive, PrefixInductive, RedirectInductive, PTL

\* At reset both sequences are empty.
LEMMA InitRefines == Init => InOrder!WInit
<1> SUFFICES ASSUME Init PROVE InOrder!WInit
  OBVIOUS
<1>1. IInv /\ RetiredPrefix
  BY InitIInv DEF Init, RetiredPrefix, Retired
<1>2. WindowIsSequence /\ RetiredIsSequence
  BY <1>1, WindowIs, RetiredIs DEF IInv
<1>3. Occupancy = 0
  BY DEF Init, Occupancy
<1>4. RetiredCount = 0
  <2>1. {k \in Lane : Retired(k)} = {}
    BY DEF Init, Retired
  <2> QED
    BY <2>1, FS_EmptySet DEF RetiredCount
<1>5. Window = <<>> /\ RetiredSeq = <<>>
  BY <1>2, <1>3, <1>4, EmptySeq DEF WindowIsSequence, RetiredIsSequence
<1> QED
  BY <1>5 DEF Init, InOrder!WInit

\* Every step of the reorder buffer is one of the abstract window, or leaves both
\* sequences as they are.
LEMMA StepRefines ==
  Facts /\ Facts' /\ [Next]_vars => [InOrder!WNext]_(InOrder!wvars)
<1> SUFFICES ASSUME Facts, Facts', [Next]_vars
             PROVE  InOrder!WNext \/ UNCHANGED InOrder!wvars
  OBVIOUS
<1>1. CASE FlushCycle
  BY <1>1, FlushSquashes DEF Facts, InOrder!WNext
<1>2. ASSUME NEW w \in Writeback, Cycle(w)
      PROVE  InOrder!WNext
  BY <1>2, CycleAdvances DEF Facts, InOrder!WNext
<1>3. CASE UNCHANGED vars
  BY <1>3 DEF vars, InOrder!wvars, Window, Occupancy, HeadEntry, RetiredSeq,
              RetiredCount, Retired
<1> QED
  BY <1>1, <1>2, <1>3 DEF Next

\* For every depth, width and program, the reorder buffer (ROB.sv:126-277) with the
\* backend's flush (backend.sv:609-641) implements the in-order window: it retires
\* a completed prefix of the program order that ends at an instruction which
\* redirects the pipeline, keeps the rest in order with their results, and lets
\* nothing younger than a redirecting instruction survive the cycle after it.
THEOREM RefinesWindow == Spec => ImplementsInOrderWindow
BY InitRefines, StepRefines, FactsHold, PTL
   DEF Spec, ImplementsInOrderWindow, InOrder!WSpec
============================================================================
