--------------------------- MODULE ReorderBuffer ---------------------------
(***************************************************************************)
(* The reorder buffer (verilog/ROB.sv) between the two pipeline registers  *)
(* of verilog/backend.sv that surround it: pipe_rename_pkt, the group      *)
(* renamed in the previous cycle that is dispatched in this one, and       *)
(* pipe_retire_pkt, the group retired in the previous cycle, from which    *)
(* pipe_flush is derived.                                                  *)
(*                                                                         *)
(* One step is one clock cycle: every register takes the value its always  *)
(* block computes from the values before the edge.  The renamed group and  *)
(* the functional units that write back are the environment's choices.     *)
(* An instruction stands for its whole decoded packet; a redirect pc is    *)
(* represented by the branch instruction that computed it.                 *)
(***************************************************************************)
EXTENDS Integers, FiniteSets

CONSTANTS
  ROB_DEPTH,      \* number of entries, a power of two in the code
  MACHINE_WIDTH,  \* lanes of a dispatched or retired group
  ISSUE_WIDTH,    \* results that can be written back in one cycle
  Inst,           \* decoded instructions
  BranchInst,     \* cond_branch | uncond_branch
  NopInst,        \* inst == `NOP
  HaltInst,       \* halt or illegal: exception != NO_ERROR
  NoInst          \* packet_valid = 0

ASSUME DepthAssumption ==
  /\ MACHINE_WIDTH \in Nat \ {0}
  /\ ISSUE_WIDTH \in Nat \ {0}
  /\ ROB_DEPTH \in Nat
  /\ ROB_DEPTH >= 2 * MACHINE_WIDTH

ASSUME InstAssumption ==
  /\ BranchInst \subseteq Inst
  /\ NopInst \subseteq Inst \ BranchInst
  /\ HaltInst \subseteq Inst \ (BranchInst \cup NopInst)
  /\ NoInst \notin Inst

VARIABLES
  rob_entry,          \* the entries, and the position bit of the tag each carries
  head_ptr, tail_ptr,
  head_position_bit, tail_position_bit,
  branch_misp,        \* an unretired mispredicted branch is known
  misp_rob,           \* its rob tag
  redirect_pc,        \* the branch whose target is the next pc
  pipe_rename_pkt,    \* lane -> instruction to dispatch in this cycle
  pipe_retire_pkt,    \* lane -> instruction retired in the previous cycle
  sys_exception       \* the machine has halted

vars == <<rob_entry, head_ptr, tail_ptr, head_position_bit, tail_position_bit,
          branch_misp, misp_rob, redirect_pc, pipe_rename_pkt,
          pipe_retire_pkt, sys_exception>>

Slot == 0 .. (ROB_DEPTH - 1)
Lane == 0 .. (MACHINE_WIDTH - 1)

RobTag == [pos : {0, 1}, ptr : Slot]

EmptyEntry == [valid |-> FALSE, inst |-> NoInst, complete |-> FALSE,
               branch_misp |-> FALSE, pos |-> 0]

RobEntry == [valid : {TRUE}, inst : Inst, complete : BOOLEAN,
             branch_misp : BOOLEAN, pos : {0, 1}] \cup {EmptyEntry}

\* redirect_pc is only read together with branch_misp.
RetirePkt == [inst : Inst, branch_misp : BOOLEAN, redirect_pc : Inst \cup {NoInst}]

\* packet_valid = 0
NoPkt == [inst |-> NoInst, branch_misp |-> FALSE, redirect_pc |-> NoInst]

NoGroup == [l \in Lane |-> NoInst]

\* The valid lanes of a group are contiguous: 1111, 0111, .., 1110, 0110, ..
Contiguous(g) ==
  \A a, b, c \in Lane : a <= b /\ b <= c /\ g[a] # NoInst /\ g[c] # NoInst
                          => g[b] # NoInst

RenameGroup == {g \in [Lane -> Inst \cup {NoInst}] : Contiguous(g)}

---------------------------------------------------------------------------
(* Pointer arithmetic: a pointer register truncates to its width.  The sums *)
(* formed are below 2 * ROB_DEPTH, so truncation subtracts the depth once.  *)

\* Mutant of Wrap: one past the last entry is not wrapped.
WrapLate(x) == IF x > ROB_DEPTH THEN x - ROB_DEPTH ELSE x

Wrap(x) == IF x >= ROB_DEPTH THEN x - ROB_DEPTH ELSE x

\* ptr lies in the last group of entries and the next pointer's top bit is 0.
Overflow(ptr, next) == ptr >= ROB_DEPTH - MACHINE_WIDTH /\ 2 * next < ROB_DEPTH

NextPositionBit(bit, ptr, next) == IF Overflow(ptr, next) THEN 1 - bit ELSE bit

---------------------------------------------------------------------------
(* Retirement, from the head *)

HeadEntry(k) == rob_entry[Wrap(head_ptr + k)]

\* Mutant of br_mask: branches are not counted.
AnyBranches(k) == k = k

\* At most one branch among the first k + 1 entries.
br_mask(k) ==
  \A i, j \in 0 .. k :
    HeadEntry(i).inst \in BranchInst /\ HeadEntry(j).inst \in BranchInst => i = j

Redirects(e) == e.branch_misp \/ e.inst \in HaltInst

\* Mutant of retire_en: a redirecting entry does not end the retired group.
RetiresPastRedirect(k) ==
  \A j \in 0 .. k : HeadEntry(j).valid /\ HeadEntry(j).complete /\ br_mask(j)

retire_en(k) ==
  \A j \in 0 .. k : /\ HeadEntry(j).valid
                    /\ HeadEntry(j).complete
                    /\ br_mask(j)
                    /\ j < k => ~Redirects(HeadEntry(j))

retire_en_cnt == Cardinality({k \in Lane : retire_en(k)})

next_head_ptr == Wrap(head_ptr + retire_en_cnt)

next_head_position_bit ==
  NextPositionBit(head_position_bit, head_ptr, next_head_ptr)

retire_pkt ==
  [k \in Lane |->
     IF retire_en(k)
       THEN [inst        |-> HeadEntry(k).inst,
             branch_misp |-> HeadEntry(k).branch_misp,
             redirect_pc |-> IF HeadEntry(k).branch_misp THEN redirect_pc ELSE NoInst]
       ELSE NoPkt]

---------------------------------------------------------------------------
(* Dispatch, at the tail *)

ValidLane == {l \in Lane : pipe_rename_pkt[l] # NoInst}

dispatch_pkt_cnt == Cardinality(ValidLane)

next_tail_ptr == Wrap(tail_ptr + dispatch_pkt_cnt)

next_tail_position_bit ==
  NextPositionBit(tail_position_bit, tail_ptr, next_tail_ptr)

\* The first valid lane takes the tail entry, the next lanes those behind it.
FirstLane == CHOOSE l \in ValidLane : \A m \in ValidLane : l <= m

\* Mutant of dispatch_pkt_resp: the lanes behind the wrap keep the old bit.
TagWithoutFlip(l) ==
  [pos |-> tail_position_bit, ptr |-> Wrap(tail_ptr + (l - FirstLane))]

\* dispatch_pkt_resp[l]: the tag given to lane l.
dispatch_pkt_resp(l) ==
  LET ptr == Wrap(tail_ptr + (l - FirstLane))
  IN  [pos |-> IF Overflow(tail_ptr, next_tail_ptr) /\ ptr < MACHINE_WIDTH
                 THEN 1 - tail_position_bit ELSE tail_position_bit,
       ptr |-> ptr]

\* A halt, an illegal instruction and a nop need no functional unit.
dispatch_2_rob(l) ==
  [valid       |-> TRUE,
   inst        |-> pipe_rename_pkt[l],
   complete    |-> pipe_rename_pkt[l] \in NopInst \cup HaltInst,
   branch_misp |-> FALSE,
   pos         |-> dispatch_pkt_resp(l).pos]

\* Mutant of FreeAfter: the group dispatched in this cycle is not counted.
FreeBeforeDispatch ==
  IF next_head_position_bit = tail_position_bit
    THEN next_head_ptr + ROB_DEPTH - tail_ptr
    ELSE next_head_ptr - tail_ptr

FreeAfter ==
  IF next_head_position_bit = next_tail_position_bit
    THEN next_head_ptr + ROB_DEPTH - next_tail_ptr
    ELSE next_head_ptr - next_tail_ptr

dispatch_pkt_ready(k) == ~branch_misp /\ FreeAfter > k

---------------------------------------------------------------------------
(* Backend control derived from pipe_retire_pkt *)

Retired(k) == pipe_retire_pkt[k] # NoPkt

retire_exception == \E k \in Lane : Retired(k) /\ pipe_retire_pkt[k].inst \in HaltInst

\* Mutant of retire_br_misp: only the first lane is looked at.
FirstLaneMisp == Retired(0) /\ pipe_retire_pkt[0].branch_misp

retire_br_misp == \E k \in Lane : Retired(k) /\ pipe_retire_pkt[k].branch_misp

\* The first lane with a mispredicted branch drives the front end.
retire_redirect_pc ==
  LET misp == {k \in Lane : Retired(k) /\ pipe_retire_pkt[k].branch_misp}
  IN  pipe_retire_pkt[CHOOSE k \in misp : \A m \in misp : k <= m].redirect_pc

pipe_flush == retire_br_misp \/ retire_exception

rename_pkt_ready ==
  ~sys_exception /\ ~retire_exception /\ \A k \in Lane : dispatch_pkt_ready(k)

\* The group the rename/dispatch register loads: whatever was renamed when
\* every lane is ready, nothing otherwise.
AcceptedGroup == IF rename_pkt_ready THEN RenameGroup ELSE {NoGroup}

---------------------------------------------------------------------------
(* One clock cycle *)

\* Instructions held in the reservation stations and functional units.
InFlight == {i \in Slot : rob_entry[i].valid /\ ~rob_entry[i].complete}

\* The result buses of one cycle: one of them, the branch unit's, can carry a
\* branch and its misprediction flag.
Writeback ==
  {w \in [done : SUBSET InFlight, misp : BOOLEAN] :
     /\ Cardinality(w.done) <= ISSUE_WIDTH
     /\ \A i, j \in w.done :
          rob_entry[i].inst \in BranchInst /\ rob_entry[j].inst \in BranchInst => i = j
     /\ w.misp => \E i \in w.done : rob_entry[i].inst \in BranchInst}

WbBranch(w, i) == i \in w.done /\ rob_entry[i].inst \in BranchInst

\* The lane, if any, whose instruction is written into entry i.
AllocLane(i) == {l \in ValidLane : dispatch_pkt_resp(l).ptr = i}

RetireSlot == {Wrap(head_ptr + k) : k \in {j \in Lane : retire_en(j)}}

\* Mutant of NextEntry: a mispredicted branch is flagged but not completed.
MispNotComplete(i, w) ==
  LET e == rob_entry[i]
  IN  IF AllocLane(i) # {} THEN dispatch_2_rob(CHOOSE l \in AllocLane(i) : TRUE)
      ELSE IF i \in RetireSlot THEN EmptyEntry
      ELSE IF e.valid /\ ~e.complete
        THEN [e EXCEPT !.complete = i \in w.done /\ ~(w.misp /\ WbBranch(w, i)),
                       !.branch_misp = w.misp /\ WbBranch(w, i)]
      ELSE e

\* The fields of an entry that is not valid are never read: a retired entry is
\* represented by EmptyEntry.
NextEntry(i, w) ==
  LET e == rob_entry[i]
  IN  IF AllocLane(i) # {}
        THEN dispatch_2_rob(CHOOSE l \in AllocLane(i) : TRUE)
      ELSE IF i \in RetireSlot
        THEN EmptyEntry
      ELSE IF e.valid /\ ~e.complete
        THEN [e EXCEPT !.complete = i \in w.done,
                       !.branch_misp = w.misp /\ WbBranch(w, i)]
      ELSE e

\* Tag a belongs to an older instruction than tag b.
Older(a, b) == \/ a.pos = b.pos /\ a.ptr < b.ptr
               \/ a.pos # b.pos /\ a.ptr > b.ptr

\* Mutant of RecordMisp: the first misprediction written back is kept, which
\* need not be the oldest.
RecordFirstMisp(w) ==
  IF w.misp /\ ~branch_misp
    THEN \E i \in {s \in Slot : WbBranch(w, s)} :
           /\ branch_misp' = TRUE
           /\ misp_rob' = [pos |-> rob_entry[i].pos, ptr |-> i]
           /\ redirect_pc' = rob_entry[i].inst
    ELSE UNCHANGED <<branch_misp, misp_rob, redirect_pc>>

\* Keep the oldest misprediction known.
RecordMisp(w) ==
  \/ /\ ~w.misp
     /\ UNCHANGED <<branch_misp, misp_rob, redirect_pc>>
  \/ /\ w.misp
     /\ \E i \in {s \in Slot : WbBranch(w, s)} :
          LET tag == [pos |-> rob_entry[i].pos, ptr |-> i]
          IN  IF ~branch_misp \/ Older(tag, misp_rob)
                THEN /\ branch_misp' = TRUE
                     /\ misp_rob' = tag
                     /\ redirect_pc' = rob_entry[i].inst
                ELSE UNCHANGED <<branch_misp, misp_rob, redirect_pc>>

Cycle(w) ==
  /\ ~pipe_flush
  /\ head_ptr' = next_head_ptr
  /\ tail_ptr' = next_tail_ptr
  /\ head_position_bit' = next_head_position_bit
  /\ tail_position_bit' = next_tail_position_bit
  /\ rob_entry' = [i \in Slot |-> NextEntry(i, w)]
  /\ RecordMisp(w)
  /\ pipe_retire_pkt' = retire_pkt
  /\ pipe_rename_pkt' \in AcceptedGroup
  /\ UNCHANGED sys_exception

FlushCycle ==
  /\ pipe_flush
  /\ head_ptr' = 0
  /\ tail_ptr' = 0
  /\ head_position_bit' = 0
  /\ tail_position_bit' = 0
  /\ rob_entry' = [i \in Slot |-> EmptyEntry]
  /\ branch_misp' = FALSE
  /\ misp_rob' = [pos |-> 0, ptr |-> 0]
  /\ redirect_pc' = NoInst
  /\ pipe_retire_pkt' = [k \in Lane |-> NoPkt]
  /\ pipe_rename_pkt' = NoGroup
  /\ sys_exception' = (sys_exception \/ retire_exception)

Init ==
  /\ rob_entry = [i \in Slot |-> EmptyEntry]
  /\ head_ptr = 0
  /\ tail_ptr = 0
  /\ head_position_bit = 0
  /\ tail_position_bit = 0
  /\ branch_misp = FALSE
  /\ misp_rob = [pos |-> 0, ptr |-> 0]
  /\ redirect_pc = NoInst
  /\ pipe_rename_pkt = NoGroup
  /\ pipe_retire_pkt = [k \in Lane |-> NoPkt]
  /\ sys_exception = FALSE

Next ==
  \/ FlushCycle
  \/ \E w \in Writeback : Cycle(w)

Spec == Init /\ [][Next]_vars

TypeOK ==
  /\ rob_entry \in [Slot -> RobEntry]
  /\ head_ptr \in Slot
  /\ tail_ptr \in Slot
  /\ head_position_bit \in {0, 1}
  /\ tail_position_bit \in {0, 1}
  /\ branch_misp \in BOOLEAN
  /\ misp_rob \in RobTag
  /\ redirect_pc \in Inst \cup {NoInst}
  /\ pipe_rename_pkt \in RenameGroup
  /\ pipe_retire_pkt \in [Lane -> RetirePkt \cup {NoPkt}]
  /\ sys_exception \in BOOLEAN

---------------------------------------------------------------------------
(* Properties *)

Occupancy ==
  IF head_position_bit = tail_position_bit
    THEN tail_ptr - head_ptr
    ELSE tail_ptr - head_ptr + ROB_DEPTH

InWindow(i) ==
  IF head_position_bit = tail_position_bit
    THEN head_ptr <= i /\ i < tail_ptr
    ELSE head_ptr <= i \/ i < tail_ptr

\* The entries marked valid are exactly those from head_ptr up to tail_ptr: a
\* dispatched group never lands on a live entry and leaves no hole, although
\* readiness is granted a cycle before the group is written, from pointers
\* that still move in that cycle.
ValidExactlyWindow ==
  \A i \in Slot : rob_entry[i].valid <=> InWindow(i)

\* Distance of an entry from the head.
Age(i) == Wrap(i + ROB_DEPTH - head_ptr)

SlotTag(i) == [pos |-> rob_entry[i].pos, ptr |-> i]

\* The tags given out at dispatch, compared as ROB.sv and the reservation
\* stations compare them, order the instructions in flight by age, on both
\* sides of a pointer wrap.
TagsOrderByAge ==
  \A i, j \in Slot :
    rob_entry[i].valid /\ rob_entry[j].valid
      => (Older(SlotTag(i), SlotTag(j)) <=> Age(i) < Age(j))

\* When a mispredicted branch has retired, the pc sent to the front end is the
\* one that branch computed, whatever other, younger or older, branches wrote
\* back a misprediction in the meantime and in whatever order.
RedirectIsOfRetiredBranch ==
  \A k \in Lane : Retired(k) /\ pipe_retire_pkt[k].branch_misp
                    => retire_redirect_pc = pipe_retire_pkt[k].inst

\* The assertion asked for at the top of ROB.sv: at most one branch retires
\* per cycle.
OneBranchRetires ==
  \A j, k \in Lane :
    pipe_retire_pkt[j].inst \in BranchInst /\ pipe_retire_pkt[k].inst \in BranchInst
      => j = k

\* The reorder buffer implements the in-order window.
RetiredCount == Cardinality({k \in Lane : Retired(k)})

Window ==
  [k \in 1 .. Occupancy |->
     LET e == HeadEntry(k - 1)
     IN  [inst |-> e.inst, complete |-> e.complete, branch_misp |-> e.branch_misp]]

RetiredSeq ==
  [k \in 1 .. RetiredCount |->
     LET p == pipe_retire_pkt[k - 1]
     IN  [inst |-> p.inst, complete |-> TRUE, branch_misp |-> p.branch_misp]]

InOrder == INSTANCE RetireWindow
             WITH Capacity <- ROB_DEPTH, Width <- MACHINE_WIDTH,
                  window <- Window, retired <- RetiredSeq, halted <- sys_exception

\* Retirement is in program order, of completed instructions only, stops at an
\* instruction that redirects the pipeline, and nothing younger than it
\* survives the following cycle.
ImplementsInOrderWindow == InOrder!WSpec

---------------------------------------------------------------------------
(* Liveness: the clock ticks, and the oldest instruction, which waits for    *)
(* nothing but a functional unit, is written back sooner or later.           *)

\* A cycle in which the oldest instruction, if it waits for its result, gets
\* it: nothing else writes the entry of an instruction in flight.
OldestProgresses ==
  head_ptr \in InFlight /\ ~pipe_flush => rob_entry'[head_ptr] # rob_entry[head_ptr]

\* The clock ticks and changes nothing: no instruction is in the machine and
\* none is let in.
Idle ==
  /\ pipe_rename_pkt = NoGroup
  /\ ~Retired(0)
  /\ \A i \in Slot : ~rob_entry[i].valid
  /\ ~rename_pkt_ready

\* Weak fairness of these cycles: unless the machine idles, one of them can
\* always come next, and nothing keeps the result of the oldest back forever.
FairSpec == Spec /\ (<>[]~Idle => []<><<OldestProgresses>>_vars)

\* Every dispatched instruction leaves the buffer, retired or flushed.
EveryEntryLeaves ==
  \A i \in Slot : rob_entry[i].valid ~> ~rob_entry[i].valid

\* A recorded misprediction is followed by a flush, so that dispatch, which it
\* blocks, becomes possible again.
MispredictionFlushes == branch_misp ~> pipe_flush
============================================================================
