--------------------------- MODULE RegisterRename ---------------------------
(***************************************************************************)
(* Register renaming and its recovery: the speculative map (rat.sv), the   *)
(* free list (free_list.sv), the busy table (busy_table.sv) and the        *)
(* retirement map (arch_rat.sv), connected as in decode_rename.sv and      *)
(* backend.sv.  The reorder buffer between them is part of their           *)
(* environment: window stands for ROB.sv, and follows the rule of          *)
(* RetireWindow by construction.  That ROB.sv follows that rule is shown   *)
(* about the module ReorderBuffer, not here.                               *)
(*                                                                         *)
(* One step is one clock cycle.  Only one source operand is carried: the   *)
(* code for the second one is a copy.  An instruction that does not use a  *)
(* source (destination) register has register 0 there, as in the decoder.  *)
(***************************************************************************)
EXTENDS Integers, Sequences, FiniteSets, PselGen

CONSTANTS
  ARF_DEPTH,      \* architectural registers, register 0 is x0
  ROB_DEPTH,
  MACHINE_WIDTH,
  Decoded,        \* decoded instructions the front end delivers
  None            \* an empty lane: packet_valid = 0

ASSUME SizeAssumption ==
  /\ ARF_DEPTH \in Nat \ {0}
  /\ MACHINE_WIDTH \in Nat \ {0}
  /\ ROB_DEPTH \in Nat
  /\ ROB_DEPTH >= MACHINE_WIDTH

\* Mutant of PRF_DEPTH: no registers for the group between the reorder buffer
\* and the free list.
TightPrf == ARF_DEPTH + ROB_DEPTH

\* The extra registers cover the cycle between retirement in the reorder
\* buffer and the arrival of the freed registers in the free list.
PRF_DEPTH == ARF_DEPTH + ROB_DEPTH + MACHINE_WIDTH

Arn == 0 .. (ARF_DEPTH - 1)
Prn == 0 .. (PRF_DEPTH - 1)
Lane == 0 .. (MACHINE_WIDTH - 1)

Kind == {"op", "br", "halt"}

\* A halt or illegal instruction has no operands.
ASSUME DecodedAssumption ==
  /\ Decoded \subseteq [kind : Kind, src : Arn, dest : Arn]
  /\ \A d \in Decoded : d.kind = "halt" => d.src = 0 /\ d.dest = 0
  /\ None \notin Decoded

VARIABLES
  rat,              \* speculative map, architectural -> physical
  arch_rat,         \* the same for retired instructions
  free_list,        \* set of free physical registers
  busy_table,       \* set of physical registers whose value is pending
  pipe_rename_pkt,  \* lane -> renamed instruction, dispatched in this cycle
  window,           \* what the reorder buffer holds, oldest first
  pipe_retire_pkt,  \* instructions retired in the previous cycle
  branch_misp,      \* an unretired misprediction is known
  recov_arch_st,    \* the maps are restored in this cycle
  sys_exception     \* the machine has halted

vars == <<rat, arch_rat, free_list, busy_table, pipe_rename_pkt, window,
          pipe_retire_pkt, branch_misp, recov_arch_st, sys_exception>>

\* The fields of an instruction the reorder buffer keeps.
Entry == [kind : Kind, dest_arn : Arn, dest_prn : Prn, dest_prn_prev : Prn,
          complete : BOOLEAN, branch_misp : BOOLEAN]

Renamed == [kind : Kind, src : Arn, op1_prn : Prn, op1_ready : BOOLEAN,
            dest_arn : Arn, dest_prn : Prn, dest_prn_prev : Prn]

ASSUME NoneAssumption == None \notin Renamed

\* The valid lanes of a group are contiguous.
DecodedGroup ==
  {g \in [Lane -> Decoded \cup {None}] :
     \A a, b, c \in Lane : (a <= b /\ b <= c /\ g[a] # None /\ g[c] # None)
                             => g[b] # None}

NoGroup == [l \in Lane |-> None]

MaxOf(S) == CHOOSE x \in S : \A y \in S : y <= x
MinOf(S) == CHOOSE x \in S : \A y \in S : x <= y

---------------------------------------------------------------------------
(* Backend control *)

Redirects(e) == e.branch_misp \/ e.kind = "halt"

retire_exception == \E k \in DOMAIN pipe_retire_pkt : pipe_retire_pkt[k].kind = "halt"

pipe_flush == \E k \in DOMAIN pipe_retire_pkt : Redirects(pipe_retire_pkt[k])

MayRetire(n) ==
  /\ \A k \in 1 .. n : window[k].complete
  /\ \A k \in 1 .. (n - 1) : ~Redirects(window[k])
  /\ \A j, k \in 1 .. n : window[j].kind = "br" /\ window[k].kind = "br" => j = k

\* The longest prefix that may retire in this cycle.
RetireCount ==
  MaxOf({n \in 0 .. MACHINE_WIDTH : n <= Len(window) /\ MayRetire(n)})

DispatchCount == Cardinality({l \in Lane : pipe_rename_pkt[l] # None})

\* Mutant of rename_pkt_ready: the group dispatched in this cycle is not counted.
ReadyIgnoringDispatch ==
  /\ ~sys_exception /\ ~retire_exception /\ ~branch_misp
  /\ ROB_DEPTH - (Len(window) - RetireCount) >= MACHINE_WIDTH

\* Every lane is ready: a whole group fits behind what stays in the buffer.
rename_pkt_ready ==
  /\ ~sys_exception /\ ~retire_exception /\ ~branch_misp
  /\ ROB_DEPTH - (Len(window) - RetireCount + DispatchCount) >= MACHINE_WIDTH

---------------------------------------------------------------------------
(* Free list *)

\* Mutant of Freed: the register just written is given back, not the one it
\* replaces.
FreedDest == {pipe_retire_pkt[k].dest_prn : k \in DOMAIN pipe_retire_pkt} \ {0}

\* Mutant of Freed: only the first retired lane gives a register back.
FreedFirstLane ==
  {pipe_retire_pkt[k].dest_prn_prev : k \in DOMAIN pipe_retire_pkt \cap {1}} \ {0}

Freed == {pipe_retire_pkt[k].dest_prn_prev : k \in DOMAIN pipe_retire_pkt} \ {0}

free_list_retire_fwd == free_list \cup Freed

free_prn_valid(l) == Grant(l, free_list_retire_fwd) # {}

\* Mutant of free_prn: every lane's encoder is wired to the first grant.
FirstGrant(l) ==
  Encoded(Grant(IF free_prn_valid(l) THEN 0 ELSE l, free_list_retire_fwd))

free_prn(l) == Encoded(Grant(l, free_list_retire_fwd))

---------------------------------------------------------------------------
(* Renaming of a decoded group d accepted in this cycle *)

\* Mutant of HasDest: x0 is renamed like any register.
AnyDest(d, l) == d[l] # None

HasDest(d, l) == d[l] # None /\ d[l].dest # 0

pr_dest(d, l) == IF HasDest(d, l) THEN free_prn(l) ELSE 0

\* Intra-group dependences: the youngest earlier lane that writes a.
Lookup(d, l, a) ==
  LET writers == {m \in Lane : m < l /\ HasDest(d, m) /\ d[m].dest = a}
  IN  IF writers # {} THEN pr_dest(d, MaxOf(writers)) ELSE rat[a]

Allocated(d) == {free_prn(l) : l \in {m \in Lane : HasDest(d, m) /\ free_prn_valid(m)}}

\* Mutant of CdbPrn: one result bus instead of all of them.
OneCdb(done) == {window[i].dest_prn : i \in {j \in done : \A m \in done : j <= m}}

\* Result tags on the cdb when the entries in done complete.
CdbPrn(done) == {window[i].dest_prn : i \in done}

\* Mutant of data_ready: the earlier lanes of the group are not looked at.
ReadyIgnoringGroup(d, l, p, done) ==
  d[l] # None /\ (p \notin busy_table \/ p \in CdbPrn(done))

\* busy_table.sv reads the table, the cdb of this cycle and the earlier lanes.
data_ready(d, l, p, done) ==
  /\ p \notin busy_table \/ p \in CdbPrn(done)
  /\ \A m \in Lane : ~(m < l /\ HasDest(d, m) /\ free_prn_valid(m) /\ free_prn(m) = p)

rename_pkt(d, done) ==
  [l \in Lane |->
     IF d[l] = None THEN None
     ELSE [kind          |-> d[l].kind,
           src           |-> d[l].src,
           op1_prn       |-> Lookup(d, l, d[l].src),
           op1_ready     |-> data_ready(d, l, Lookup(d, l, d[l].src), done),
           dest_arn      |-> d[l].dest,
           dest_prn      |-> pr_dest(d, l),
           dest_prn_prev |-> IF d[l].dest = 0 THEN 0 ELSE Lookup(d, l, d[l].dest)]]

\* Mutant of next_rat: the first lane that writes a register wins.
FirstWriterWins(d) ==
  [a \in Arn |->
     LET writers == {l \in Lane : HasDest(d, l) /\ free_prn_valid(l) /\ d[l].dest = a}
     IN  IF writers # {} THEN free_prn(MinOf(writers)) ELSE rat[a]]

\* The last lane that writes a register wins.
next_rat(d) ==
  [a \in Arn |->
     LET writers == {l \in Lane : HasDest(d, l) /\ free_prn_valid(l) /\ d[l].dest = a}
     IN  IF writers # {} THEN free_prn(MaxOf(writers)) ELSE rat[a]]

next_arch_rat ==
  [a \in Arn |->
     LET writers == {k \in DOMAIN pipe_retire_pkt : pipe_retire_pkt[k].dest_arn = a}
     IN  IF a # 0 /\ writers # {} THEN pipe_retire_pkt[MaxOf(writers)].dest_prn
                                  ELSE arch_rat[a]]

---------------------------------------------------------------------------
(* One clock cycle *)

\* The front end presents nothing in the cycle in which the maps are restored
\* (T_back_recv < T_front_recov), and nothing is taken unless all lanes are
\* ready.
Accepted ==
  IF rename_pkt_ready /\ ~recov_arch_st THEN DecodedGroup ELSE {NoGroup}

FirstLane == MinOf({l \in Lane : pipe_rename_pkt[l] # None})

\* The valid lanes, from the first one on, enter the reorder buffer.
DispatchSeq ==
  [k \in 1 .. DispatchCount |->
     LET p == pipe_rename_pkt[FirstLane + k - 1]
     IN  [kind |-> p.kind, dest_arn |-> p.dest_arn, dest_prn |-> p.dest_prn,
          dest_prn_prev |-> p.dest_prn_prev, complete |-> p.kind = "halt",
          branch_misp |-> FALSE]]

\* The window after the entries in done wrote back, misp among them.
Written(done, misp) ==
  [i \in DOMAIN window |->
     [window[i] EXCEPT !.complete = @ \/ i \in done,
                       !.branch_misp = @ \/ i \in misp]]

Pending == {i \in DOMAIN window : ~window[i].complete}

\* Completions of one cycle; the branch unit completes at most one branch.
Completions ==
  {done \in SUBSET Pending :
     \A i, j \in done : window[i].kind = "br" /\ window[j].kind = "br" => i = j}

RenameStep(d, done) ==
  /\ rat' = IF recov_arch_st THEN arch_rat ELSE next_rat(d)
  /\ free_list' = IF recov_arch_st
                    THEN Prn \ {arch_rat[a] : a \in Arn}
                    ELSE free_list_retire_fwd \ Allocated(d)
  /\ busy_table' = IF recov_arch_st
                     THEN {}
                     ELSE (busy_table \cup Allocated(d)) \ CdbPrn(done)
  /\ arch_rat' = next_arch_rat
  /\ recov_arch_st' = pipe_flush

Cycle(d, done, misp) ==
  /\ ~pipe_flush
  /\ RenameStep(d, done)
  /\ pipe_rename_pkt' = rename_pkt(d, done)
  /\ pipe_retire_pkt' = SubSeq(window, 1, RetireCount)
  /\ window' = SubSeq(Written(done, misp), RetireCount + 1, Len(window)) \o DispatchSeq
  /\ branch_misp' = (branch_misp \/ misp # {})
  /\ UNCHANGED sys_exception

\* The cycle of pipe_flush: everything younger is dropped, while the retired
\* group still updates arch_rat and the free list.
FlushCycle(d, done) ==
  /\ pipe_flush
  /\ RenameStep(d, done)
  /\ pipe_rename_pkt' = NoGroup
  /\ pipe_retire_pkt' = <<>>
  /\ window' = <<>>
  /\ branch_misp' = FALSE
  /\ sys_exception' = (sys_exception \/ retire_exception)

Init ==
  /\ rat = [a \in Arn |-> 0]
  /\ arch_rat = [a \in Arn |-> 0]
  /\ free_list = Prn \ {0}
  /\ busy_table = {}
  /\ pipe_rename_pkt = NoGroup
  /\ window = <<>>
  /\ pipe_retire_pkt = <<>>
  /\ branch_misp = FALSE
  /\ recov_arch_st = FALSE
  /\ sys_exception = FALSE

Next ==
  \E d \in Accepted, done \in Completions :
    \/ \E misp \in SUBSET {i \in done : window[i].kind = "br"} : Cycle(d, done, misp)
    \/ FlushCycle(d, done)

Spec == Init /\ [][Next]_vars

TypeOK ==
  /\ rat \in [Arn -> Prn]
  /\ arch_rat \in [Arn -> Prn]
  /\ free_list \subseteq Prn
  /\ busy_table \subseteq Prn
  /\ pipe_rename_pkt \in [Lane -> Renamed \cup {None}]
  /\ \A i \in DOMAIN window : window[i] \in Entry
  /\ \A k \in DOMAIN pipe_retire_pkt : pipe_retire_pkt[k] \in Entry
  /\ Len(window) <= ROB_DEPTH
  /\ Len(pipe_retire_pkt) <= MACHINE_WIDTH
  /\ {branch_misp, recov_arch_st, sys_exception} \subseteq BOOLEAN

---------------------------------------------------------------------------
(* Properties *)

\* Instructions past renaming, oldest first.
InFlight == pipe_retire_pkt \o window \o DispatchSeq

\* Physical registers some instruction, past or to come, may still read.
Live ==
  {rat[a] : a \in Arn} \cup {arch_rat[a] : a \in Arn}
    \cup {InFlight[i].dest_prn : i \in DOMAIN InFlight}
    \cup {InFlight[i].dest_prn_prev :
            i \in (Len(pipe_retire_pkt) + 1) .. Len(InFlight)}

\* No register that is mapped, or that an instruction in flight writes or would
\* give back, is in the free list: it cannot be allocated a second time.
NoLiveRegisterFree == free_list \cap Live = {}

\* Two instructions in flight never share a destination register.
DestinationsDistinct ==
  \A i, j \in DOMAIN InFlight :
    (InFlight[i].dest_prn = InFlight[j].dest_prn /\ InFlight[i].dest_prn # 0)
      => i = j

\* No register is lost, across any number of mispredictions and flushes.
NoRegisterLeak ==
  ~recov_arch_st => Prn = free_list_retire_fwd \cup Live \cup {0}

\* When a group is accepted there is a free register for each of its lanes:
\* rat.sv takes the grants without looking at free_prn_valid when it builds
\* the destination and its ready signal.
FreeListSuffices ==
  rename_pkt_ready /\ ~recov_arch_st
    => Cardinality(free_list_retire_fwd) >= MACHINE_WIDTH

\* The register instruction i of the sequence s reads as a.
Reads(s, i, a) ==
  LET writers == {j \in 1 .. (i - 1) : s[j].dest_arn = a}
  IN  IF a # 0 /\ writers # {} THEN s[MaxOf(writers)].dest_prn ELSE arch_rat[a]

\* The assertion at the end of rat.sv, and the same for the retirement map.
ZeroRegisterFixed == rat[0] = 0 /\ arch_rat[0] = 0 /\ 0 \notin free_list

\* The speculative map is the retirement map followed by everything in flight,
\* in program order; x0 keeps register 0 in both, also while they are restored.
RatIsProgramOrder ==
  /\ ZeroRegisterFixed
  /\ ~recov_arch_st => \A a \in Arn : rat[a] = Reads(InFlight, Len(InFlight) + 1, a)

\* The destination of instruction i is written when it completes: the busy
\* table holds exactly the destinations still to be written.
BusyExactlyPending ==
  ~recov_arch_st =>
    busy_table = {InFlight[i].dest_prn :
                    i \in {j \in DOMAIN InFlight : ~InFlight[j].complete}} \ {0}

\* The source of an instruction about to be dispatched names the register of
\* the youngest older writer, and is marked ready exactly when that writer has
\* written it: a result on the cdb in the cycle of renaming is not missed, and
\* none is announced early.
SourcesNameTheirWriters ==
  LET base == Len(pipe_retire_pkt) + Len(window)
      Position(l) == base + 1 + Cardinality({m \in Lane : m < l /\ pipe_rename_pkt[m] # None})
  IN  \A l \in Lane : pipe_rename_pkt[l] # None =>
        LET p == pipe_rename_pkt[l]
        IN  /\ p.op1_prn = Reads(InFlight, Position(l), p.src)
            /\ p.op1_ready <=> ~\E i \in 1 .. (Position(l) - 1) :
                                  /\ InFlight[i].dest_prn = p.op1_prn
                                  /\ p.op1_prn # 0
                                  /\ ~InFlight[i].complete
============================================================================
