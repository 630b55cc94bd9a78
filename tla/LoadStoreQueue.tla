--------------------------- MODULE LoadStoreQueue ---------------------------
(***************************************************************************)
(* The load/store queue: stq.sv and ldq.sv (the speculative version, with  *)
(* LSQ_CONSERVATIVE and LSQ_OLDEST_FIRST off) as lsq.sv connects them.     *)
(* Around it, as backend.sv and the data cache appear at its ports: the    *)
(* program order and in-order retirement of the memory instructions, the   *)
(* address unit that executes one of them per cycle in any order, and a    *)
(* cache that accepts one request per cycle, answers a load some cycle     *)
(* later with what memory held when it was accepted, drops a load named by *)
(* fire_ld_kill and forgets all of them at a flush.                        *)
(*                                                                         *)
(* One step is one clock cycle.  An access is a word and the set of its    *)
(* bytes; the address and data of an instruction are fixed from dispatch   *)
(* on, and the queues read them only once addr_valid says they arrived.    *)
(* Address and data of a store arrive together, so data_valid of a store   *)
(* is addr_valid.                                                          *)
(***************************************************************************)
EXTENDS Integers, Sequences, FiniteSets

CONSTANTS
  STQ_DEPTH, LDQ_DEPTH,
  ROB_DEPTH,     \* bound on the memory instructions in the reorder buffer
  MACHINE_WIDTH,
  Addr,          \* words
  Byte,          \* bytes of a word
  Val,           \* values of a byte
  InitVal,       \* the value of every byte at reset
  Loads,         \* [addr, bytes] of the loads of the program
  Stores,        \* [addr, bytes, val] of its stores
  LoadStalls,    \* fire_ld_ready may be low
  None

ASSUME LsqAssumption ==
  /\ MACHINE_WIDTH \in Nat \ {0}
  /\ \A d \in {STQ_DEPTH, LDQ_DEPTH} : d \in Nat /\ d >= 2 * MACHINE_WIDTH /\ d % 2 = 0
  /\ ROB_DEPTH \in Nat /\ ROB_DEPTH >= MACHINE_WIDTH
  /\ InitVal \in Val
  /\ Loads \subseteq [addr : Addr, bytes : (SUBSET Byte) \ {{}}]
  /\ Stores \subseteq [addr : Addr, bytes : (SUBSET Byte) \ {{}}, val : Val]
  /\ LoadStalls \in BOOLEAN
  /\ None \notin Loads \cup Stores

VARIABLES
  stq_entry,
  st_head, st_tail, st_retired,  \* pointers with their position bits
  ldq_entry,
  ld_head, ld_tail,
  fire_st,          \* stq tag of the store offered to the cache, or None
  fire_ld,          \* load offered to the cache and to the stq, or None
  fwd,              \* answer of the stq to the load offered a cycle ago
  pipe_rename_pkt,  \* lane -> memory instruction dispatched in this cycle
  window,           \* memory instructions in the reorder buffer, in order
  pipe_retire_pkt,  \* those retired in the previous cycle
  pipe_flush,       \* a mispredicted branch retired behind them
  dcache,           \* ldq tag -> data the cache will answer, or None
  memory,
  committed         \* memory as the retired stores leave it, in program order

stq_vars == <<stq_entry, st_head, st_tail, st_retired, fire_st, fwd>>
ldq_vars == <<ldq_entry, ld_head, ld_tail, fire_ld>>
env_vars == <<pipe_rename_pkt, window, pipe_retire_pkt, pipe_flush, dcache, memory,
              committed>>
vars == <<stq_vars, ldq_vars, env_vars>>

Lane == 0 .. (MACHINE_WIDTH - 1)
StqTag == 0 .. (STQ_DEPTH - 1)
LdqTag == 0 .. (LDQ_DEPTH - 1)

Pointer(depth) == [ptr : 0 .. (depth - 1), pos : {0, 1}]
Zero == [ptr |-> 0, pos |-> 0]

\* What a load of these bytes returns.
Data == UNION {[b -> Val] : b \in (SUBSET Byte) \ {{}}}

StqEntry == [entry_valid : BOOLEAN, addr_valid : BOOLEAN, retired : BOOLEAN,
             st : Stores \cup {None}]

EmptyStore == [entry_valid |-> FALSE, addr_valid |-> FALSE, retired |-> FALSE, st |-> None]

LdqEntry == [entry_valid : BOOLEAN, addr_valid : BOOLEAN, ld : Loads \cup {None},
             st_mask : SUBSET StqTag, st_youngest : StqTag, sleep : StqTag \cup {None},
             fired : BOOLEAN, data : Data \cup {None}, writebacked : Data \cup {None},
             order_fail : BOOLEAN, expect : Data \cup {None}]

\* The stq tag sleep waits for is only read while asleep, and data only while
\* data_valid: None stands for sleep = 0 and data_valid = 0.  writebacked
\* holds the value that was put on the result bus, and expect, which no queue
\* reads, the value program order prescribes.
EmptyLoad == [entry_valid |-> FALSE, addr_valid |-> FALSE, ld |-> None,
              st_mask |-> {}, st_youngest |-> 0, sleep |-> None, fired |-> FALSE,
              data |-> None, writebacked |-> None, order_fail |-> FALSE,
              expect |-> None]

\* A load offered to the cache and to the store queue.
Offer == [ldq_tag : LdqTag, ld : Loads, st_mask : SUBSET StqTag, st_youngest : StqTag]

\* The answer of the store queue to it.
Forward == [valid : BOOLEAN, sleep : BOOLEAN, ldq_tag : LdqTag, stq_tag : StqTag,
            data : Data \cup {None}]

NoFwd == [valid |-> FALSE, sleep |-> FALSE, ldq_tag |-> 0, stq_tag |-> 0, data |-> None]

\* A memory instruction in the reorder buffer.
Instruction == [kind : {"st"}, tag : StqTag] \cup [kind : {"ld"}, tag : LdqTag]

ASSUME NoneAssumption == None \notin StqTag \cup LdqTag \cup Data \cup Offer

---------------------------------------------------------------------------
(* Pointers *)

\* Mutant of Plus: the pointer is one bit too wide.
PlusTooWide(p, n, depth) ==
  [ptr |-> IF p.ptr + n > depth THEN p.ptr + n - depth ELSE p.ptr + n, pos |-> p.pos]

\* The pointer wraps when its top bit goes from 1 to 0.
Plus(p, n, depth) ==
  LET next == (p.ptr + n) % depth
      overflow == 2 * p.ptr >= depth /\ 2 * next < depth
  IN  [ptr |-> next, pos |-> IF overflow THEN 1 - p.pos ELSE p.pos]

Room(head, tail, depth) ==
  IF head.pos = tail.pos THEN head.ptr + depth - tail.ptr ELSE head.ptr - tail.ptr

IsStore(op) == op \in Stores
IsLoad(op) == op \in Loads

StoresBefore(l) == Cardinality({m \in Lane : m < l /\ IsStore(pipe_rename_pkt[m])})
LoadsBefore(l) == Cardinality({m \in Lane : m < l /\ IsLoad(pipe_rename_pkt[m])})

st_dispatch_cnt == StoresBefore(MACHINE_WIDTH)
ld_dispatch_cnt == LoadsBefore(MACHINE_WIDTH)

RetiredTags(kind) ==
  {pipe_retire_pkt[k].tag : k \in {j \in DOMAIN pipe_retire_pkt : pipe_retire_pkt[j].kind = kind}}

next_st_retired == Plus(st_retired, Cardinality(RetiredTags("st")), STQ_DEPTH)

next_st_head(st_accept) ==
  IF pipe_flush /\ st_head = next_st_retired
    THEN st_head
    ELSE Plus(st_head, IF st_accept THEN 1 ELSE 0, STQ_DEPTH)

\* Mutant of next_st_tail: a flush ignores the stores that retire with it.
TailIgnoringRetire ==
  IF pipe_flush THEN st_retired ELSE Plus(st_tail, st_dispatch_cnt, STQ_DEPTH)

next_st_tail ==
  IF pipe_flush
    THEN IF st_head = next_st_retired THEN st_head ELSE next_st_retired
    ELSE Plus(st_tail, st_dispatch_cnt, STQ_DEPTH)

next_ld_head == Plus(ld_head, Cardinality(RetiredTags("ld")), LDQ_DEPTH)
next_ld_tail == Plus(ld_tail, ld_dispatch_cnt, LDQ_DEPTH)

dispatch_pkt_ready(st_accept) ==
  /\ Room(next_st_head(st_accept), next_st_tail, STQ_DEPTH) >= MACHINE_WIDTH
  /\ Room(next_ld_head, next_ld_tail, LDQ_DEPTH) >= MACHINE_WIDTH

---------------------------------------------------------------------------
(* Dispatch: tags, and the older stores of each load *)

dispatch_st_resp(l) == (st_tail.ptr + StoresBefore(l)) % STQ_DEPTH
dispatch_ld_resp(l) == (ld_tail.ptr + LoadsBefore(l)) % LDQ_DEPTH

dispatch_stq_st_mask == {i \in StqTag : stq_entry[i].entry_valid}

dispatch_stq_st_youngest ==
  IF st_head = st_tail THEN st_tail.ptr ELSE (st_tail.ptr + STQ_DEPTH - 1) % STQ_DEPTH

dispatch_ldq_st_youngest(l) ==
  IF l = 0 \/ dispatch_stq_st_mask # {}
    THEN (dispatch_stq_st_youngest + StoresBefore(l)) % STQ_DEPTH
    ELSE (dispatch_stq_st_youngest + StoresBefore(l) + STQ_DEPTH - 1) % STQ_DEPTH

\* Mutant of dispatch_ldq_st_mask: the stores of the load's own group are missed.
MaskWithoutGroup(l) == IF l \in Lane THEN dispatch_stq_st_mask ELSE {}

\* A store in lane m sets the bit the youngest pointer of the next lane names.
dispatch_ldq_st_mask(l) ==
  dispatch_stq_st_mask \cup
    {dispatch_ldq_st_youngest(m + 1) : m \in {k \in Lane : k < l /\ IsStore(pipe_rename_pkt[k])}}

---------------------------------------------------------------------------
(* Store to load forwarding: the load on fire_ld looks its stores up *)

match ==
  {i \in fire_ld.st_mask : /\ stq_entry[i].entry_valid
                           /\ stq_entry[i].addr_valid
                           /\ stq_entry[i].st.addr = fire_ld.ld.addr}

MaxOf(S) == CHOOSE x \in S : \A y \in S : y <= x
MinOf(S) == CHOOSE x \in S : \A y \in S : x <= y

\* The youngest match: the last at or below st_youngest, else the last of all.
fwd_stq_idx ==
  LET recent == {i \in match : i <= fire_ld.st_youngest}
  IN  IF recent # {} THEN MaxOf(recent) ELSE MaxOf(match)

\* The store does not write all the bytes the load reads.
addr_conflict == ~(fire_ld.ld.bytes \subseteq stq_entry[fwd_stq_idx].st.bytes)

\* Mutant of next_fwd: a conflict with the store the cache accepts in this very
\* cycle is still reported.
FwdWithoutDiscard(st_accept) ==
  IF pipe_flush \/ fire_ld = None THEN NoFwd
  ELSE IF match = {} THEN NoFwd
  ELSE [valid |-> ~addr_conflict, sleep |-> addr_conflict,
        ldq_tag |-> fire_ld.ldq_tag, stq_tag |-> fwd_stq_idx,
        data |-> IF addr_conflict THEN None
                 ELSE [b \in fire_ld.ld.bytes |-> stq_entry[fwd_stq_idx].st.val]]

next_fwd(st_accept) ==
  IF pipe_flush \/ fire_ld = None THEN NoFwd
  ELSE IF match = {} THEN NoFwd
  ELSE IF addr_conflict
    THEN IF st_accept /\ fire_st = fwd_stq_idx
           THEN NoFwd
           ELSE [valid |-> FALSE, sleep |-> TRUE, ldq_tag |-> fire_ld.ldq_tag,
                 stq_tag |-> fwd_stq_idx, data |-> None]
    ELSE [valid |-> TRUE, sleep |-> FALSE, ldq_tag |-> fire_ld.ldq_tag,
          stq_tag |-> fwd_stq_idx,
          data |-> [b \in fire_ld.ld.bytes |-> stq_entry[fwd_stq_idx].st.val]]

---------------------------------------------------------------------------
(* Loads.  x is the instruction executed in this cycle, ld_accept whether   *)
(* the cache takes the offered load.                                        *)

NoExec == [kind |-> "none", tag |-> 0]

Executes(x, kind, i) == x.kind = kind /\ x.tag = i

Accepted(ld_accept, i) == ld_accept /\ fire_ld.ldq_tag = i

FwdValid(i) == fwd.valid /\ fwd.ldq_tag = i
FwdSleep(i) == fwd.sleep /\ fwd.ldq_tag = i

\* Mutant of st_ld_violation: a load whose answer is outstanding is missed.
ViolationIgnoringFired(x, ld_accept, i) ==
  /\ x.kind = "st"
  /\ ldq_entry[i].addr_valid
  /\ ldq_entry[i].ld.addr = stq_entry[x.tag].st.addr
  /\ x.tag \in ldq_entry[i].st_mask
  /\ ldq_entry[i].data # None \/ FwdValid(i) \/ Accepted(ld_accept, i)

\* A store address arrives and a younger load of that word has its data or has
\* been sent for it.
st_ld_violation(x, ld_accept, i) ==
  /\ x.kind = "st"
  /\ ldq_entry[i].addr_valid
  /\ ldq_entry[i].ld.addr = stq_entry[x.tag].st.addr
  /\ x.tag \in ldq_entry[i].st_mask
  /\ \/ ldq_entry[i].data # None
     \/ FwdValid(i)
     \/ ldq_entry[i].fired
     \/ Accepted(ld_accept, i)

ld_wakeup(x, ld_accept, i) ==
  /\ ldq_entry[i].addr_valid \/ Executes(x, "ld", i)
  /\ ldq_entry[i].data = None
  /\ ldq_entry[i].sleep = None
  /\ ~(ldq_entry[i].fired \/ Accepted(ld_accept, i))
  /\ ~(FwdValid(i) /\ ~ldq_entry[i].order_fail)

next_fire_ld(x, ld_accept) ==
  LET ready == {i \in LdqTag : ld_wakeup(x, ld_accept, i)}
      i == MinOf(ready)
  IN  IF pipe_flush \/ ready = {} THEN None
      ELSE [ldq_tag |-> i, ld |-> ldq_entry[i].ld, st_mask |-> ldq_entry[i].st_mask,
            st_youngest |-> ldq_entry[i].st_youngest]

fire_ld_kill(x, ld_accept, i) ==
  \/ FwdValid(i)
  \/ FwdSleep(i)
  \/ st_ld_violation(x, ld_accept, i) /\ ldq_entry[i].data = None

\* r is the ldq tag of the answer the cache gives in this cycle, or None.
dcache_data_accept(x, ld_accept, r, i) == r = i /\ ~fire_ld_kill(x, ld_accept, i)

fwd_data_accept(i) == FwdValid(i) /\ ~ldq_entry[i].order_fail

stq_addr_valid == {i \in StqTag : stq_entry[i].addr_valid /\ stq_entry[i].entry_valid}

ld_writeback(x, ld_accept, r, i) ==
  /\ ldq_entry[i].st_mask \subseteq stq_addr_valid
  /\ \/ ldq_entry[i].data # None /\ ldq_entry[i].writebacked = None
     \/ fwd_data_accept(i)
     \/ dcache_data_accept(x, ld_accept, r, i)

\* A store has the result bus of the address unit for itself.
writeback_ready(x) == x.kind # "st"

Writebacks(x, ld_accept, r, i) ==
  /\ writeback_ready(x)
  /\ LET req == {j \in LdqTag : ld_writeback(x, ld_accept, r, j)}
     IN  req # {} /\ i = MinOf(req)

writeback_data(x, ld_accept, r, i) ==
  IF FwdValid(i) THEN fwd.data
  ELSE IF dcache_data_accept(x, ld_accept, r, i) THEN dcache[i]
  ELSE ldq_entry[i].data

---------------------------------------------------------------------------
(* What program order prescribes for the load dispatched in lane l: each     *)
(* byte comes from the last store before it, or from memory.                 *)

FromHead(i) == (i + STQ_DEPTH - st_head.ptr) % STQ_DEPTH

OlderByte(a, b, l) ==
  LET group == {m \in Lane : /\ m < l /\ IsStore(pipe_rename_pkt[m])
                             /\ pipe_rename_pkt[m].addr = a
                             /\ b \in pipe_rename_pkt[m].bytes}
      queue == {i \in StqTag : /\ stq_entry[i].entry_valid
                               /\ stq_entry[i].st.addr = a
                               /\ b \in stq_entry[i].st.bytes}
      last  == CHOOSE i \in queue : \A j \in queue : FromHead(j) <= FromHead(i)
  IN  IF group # {} THEN pipe_rename_pkt[MaxOf(group)].val
      ELSE IF queue # {} THEN stq_entry[last].st.val
      ELSE memory[a][b]

Expected(l) ==
  [b \in pipe_rename_pkt[l].bytes |-> OlderByte(pipe_rename_pkt[l].addr, b, l)]

---------------------------------------------------------------------------
(* The entries at the next edge *)

StLane(i) == {l \in Lane : IsStore(pipe_rename_pkt[l]) /\ dispatch_st_resp(l) = i}
LdLane(i) == {l \in Lane : IsLoad(pipe_rename_pkt[l]) /\ dispatch_ld_resp(l) = i}

NextStore(x, st_accept, i) ==
  LET e == stq_entry[i]
      update_retire == i \in RetiredTags("st")
  IN  IF pipe_flush /\ e.entry_valid /\ ~e.retired /\ ~update_retire THEN EmptyStore
      ELSE IF i = st_head.ptr /\ st_accept THEN EmptyStore
      ELSE IF StLane(i) # {}
        THEN [e EXCEPT !.entry_valid = TRUE,
                       !.st = pipe_rename_pkt[CHOOSE l \in StLane(i) : TRUE]]
      ELSE [e EXCEPT !.addr_valid = @ \/ Executes(x, "st", i),
                     !.retired = @ \/ update_retire]

Allocate(i) ==
  LET l == CHOOSE m \in LdLane(i) : TRUE
  IN  [ldq_entry[i] EXCEPT !.entry_valid = TRUE,
                           !.ld = pipe_rename_pkt[l],
                           !.st_mask = dispatch_ldq_st_mask(l),
                           !.st_youngest = dispatch_ldq_st_youngest(l),
                           !.expect = Expected(l)]

\* Mutant of next_sleep: the store that leaves while the conflict is being noted
\* does not wake the load.
LostWakeup(x, ld_accept, st_accept, i) ==
  IF st_ld_violation(x, ld_accept, i) THEN None
  ELSE IF FwdSleep(i) THEN fwd.stq_tag
  ELSE IF st_accept /\ fire_st = ldq_entry[i].sleep THEN None
  ELSE ldq_entry[i].sleep

next_sleep(x, ld_accept, st_accept, i) ==
  LET fires(tag) == st_accept /\ fire_st = tag
  IN  IF st_ld_violation(x, ld_accept, i) THEN None
      ELSE IF FwdSleep(i) THEN IF fires(fwd.stq_tag) THEN None ELSE fwd.stq_tag
      ELSE IF fires(ldq_entry[i].sleep) THEN None
      ELSE ldq_entry[i].sleep

\* Mutant of next_order_fail: the replay does not clear the mark.
OrderFailKept(x, ld_accept, i) ==
  ldq_entry[i].order_fail \/ st_ld_violation(x, ld_accept, i)

next_order_fail(x, ld_accept, i) ==
  \/ st_ld_violation(x, ld_accept, i)
  \/ /\ ldq_entry[i].order_fail
     /\ ~(fire_ld # None /\ fire_ld.ldq_tag = i /\ ~fire_ld_kill(x, ld_accept, i))

next_fired(x, ld_accept, i) ==
  /\ ~st_ld_violation(x, ld_accept, i)
  /\ IF Accepted(ld_accept, i) THEN ~fire_ld_kill(x, ld_accept, i)
                               ELSE ldq_entry[i].fired /\ ~FwdSleep(i)

next_data(x, ld_accept, r, i) ==
  IF st_ld_violation(x, ld_accept, i) THEN None
  ELSE IF fwd_data_accept(i) THEN fwd.data
  ELSE IF dcache_data_accept(x, ld_accept, r, i) THEN dcache[i]
  ELSE ldq_entry[i].data

NextLoad(x, ld_accept, st_accept, r, i) ==
  LET e == IF LdLane(i) # {} THEN Allocate(i) ELSE ldq_entry[i]
      u == [e EXCEPT
              !.addr_valid = @ \/ Executes(x, "ld", i),
              !.st_mask = IF st_accept THEN @ \ {fire_st} ELSE @,
              !.sleep = next_sleep(x, ld_accept, st_accept, i),
              !.order_fail = next_order_fail(x, ld_accept, i),
              !.fired = next_fired(x, ld_accept, i),
              !.data = next_data(x, ld_accept, r, i),
              !.writebacked = IF Writebacks(x, ld_accept, r, i)
                                THEN writeback_data(x, ld_accept, r, i) ELSE @]
  IN  IF i \in RetiredTags("ld")
        THEN [EmptyLoad EXCEPT !.sleep = u.sleep, !.order_fail = u.order_fail]
        ELSE u

\* Mutant of next_fire_st: the head is offered only with a retired store behind it.
FireSecond(st_accept) ==
  IF /\ ~pipe_flush /\ ~st_accept
     /\ \E i \in StqTag \ {st_head.ptr} : stq_entry[i].entry_valid /\ stq_entry[i].retired
    THEN st_head.ptr ELSE None

\* Mutant of next_fire_st: the head is offered whether or not a store has retired.
FireUnretired(st_accept) ==
  IF /\ ~pipe_flush /\ ~st_accept /\ \E i \in StqTag : stq_entry[i].entry_valid
    THEN st_head.ptr ELSE None

\* Retired stores go to the cache from the head, one every other cycle at most.
next_fire_st(st_accept) ==
  IF /\ ~pipe_flush /\ ~st_accept
     /\ \E i \in StqTag : stq_entry[i].entry_valid /\ stq_entry[i].retired
    THEN st_head.ptr ELSE None

---------------------------------------------------------------------------
(* The instructions around the queue, and the cache *)

Complete(op) == IF op.kind = "st" THEN stq_entry[op.tag].addr_valid
                                  ELSE ldq_entry[op.tag].writebacked # None

Executed(op) == IF op.kind = "st" THEN stq_entry[op.tag].addr_valid
                                  ELSE ldq_entry[op.tag].addr_valid

\* The address unit: any instruction of the window, in any order.
Executable == {NoExec} \cup {op \in {window[k] : k \in DOMAIN window} : ~Executed(op)}

\* The ports for loads and for stores are independent; a load taken together
\* with a store sees the store.
Ports ==
  {p \in [ld : BOOLEAN, st : BOOLEAN] :
     /\ p.ld => fire_ld # None
     /\ p.st => fire_st # None
     /\ ~LoadStalls => p.ld = (fire_ld # None)}

Answers == {None} \cup {i \in LdqTag : dcache[i] # None}

Group == [Lane -> Loads \cup Stores \cup {None}]
NoGroup == [l \in Lane |-> None]

Dispatched ==
  LET op(l) == IF IsStore(pipe_rename_pkt[l])
                 THEN [kind |-> "st", tag |-> dispatch_st_resp(l)]
                 ELSE [kind |-> "ld", tag |-> dispatch_ld_resp(l)]
      lanes == {l \in Lane : pipe_rename_pkt[l] # None}
  IN  [k \in 1 .. Cardinality(lanes) |->
         op(CHOOSE l \in lanes : Cardinality({m \in lanes : m < l}) = k - 1)]

Write(m, st) ==
  [m EXCEPT ![st.addr] = [b \in Byte |-> IF b \in st.bytes THEN st.val ELSE @[b]]]

next_memory(p) == IF p.st THEN Write(memory, stq_entry[fire_st].st) ELSE memory

next_dcache(x, p, r) ==
  [i \in LdqTag |->
     IF fire_ld_kill(x, p.ld, i) THEN None
     ELSE IF Accepted(p.ld, i)
       THEN [b \in fire_ld.ld.bytes |-> next_memory(p)[fire_ld.ld.addr][b]]
     ELSE IF r = i THEN None
     ELSE dcache[i]]

\* The last of the retiring stores that write a byte decides it.
next_committed ==
  LET retires(k) == stq_entry[pipe_retire_pkt[k].tag].st
      writers(a, b) == {k \in DOMAIN pipe_retire_pkt : /\ pipe_retire_pkt[k].kind = "st"
                                                       /\ retires(k).addr = a
                                                       /\ b \in retires(k).bytes}
  IN  [a \in Addr |-> [b \in Byte |->
         IF writers(a, b) = {} THEN committed[a][b] ELSE retires(MaxOf(writers(a, b))).val]]

StqStep(x, st_accept) ==
  /\ st_head' = next_st_head(st_accept)
  /\ st_tail' = next_st_tail
  /\ st_retired' = next_st_retired
  /\ stq_entry' = [i \in StqTag |-> NextStore(x, st_accept, i)]
  /\ fire_st' = next_fire_st(st_accept)
  /\ fwd' = next_fwd(st_accept)

\* The queues and the cache in a cycle without a flush.
Cycle(x, p, r) ==
  /\ ~pipe_flush
  /\ StqStep(x, p.st)
  /\ ld_head' = next_ld_head
  /\ ld_tail' = next_ld_tail
  /\ ldq_entry' = [i \in LdqTag |-> NextLoad(x, p.ld, p.st, r, i)]
  /\ fire_ld' = next_fire_ld(x, p.ld)
  /\ dcache' = next_dcache(x, p, r)
  /\ memory' = next_memory(p)
  /\ committed' = next_committed

\* The pipeline around them: group g is renamed, n memory instructions retire,
\* and if misp holds a mispredicted branch behind them.
Advance(g, n, misp) ==
  /\ pipe_rename_pkt' = g
  /\ window' = SubSeq(window, n + 1, Len(window)) \o Dispatched
  /\ pipe_retire_pkt' = SubSeq(window, 1, n)
  /\ pipe_flush' = misp

FlushCycle(p) ==
  /\ pipe_flush
  /\ StqStep(NoExec, p.st)
  /\ ld_head' = Zero
  /\ ld_tail' = Zero
  /\ ldq_entry' = [i \in LdqTag |-> EmptyLoad]
  /\ fire_ld' = None
  /\ pipe_rename_pkt' = NoGroup
  /\ window' = <<>>
  /\ pipe_retire_pkt' = <<>>
  /\ pipe_flush' = FALSE
  /\ dcache' = [i \in LdqTag |-> None]
  /\ memory' = next_memory(p)
  /\ committed' = next_committed

Init ==
  /\ stq_entry = [i \in StqTag |-> EmptyStore]
  /\ st_head = Zero /\ st_tail = Zero /\ st_retired = Zero
  /\ ldq_entry = [i \in LdqTag |-> EmptyLoad]
  /\ ld_head = Zero /\ ld_tail = Zero
  /\ fire_st = None
  /\ fire_ld = None
  /\ fwd = NoFwd
  /\ pipe_rename_pkt = NoGroup
  /\ window = <<>>
  /\ pipe_retire_pkt = <<>>
  /\ pipe_flush = FALSE
  /\ dcache = [i \in LdqTag |-> None]
  /\ memory = [a \in Addr |-> [b \in Byte |-> InitVal]]
  /\ committed = memory

\* A misprediction is known, and stops renaming, before its branch retires;
\* the group must fit into the reorder buffer and into both queues.
Renamed(p, n, misp) ==
  IF /\ ~misp
     /\ dispatch_pkt_ready(p.st)
     /\ Len(window) - n + Len(Dispatched) + MACHINE_WIDTH <= ROB_DEPTH
    THEN Group ELSE {NoGroup}

\* Retirement takes a completed prefix, and a branch takes a lane.
Retirable(misp) ==
  {n \in 0 .. (IF misp THEN MACHINE_WIDTH - 1 ELSE MACHINE_WIDTH) :
     n <= Len(window) /\ \A k \in 1 .. n : Complete(window[k])}

\* A cycle in which the cache accepts p.
Step(p) ==
  \/ FlushCycle(p)
  \/ \E x \in Executable, r \in Answers :
       /\ Cycle(x, p, r)
       /\ \E misp \in BOOLEAN : \E n \in Retirable(misp) :
            \E g \in Renamed(p, n, misp) : Advance(g, n, misp)

Next == \E p \in Ports : Step(p)

Spec == Init /\ [][Next]_vars

---------------------------------------------------------------------------
(* Properties *)

TypeOK ==
  /\ stq_entry \in [StqTag -> StqEntry]
  /\ {st_head, st_tail, st_retired} \subseteq Pointer(STQ_DEPTH)
  /\ ldq_entry \in [LdqTag -> LdqEntry]
  /\ {ld_head, ld_tail} \subseteq Pointer(LDQ_DEPTH)
  /\ fire_st \in StqTag \cup {None}
  /\ fire_ld \in Offer \cup {None}
  /\ fwd \in Forward
  /\ pipe_rename_pkt \in Group
  /\ window \in Seq(Instruction) /\ Len(window) <= ROB_DEPTH
  /\ pipe_retire_pkt \in Seq(Instruction) /\ Len(pipe_retire_pkt) <= MACHINE_WIDTH
  /\ pipe_flush \in BOOLEAN
  /\ dcache \in [LdqTag -> Data \cup {None}]
  /\ {memory, committed} \subseteq [Addr -> [Byte -> Val]]

\* The value a load puts on the result bus is the one program order
\* prescribes, however the executions of the older stores, forwarding, cache
\* answers, replays and flushes interleave ("performed st-ld dependency
\* check", ldq.sv, writeback selection).
LoadsSeeProgramOrder ==
  \A i \in LdqTag :
    ldq_entry[i].writebacked # None => ldq_entry[i].writebacked = ldq_entry[i].expect

\* Memory followed by the retired stores still queued is what the retired
\* stores, in program order, make of it: a flush, also one in the cycle in which
\* a store retires or is accepted by the cache, loses, repeats or reorders none.
RetiredStoresReachMemory ==
  LET queued(a, b) ==
        {i \in StqTag : /\ stq_entry[i].entry_valid /\ stq_entry[i].retired
                        /\ stq_entry[i].st.addr = a /\ b \in stq_entry[i].st.bytes}
      last(a, b) == CHOOSE i \in queued(a, b) :
                      \A j \in queued(a, b) : FromHead(j) <= FromHead(i)
  IN  \A a \in Addr, b \in Byte :
        committed[a][b] = IF queued(a, b) = {} THEN memory[a][b]
                                              ELSE stq_entry[last(a, b)].st.val

\* A load sleeps only on a store that is still queued in front of it, whose
\* acceptance by the cache will wake it: the wakeup is not lost when the store
\* leaves while the conflict is being reported.  Retirement does not clear
\* sleep, so the next load in the entry inherits it; the store it then waits
\* for, older than a retired load, has itself retired.
SleepersHaveAStore ==
  \A i \in LdqTag :
    LET t == ldq_entry[i].sleep
    IN  t # None =>
          /\ stq_entry[t].entry_valid
          /\ \/ stq_entry[t].retired
             \/ t \in RetiredTags("st")
             \/ t \in ldq_entry[i].st_mask

\* The assertions on order_fail in ldq.sv: a load does not retire while it is
\* marked for replay.
RetiresWithoutOrderFail ==
  \A i \in RetiredTags("ld") : ~ldq_entry[i].order_fail

---------------------------------------------------------------------------
(* The store buffer the queue implements: the entries from st_head to       *)
(* st_retired, and the stores among what retired in the previous cycle.     *)

BufferedStores ==
  LET count == IF st_head.pos = st_retired.pos THEN st_retired.ptr - st_head.ptr
                                               ELSE (st_retired.ptr + STQ_DEPTH) - st_head.ptr
  IN  [k \in 1 .. count |-> stq_entry[(st_head.ptr + (k - 1)) % STQ_DEPTH].st]

RetiringInOrder ==
  LET places == {k \in DOMAIN pipe_retire_pkt : pipe_retire_pkt[k].kind = "st"}
  IN  [n \in 1 .. Cardinality(places) |->
         LET k == CHOOSE j \in places : Cardinality({i \in places : i < j}) = n - 1
         IN  stq_entry[pipe_retire_pkt[k].tag].st]

Buffer == INSTANCE StoreBuffer
            WITH Capacity <- STQ_DEPTH, Width <- MACHINE_WIDTH,
                 buffer <- BufferedStores, retiring <- RetiringInOrder

\* Stores reach memory in the order in which they retired, whatever words they
\* write, one per cycle and each once; no flush takes a retired store out of
\* the queue, and no store reaches memory before it has retired (stq.sv).
ImplementsStoreBuffer == Buffer!BSpec

---------------------------------------------------------------------------
(* Liveness: again and again there is a cycle in which the oldest           *)
(* unexecuted instruction executes, the cache answers what it owes and       *)
(* whatever can retire does, and a request the cache is offered again and    *)
(* again is accepted.                                                        *)

Helpful(x, r, n) ==
  /\ Executable # {NoExec} =>
       \E k \in DOMAIN window : x = window[k] /\ \A j \in 1 .. (k - 1) : Executed(window[j])
  /\ Answers # {None} => r # None
  /\ \A m \in Retirable(FALSE) : m <= n

HelpfulCycle ==
  \E p \in Ports :
    \/ FlushCycle(p)
    \/ \E x \in Executable, r \in Answers :
         /\ Cycle(x, p, r)
         /\ \E n \in Retirable(FALSE) : \E g \in Renamed(p, n, FALSE) :
              Advance(g, n, FALSE) /\ Helpful(x, r, n)

StoreAccepted == \E p \in Ports : p.st /\ Step(p)
LoadAccepted == \E p \in Ports : p.ld /\ Step(p)

FairSpec ==
  /\ Spec
  /\ WF_vars(HelpfulCycle)
  /\ SF_vars(StoreAccepted)
  /\ SF_vars(LoadAccepted)

\* Every load dispatched is written back or flushed: none stays asleep, fired
\* without an answer, or marked for replay for ever.
EveryLoadReturns ==
  \A i \in LdqTag :
    (ldq_entry[i].entry_valid /\ ldq_entry[i].writebacked = None)
      ~> (~ldq_entry[i].entry_valid \/ ldq_entry[i].writebacked # None)

\* Every retired store leaves the queue for the cache, also across flushes.
EveryRetiredStoreFires ==
  \A i \in StqTag : stq_entry[i].retired ~> ~stq_entry[i].retired
=============================================================================
