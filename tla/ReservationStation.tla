-------------------------- MODULE ReservationStation --------------------------
(***************************************************************************)
(* One bank of reservation stations: rs_bank.sv with rs_array.sv, the      *)
(* stations rs1.sv, and for every functional unit the comparator tree      *)
(* sort.sv that picks the station to issue (RS_OLDEST_FIRST is defined).   *)
(*                                                                         *)
(* Around it, as backend.sv connects it: the rename/dispatch register, and *)
(* the instructions in flight, named by their rob tag (the position bit    *)
(* and the pointer as one number modulo twice the depth).  The physical    *)
(* register an instruction writes is represented by that tag too, so a     *)
(* result on the cdb is the tag of the instruction that completes.  An     *)
(* instruction of the other bank, or one that is discarded at dispatch,    *)
(* takes a tag and a lane but no station.                                  *)
(*                                                                         *)
(* One step is one clock cycle.                                            *)
(***************************************************************************)
EXTENDS Integers, FiniteSets, PselGen

CONSTANTS
  RS_DEPTH, ROB_DEPTH, MACHINE_WIDTH,
  Fu,        \* functional units the bank issues to
  Decoded,   \* [fu, srcs]: a source is how many instructions back its writer is
  None

ASSUME RsAssumption ==
  /\ RS_DEPTH \in {4, 8, 16, 32}
  /\ MACHINE_WIDTH \in 1 .. RS_DEPTH
  /\ ROB_DEPTH \in Nat /\ ROB_DEPTH >= MACHINE_WIDTH
  /\ None \notin Fu
  /\ \A d \in Decoded : /\ d.fu \in Fu \cup {None}
                        /\ d.srcs \subseteq 1 .. (ROB_DEPTH - 1)
                        /\ Cardinality(d.srcs) <= 2
  /\ None \notin Decoded

VARIABLES
  rs_entry,
  pos_tmp,          \* the position bits the nodes of the trees hold
  pipe_rename_pkt,  \* lane -> instruction dispatched in this cycle
  head, tail,       \* the instructions in flight are those from head to tail
  executing,        \* tags issued, or not of this bank, whose result is awaited
  complete,         \* tags completed and not retired
  pipe_flush

vars == <<rs_entry, pos_tmp, pipe_rename_pkt, head, tail, executing, complete,
          pipe_flush>>

Station == 0 .. (RS_DEPTH - 1)
Lane == 0 .. (MACHINE_WIDTH - 1)
Tag == 0 .. (2 * ROB_DEPTH - 1)

\* srcs are the registers of op1_prn and op2_prn that were pending when the
\* instruction was renamed, waits those of them whose ready bit is low.
EmptyStation == [in_use |-> FALSE, tag |-> 0, fu |-> None, srcs |-> {},
                 waits |-> {}, wake_up |-> FALSE]

RsEntry == [in_use : BOOLEAN, tag : Tag, fu : Fu \cup {None}, srcs : SUBSET Tag,
            waits : SUBSET Tag, wake_up : BOOLEAN]

Packet == [fu : Fu \cup {None}, srcs : SUBSET Tag]
NoGroup == [l \in Lane |-> None]

ASSUME NoneAssumption == None \notin Packet

After(t, n) == (t + n) % (2 * ROB_DEPTH)
Count(from, to) == (to + 2 * ROB_DEPTH - from) % (2 * ROB_DEPTH)

InFlight == {After(head, k) : k \in 0 .. (Count(head, tail) - 1)}

---------------------------------------------------------------------------
(* Dispatch: every lane is offered a station of its own *)

Position(g, l) == Cardinality({m \in Lane : m < l /\ g[m] # None})

LaneTag(l) == After(tail, Position(pipe_rename_pkt, l))

DispatchCount == Position(pipe_rename_pkt, MACHINE_WIDTH)

\* Lanes that need a station of this bank: packet_valid.
Valid == {l \in Lane : pipe_rename_pkt[l] # None /\ pipe_rename_pkt[l].fu # None}

rs_avail == {i \in Station : ~rs_entry[i].in_use}

\* Mutant of rs_avail_cnt: the group dispatched in this cycle is not counted.
AvailBeforeDispatch == Cardinality(rs_avail)

rs_avail_cnt == Cardinality(rs_avail) - Cardinality(Valid)

dispatch_pkt_ready(k) == rs_avail_cnt > k

\* The lane, if any, that loads station i.
alloc_sel(i) == {l \in Valid : i \in Grant(l, rs_avail)}

---------------------------------------------------------------------------
(* Issue: for each unit a binary tree over the stations, node 1 its root,   *)
(* the children of n at 2n and 2n + 1, station i at leaf RS_DEPTH + i.       *)

Node == 1 .. (2 * RS_DEPTH - 1)
Inner == 1 .. (RS_DEPTH - 1)

Requests(u) == {i \in Station : rs_entry[i].wake_up /\ rs_entry[i].fu = u}

req_tmp(u) ==
  LET req[n \in Node] ==
        IF n >= RS_DEPTH THEN n - RS_DEPTH \in Requests(u)
                         ELSE req[2 * n] \/ req[2 * n + 1]
  IN  [n \in Node |-> req[n]]

\* The bit of a node both of whose children request is assigned in none of the
\* branches of the case statement: a latch, it keeps its last value.
SettledPos(u) ==
  LET req == req_tmp(u)
      p[n \in Node] ==
        IF n >= RS_DEPTH THEN rs_entry[n - RS_DEPTH].tag \div ROB_DEPTH
        ELSE IF req[2 * n] /\ req[2 * n + 1] THEN pos_tmp[u][n]
        ELSE IF req[2 * n] THEN p[2 * n]
        ELSE IF req[2 * n + 1] THEN p[2 * n + 1]
        ELSE 0
  IN  [n \in Node |-> p[n]]

Ptr(i) == rs_entry[i].tag % ROB_DEPTH

\* Mutant of Before: the pointers are compared without the position bits.
BeforePtrOnly(p, q, i, j) == Ptr(i) < Ptr(j)

\* Station i with position bit p wins against station j with position bit q.
Before(p, q, i, j) == IF p = q THEN Ptr(i) < Ptr(j) ELSE Ptr(i) > Ptr(j)

\* The station each node passes up.
idx_tmp(u) ==
  LET req == req_tmp(u)
      pos == SettledPos(u)
      idx[n \in Node] ==
        LET l == idx[2 * n]
            r == idx[2 * n + 1]
        IN  IF n >= RS_DEPTH THEN n - RS_DEPTH
            ELSE IF req[2 * n] /\ req[2 * n + 1]
              THEN IF Before(pos[2 * n], pos[2 * n + 1], l, r) THEN l ELSE r
            ELSE IF req[2 * n] THEN l
            ELSE IF req[2 * n + 1] THEN r
            ELSE 0
  IN  idx

gnt(u) == IF Requests(u) # {} THEN {idx_tmp(u)[1]} ELSE {}

issue_en == UNION {gnt(u) : u \in Fu}

---------------------------------------------------------------------------
(* The stations at the next edge; cdb is the set of results of this cycle,   *)
(* rs_use_en that of the stations that issue in it                          *)

\* Mutant of Load: a result on the cdb in the cycle of dispatch is missed.
LoadWithoutForward(l, cdb) ==
  [in_use |-> TRUE, tag |-> LaneTag(l), fu |-> pipe_rename_pkt[l].fu,
   srcs |-> pipe_rename_pkt[l].srcs, waits |-> pipe_rename_pkt[l].srcs,
   wake_up |-> pipe_rename_pkt[l].srcs = {}]

\* The wakeup taken at the load looks only at the ready bits that come with the
\* packet; the ready bits stored also at the cdb.
Load(l, cdb) ==
  [in_use  |-> TRUE,
   tag     |-> LaneTag(l),
   fu      |-> pipe_rename_pkt[l].fu,
   srcs    |-> pipe_rename_pkt[l].srcs,
   waits   |-> pipe_rename_pkt[l].srcs \ cdb,
   wake_up |-> pipe_rename_pkt[l].srcs = {}]

\* Mutant of NextStation: a station is only woken when it is loaded.
WakeOnlyAtLoad(i, cdb, rs_use_en) ==
  IF pipe_flush \/ i \in rs_use_en THEN EmptyStation
  ELSE IF alloc_sel(i) # {} THEN Load(CHOOSE l \in alloc_sel(i) : TRUE, cdb)
  ELSE [rs_entry[i] EXCEPT !.waits = @ \ cdb]

\* Mutant of NextStation: a flush does not clear a station that is awake.
FlushKeepsAwake(i, cdb, rs_use_en) ==
  IF (pipe_flush /\ ~rs_entry[i].wake_up) \/ i \in rs_use_en THEN EmptyStation
  ELSE IF alloc_sel(i) # {} THEN Load(CHOOSE l \in alloc_sel(i) : TRUE, cdb)
  ELSE [rs_entry[i] EXCEPT !.waits = @ \ cdb,
                           !.wake_up = @ \/ (rs_entry[i].in_use /\ rs_entry[i].waits = {})]

NextStation(i, cdb, rs_use_en) ==
  IF pipe_flush \/ i \in rs_use_en THEN EmptyStation
  ELSE IF alloc_sel(i) # {} THEN Load(CHOOSE l \in alloc_sel(i) : TRUE, cdb)
  ELSE [rs_entry[i] EXCEPT !.waits = @ \ cdb,
                           !.wake_up = @ \/ (rs_entry[i].in_use /\ rs_entry[i].waits = {})]

---------------------------------------------------------------------------
(* One clock cycle *)

\* A redirect retires last, and takes everything younger with it.
Retirable == {n \in 0 .. MACHINE_WIDTH :
                n <= Count(head, tail) /\ \A k \in 0 .. (n - 1) : After(head, k) \in complete}

DecodedGroup ==
  {g \in [Lane -> Decoded \cup {None}] :
     \A a, b, c \in Lane : (a <= b /\ b <= c /\ g[a] # None /\ g[c] # None)
                             => g[b] # None}

\* Every lane must be ready, in this bank and in the reorder buffer.
rename_pkt_ready(n) ==
  /\ \A k \in Lane : dispatch_pkt_ready(k)
  /\ Count(head, tail) - n + DispatchCount + MACHINE_WIDTH <= ROB_DEPTH

\* The renamed group: its instructions follow those being dispatched, and a
\* source counts while its writer is in flight and not on the cdb.
rename_pkt(d, cdb) ==
  LET tag(l)   == After(tail, DispatchCount + Position(d, l))
      older(l) == (InFlight \ (complete \cup cdb))
                    \cup {After(tail, k) : k \in 0 .. (DispatchCount + Position(d, l) - 1)}
      regs(l)  == {After(tag(l), 2 * ROB_DEPTH - back) : back \in d[l].srcs}
  IN  [l \in Lane |-> IF d[l] = None THEN None
                      ELSE [fu |-> d[l].fu, srcs |-> regs(l) \cap older(l)]]

Issued == {rs_entry[i].tag : i \in issue_en}

OtherBank == {LaneTag(l) : l \in {m \in Lane : pipe_rename_pkt[m] # None} \ Valid}

\* The stations in a cycle in which cdb are the results, and no flush.
Cycle(cdb) ==
  /\ ~pipe_flush
  /\ LET rs_use_en == issue_en
     IN  rs_entry' = [i \in Station |-> NextStation(i, cdb, rs_use_en)]
  /\ pos_tmp' = [u \in Fu |-> LET p == SettledPos(u) IN [k \in Inner |-> p[k]]]
  /\ tail' = After(tail, DispatchCount)
  /\ executing' = (executing \cup Issued \cup OtherBank) \ cdb

\* The pipeline around them: group d is decoded, n instructions retire, and if
\* redirect holds the last of them redirects the front end.
Advance(d, cdb, n, redirect) ==
  /\ pipe_rename_pkt' = rename_pkt(d, cdb)
  /\ head' = After(head, n)
  /\ complete' = (complete \cup cdb) \ {After(head, k) : k \in 0 .. (n - 1)}
  /\ pipe_flush' = redirect

FlushCycle ==
  /\ pipe_flush
  /\ rs_entry' = [i \in Station |-> NextStation(i, {}, issue_en)]
  /\ pos_tmp' = [u \in Fu |-> LET p == SettledPos(u) IN [k \in Inner |-> p[k]]]
  /\ pipe_rename_pkt' = NoGroup
  /\ head' = 0
  /\ tail' = 0
  /\ executing' = {}
  /\ complete' = {}
  /\ pipe_flush' = FALSE

Init ==
  /\ rs_entry = [i \in Station |-> EmptyStation]
  /\ pos_tmp = [u \in Fu |-> [n \in Inner |-> 0]]
  /\ pipe_rename_pkt = NoGroup
  /\ head = 0
  /\ tail = 0
  /\ executing = {}
  /\ complete = {}
  /\ pipe_flush = FALSE

Renamed(n, redirect) ==
  IF ~redirect /\ rename_pkt_ready(n) THEN DecodedGroup ELSE {NoGroup}

Next ==
  \/ FlushCycle
  \/ \E cdb \in SUBSET executing :
       /\ Cycle(cdb)
       /\ \E n \in Retirable : \E redirect \in (IF n = 0 THEN {FALSE} ELSE BOOLEAN) :
            \E d \in Renamed(n, redirect) : Advance(d, cdb, n, redirect)

Spec == Init /\ [][Next]_vars

TypeOK ==
  /\ rs_entry \in [Station -> RsEntry]
  /\ \A i \in Station : rs_entry[i].waits \subseteq rs_entry[i].srcs
  /\ pos_tmp \in [Fu -> [Inner -> {0, 1}]]
  /\ pipe_rename_pkt \in [Lane -> Packet \cup {None}]
  /\ {head, tail} \subseteq Tag
  /\ executing \cup complete \subseteq InFlight
  /\ executing \cap complete = {}
  /\ pipe_flush \in BOOLEAN

---------------------------------------------------------------------------
(* Properties *)

Holders(t) == {i \in Station : rs_entry[i].in_use /\ rs_entry[i].tag = t}

\* An instruction dispatched and neither issued nor flushed is in exactly one
\* station: none is dropped because its lane was granted no station, none is
\* overwritten, none issues twice.
EveryInstructionHeld ==
  /\ \A i \in Station : rs_entry[i].in_use => rs_entry[i].tag \in InFlight
  /\ \A t \in InFlight :
       Cardinality(Holders(t)) = IF t \in executing \cup complete THEN 0 ELSE 1

\* A station waits for exactly the sources that are not written yet, and is
\* awake only when there are none: no result is missed, in the cycle of
\* dispatch either, and nothing issues before its operands are written.
OperandsTracked ==
  \A i \in Station : rs_entry[i].in_use =>
    /\ rs_entry[i].waits = {t \in rs_entry[i].srcs : t \in InFlight \ complete}
    /\ rs_entry[i].wake_up => rs_entry[i].waits = {}

Oldest(S) == {i \in S : \A j \in S : Count(head, rs_entry[i].tag) <= Count(head, rs_entry[j].tag)}

\* "oldest first issue policy" (rs_bank.sv): a unit takes the oldest of the
\* instructions that are ready for it.
OldestFirst == \A u \in Fu : gnt(u) = Oldest(Requests(u))

\* The bit of every node is that of the station it passes up.
LatchesCurrent(u) ==
  LET req == req_tmp(u)
      pos == SettledPos(u)
      idx == idx_tmp(u)
  IN  \A n \in Inner : req[n] => pos[n] = rs_entry[idx[n]].tag \div ROB_DEPTH

\* The comparator tree picks the oldest request, on both sides of a pointer
\* wrap, unless one of its nodes holds the position bit of an earlier cycle.
OldestUnlessStale ==
  \A u \in Fu : LatchesCurrent(u) => gnt(u) = Oldest(Requests(u))

---------------------------------------------------------------------------
(* Liveness: again and again every result awaited arrives in a cycle in     *)
(* which whatever can retire does.                                          *)

HelpfulCycle ==
  \/ FlushCycle
  \/ /\ Cycle(executing)
     /\ \E n \in Retirable :
          /\ \A m \in Retirable : m <= n
          /\ \E d \in Renamed(n, FALSE) : Advance(d, executing, n, FALSE)

FairSpec == Spec /\ WF_vars(HelpfulCycle)

\* Every instruction that enters a station issues or is flushed, although the
\* selection is not always the oldest.
EveryInstructionIssues == \A i \in Station : rs_entry[i].in_use ~> ~rs_entry[i].in_use
===============================================================================
