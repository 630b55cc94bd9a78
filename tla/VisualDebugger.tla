---------------------------- MODULE VisualDebugger ----------------------------
(***************************************************************************)
(* The visual debugger: visual_testbench.v and visual_c_hooks.cpp.         *)
(*                                                                         *)
(* The simulation prints a dump of the processor at every clock edge to a  *)
(* pipe and waits for a reply on another one.  The process initcurses      *)
(* forks reads the dumps line by line into a ring of NUM_HISTORY slots,    *)
(* shows one of them, and lets the user walk through the ring, let the     *)
(* simulation run, or run it to a given time.                              *)
(*                                                                         *)
(* A dump is named by its edge, 0, 1, ..., and every line carries it; what *)
(* a line says is abstracted to the edge it was printed at.  The register  *)
(* groups (IF, IF/ID, ... and miscellaneous) are the prefixes of           *)
(* GroupLines.  The curses windows are the record screen.                  *)
(***************************************************************************)
EXTENDS Integers, Sequences, FiniteSetsExt

CONSTANTS
  NUM_HISTORY,
  GroupLines,   \* the prefixes of the register lines of a dump, in their order
  MaxEdge,      \* the program halts before this edge at the latest
  ResetEdges,   \* edges printed while reset is high
  StopTimes,    \* what the user may enter in get_time
  None

ASSUME VisualAssumption ==
  /\ NUM_HISTORY \in Nat /\ NUM_HISTORY > 1
  /\ GroupLines \in Seq({"f", "g", "d", "h", "e", "i", "m", "j", "w", "v"})
  /\ MaxEdge \in Nat /\ ResetEdges \in 1 .. MaxEdge
  /\ StopTimes \subseteq Nat
  /\ None \notin Nat

VARIABLES
  \* the simulation
  edge,             \* dumps printed so far
  sim,              \* "run", "wait" for a reply, "halted": DONE printed and waiting
  stdout, replies,  \* the two pipes
  \* the child: reading
  history,          \* slot -> place -> the edge its contents are from
  history_num,      \* the slot being filled
  reg_num,          \* prefix -> the static counters of processinput
  setup_registers, allocated,
  done_received, done_time, time_wrapped,
  \* the child: showing
  child,            \* "top" of the main loop, "keys", "exited", "crashed"
  hist_num_temp, screen, echo_data, running,
  goto_flag, cycle_flag, stop_time,
  i                 \* where the last search of the history ended

simVars == <<edge, sim>>
inputVars == <<history, reg_num, setup_registers, allocated>>
ringVars == <<history_num, time_wrapped, done_received, done_time>>
gotoVars == <<goto_flag, cycle_flag, stop_time, i>>
viewVars == <<hist_num_temp, screen>>
runVars == <<echo_data, running>>
vars == <<simVars, stdout, replies, inputVars, ringVars, child, viewVars,
          runVars, gotoVars>>

Slot == 0 .. (NUM_HISTORY - 1)
Groups == {GroupLines[n] : n \in DOMAIN GroupLines}
Singles == {"c", "t", "z", "a", "p"}
\* The arguments of initcurses: how many registers a group has.
num_regs(g) == Cardinality({n \in DOMAIN GroupLines : GroupLines[n] = g})
Registers == UNION {{g} \X (0 .. (num_regs(g) - 1)) : g \in Groups}
Place == (Singles \X {0}) \cup Registers
Unfilled == [p \in Place |-> None]

---------------------------------------------------------------------------
(* The simulation.                                                         *)

Line(k) == [kind |-> k, edge |-> edge]
Dump == [n \in 1 .. (6 + Len(GroupLines)) |->
           Line((<<"c", "t", "z", "a", "p">> \o GroupLines \o <<"break">>)[n])]
Done == <<Line(""), Line("DONE"), Line("")>>

\* Half a clock period is one unit of time; clock_count is zero during reset.
Time(e) == e + 1
Cycle(e) == IF e < ResetEdges THEN 0 ELSE (e + 2 - ResetEdges) \div 2
Clock(e) == e % 2

NoReader == child \in {"exited", "crashed"}

\* always @(clock): print a dump, then wait.
DumpEdge ==
  /\ sim = "run" /\ edge < MaxEdge
  /\ edge' = edge + 1
  /\ IF NoReader THEN sim' = "exited" /\ UNCHANGED stdout
                 ELSE sim' = "wait" /\ stdout' = stdout \o Dump
  /\ UNCHANGED <<replies, inputVars, ringVars, child, viewVars, runVars, gotoVars>>

\* always @(negedge clock): the processor reports an error status or a halt.
Halt ==
  /\ sim = "run" /\ edge > ResetEdges
  /\ IF NoReader THEN sim' = "exited" /\ UNCHANGED stdout
                 ELSE sim' = "halted" /\ stdout' = stdout \o Done
  /\ UNCHANGED <<edge, replies, inputVars, ringVars, child, viewVars, runVars, gotoVars>>

\* After an 'n' and its two bytes the simulation goes on; after DONE it
\* would read one byte more and finish.
waitforresponse ==
  /\ sim \in {"wait", "halted"} /\ replies # <<>>
  /\ replies' = Tail(replies)
  /\ sim' = IF Head(replies) = "Z" THEN "exited"
            ELSE IF sim = "halted" THEN "finished" ELSE "run"
  /\ UNCHANGED <<edge, stdout, inputVars, ringVars, child, viewVars, runVars, gotoVars>>

---------------------------------------------------------------------------
(* The child's display.                                                    *)

\* The pulse is drawn again when the value changes and, strncmp returning 1,
\* when the slot being filled says cycle 1.
update_clock(val, h) ==
  IF val # screen.cur_clock_val \/ (/\ history[h][<<"c", 0>>] # None
                                    /\ Cycle(history[h][<<"c", 0>>]) = 1)
  THEN val ELSE screen.clock

Title(k, done) ==
  IF history[k][<<"z", 0>>] # None /\ history[k][<<"z", 0>>] < ResetEdges THEN "RESET"
  ELSE IF done # 0 /\ k = done THEN "DONE" ELSE ""

\* The screen after parsedata(k): registers that differ from the slot shown
\* before, as that slot is now, are inverted.
parsedata(k, h, done) ==
  LET val == IF history[k][<<"c", 0>>] = None THEN 0 ELSE Clock(history[k][<<"c", 0>>]) IN
  [slot |-> k, sample |-> history[k], title |-> Title(k, done),
   inverted |-> {p \in Registers \cup {<<"a", 0>>} : history[k][p] # history[screen.slot][p]},
   clock |-> update_clock(val, h), cur_clock_val |-> val]

---------------------------------------------------------------------------
(* The main loop: a line, and after "break" or DONE the newest slot.       *)

\* Mutant of Ended: DONE ends only a goto, whose time never came.
GotoEnded(done) == echo_data = 0 /\ done /\ goto_flag

\* DONE ends a run, and the newest slot is shown.
Ended(done) == echo_data = 0 /\ done

\* Mutant of Reply: DONE is answered too.
ReplyAlways(done) == Append(replies, "n")

\* The reply that lets the simulation go on is sent before the user has said so.
Reply(done) == IF done THEN replies ELSE Append(replies, "n")

\* The loop from the comparison with DONE to the wait for a key; a negative
\* history_num stays negative under % and indexes before the arrays.
ShowNewest(done) ==
  LET newest == IF Ended(done) THEN history_num - 1 ELSE history_num
      time == IF done THEN history_num - 1 ELSE done_time
      next == (newest + 1) % NUM_HISTORY
  IN
  /\ done_received' = done
  /\ done_time' = time
  /\ IF newest < 0
     THEN child' = "crashed" /\ UNCHANGED <<history_num, time_wrapped, replies, viewVars, runVars>>
     ELSE /\ child' = "keys"
          /\ echo_data' = IF Ended(done) THEN 1 ELSE echo_data
          /\ running' = (running /\ ~Ended(done))
          /\ screen' = IF echo_data' = 1 THEN parsedata(newest, newest, time) ELSE screen
          /\ history_num' = next
          /\ time_wrapped' = (time_wrapped \/ newest + 1 = NUM_HISTORY)
          /\ replies' = Reply(done)
          /\ hist_num_temp' = IF next = 0 THEN NUM_HISTORY - 1 ELSE next - 1

Reads(kinds) ==
  /\ child = "top" /\ ~done_received
  /\ stdout # <<>> /\ Head(stdout).kind \in kinds
  /\ stdout' = Tail(stdout)

\* Time, clock, reset, registers of the program and instructions.
ReadSingle ==
  /\ Reads(Singles)
  /\ history' = [history EXCEPT ![history_num][<<Head(stdout).kind, 0>>] = Head(stdout).edge]
  /\ UNCHANGED <<simVars, replies, reg_num, setup_registers, allocated, ringVars, child,
                 viewVars, runVars, gotoVars>>

\* parse_register, in the first dump, makes room for the register in every slot.
parse_register(p) == IF setup_registers THEN allocated ELSE allocated \cup {p}

ReadRegister ==
  /\ Reads(Groups)
  /\ LET p == <<Head(stdout).kind, reg_num[Head(stdout).kind]>> IN
     /\ allocated' = parse_register(p)
     /\ reg_num' = [reg_num EXCEPT ![p[1]] = @ + 1]
     /\ IF p \in allocated' \cap Registers
        THEN history' = [history EXCEPT ![history_num][p] = Head(stdout).edge] /\ UNCHANGED child
        ELSE child' = "crashed" /\ UNCHANGED history
  /\ UNCHANGED <<simVars, replies, setup_registers, ringVars, viewVars, runVars, gotoVars>>

\* Mutant of ResetCounters: the miscellaneous registers are forgotten.
ResetAllButMisc == [g \in Groups |-> IF g = "v" THEN reg_num[g] ELSE 0]

ResetCounters == [g \in Groups |-> 0]

ReadBreak ==
  /\ Reads({"break"})
  /\ setup_registers' = TRUE
  /\ reg_num' = ResetCounters
  /\ ShowNewest(FALSE)
  /\ UNCHANGED <<simVars, history, allocated, gotoVars>>

ReadDone ==
  /\ Reads({"DONE"})
  /\ ShowNewest(TRUE)
  /\ UNCHANGED <<simVars, inputVars, gotoVars>>

ReadBlank ==
  /\ Reads({""})
  /\ UNCHANGED <<simVars, replies, inputVars, ringVars, child, viewVars, runVars, gotoVars>>

\* After DONE nothing is read any more, and the newest slot is shown again.
Again ==
  /\ child = "top" /\ done_received
  /\ ShowNewest(TRUE)
  /\ UNCHANGED <<simVars, stdout, inputVars, gotoVars>>

---------------------------------------------------------------------------
(* The keys.                                                               *)

TimeAt(k, cycle, otherwise) ==
  LET e == history[k][<<IF cycle THEN "c" ELSE "t", 0>>] IN
  IF e = None THEN otherwise ELSE IF cycle THEN Cycle(e) ELSE Time(e)

KeyVars == <<simVars, stdout, replies, inputVars, ringVars>>

\* Out of the key loop, and the check whether a goto is there.
LeaveKeys(echo, run, goto, cycle, stop) ==
  LET there == goto /\ (TimeAt(hist_num_temp, cycle, 0) >= stop \/ done_received) IN
  /\ child = "keys" /\ child' = "top"
  /\ echo_data' = IF there THEN 1 ELSE echo
  /\ running' = (run /\ ~there)
  /\ goto_flag' = (goto /\ ~there)
  /\ cycle_flag' = cycle /\ stop_time' = stop

Show(k) ==
  /\ hist_num_temp' = k
  /\ screen' = parsedata(k, history_num, done_time)

\* While the simulation runs getch does not wait, and no key but 'p' counts.
NoKey ==
  /\ running
  /\ LeaveKeys(echo_data, running, goto_flag, cycle_flag, stop_time)
  /\ UNCHANGED <<KeyVars, viewVars, i>>

KeyPause ==
  /\ child = "keys"
  /\ Show(hist_num_temp)
  /\ IF running THEN LeaveKeys(1, FALSE, goto_flag, cycle_flag, stop_time)
     ELSE echo_data' = 1 /\ UNCHANGED <<child, running, goto_flag, cycle_flag, stop_time>>
  /\ UNCHANGED <<KeyVars, i>>

\* In C -1 % NUM_HISTORY is -1, so with history_num at 0 no slot is the newest.
AtNewest == hist_num_temp = history_num - 1

KeyNextEdge ==
  /\ ~running /\ AtNewest /\ ~done_received
  /\ LeaveKeys(echo_data, running, goto_flag, cycle_flag, stop_time)
  /\ UNCHANGED <<KeyVars, viewVars, i>>

KeyForward ==
  /\ child = "keys" /\ ~running /\ ~AtNewest
  /\ Show((hist_num_temp + 1) % NUM_HISTORY)
  /\ UNCHANGED <<KeyVars, child, runVars, gotoVars>>

\* Mutant of KeyBack: the ring is taken to be full.
BackWithoutWrapCheck ==
  /\ child = "keys" /\ ~running
  /\ \/ hist_num_temp > 0 /\ Show(hist_num_temp - 1)
     \/ hist_num_temp = 0 /\ Show(NUM_HISTORY - 1)
  /\ UNCHANGED <<KeyVars, child, runVars, gotoVars>>

KeyBack ==
  /\ child = "keys" /\ ~running
  /\ \/ hist_num_temp > 0 /\ Show(hist_num_temp - 1)
     \/ hist_num_temp = 0 /\ time_wrapped /\ Show(NUM_HISTORY - 1)
  /\ UNCHANGED <<KeyVars, child, runVars, gotoVars>>

KeyRun ==
  /\ ~running
  /\ LeaveKeys(0, TRUE, goto_flag, cycle_flag, stop_time)
  /\ UNCHANGED <<KeyVars, viewVars, i>>

KeyQuit ==
  /\ child = "keys" /\ ~running
  /\ child' = "exited"
  /\ replies' = Append(replies, "Z")
  /\ UNCHANGED <<simVars, stdout, inputVars, ringVars, viewVars, runVars, gotoVars>>

\* get_time: up to six digits.
get_time == StopTimes

\* The slots the search of the history visits: those from the one beside the
\* slot shown to the one before history_num.  Before the ring has wrapped a
\* search backwards ends at slot 0, unless it meets history_num first; from slot
\* 0 it goes on to the last slot.
Beside(d, n) == (hist_num_temp + d * n) % NUM_HISTORY
Distance(d) == LET n == (d * (history_num - hist_num_temp)) % NUM_HISTORY IN
               IF n = 0 THEN NUM_HISTORY ELSE n
Searches(d) == (d = -1 /\ hist_num_temp = 0) \/ Beside(d, 1) # history_num
GivesUp(d) == d = -1 /\ ~time_wrapped /\ hist_num_temp \in 1 .. history_num
Visited(d) == IF ~Searches(d) THEN {}
              ELSE 1 .. (IF GivesUp(d) THEN hist_num_temp ELSE Distance(d) - 1)

\* How far the first slot is that satisfies the search, as a set.  A slot not
\* filled yet has no number to scan, and cur_time keeps its value, which is
\* any value if no slot was scanned before.
Hits(d, cycle, stop, cur) ==
  LET ok(n) == LET t == TimeAt(Beside(d, n), cycle, cur) IN
               IF d = 1 THEN t >= stop ELSE t =< stop
      all == {n \in Visited(d) : ok(n)}
  IN IF all = {} THEN {} ELSE {Min(all)}

\* Where i stands afterwards: if nothing was visited it keeps its old value.
LastVisited(d, hits) ==
  IF hits # {} THEN Beside(d, Max(hits))
  ELSE IF Searches(d) THEN (IF GivesUp(d) THEN 0 ELSE history_num) ELSE i

KeyGoto ==
  /\ child = "keys" /\ ~running
  /\ \E cycle \in BOOLEAN, asked \in get_time, junk \in get_time :
       LET cur == TimeAt(hist_num_temp, cycle, junk)
           d == IF asked > cur THEN 1 ELSE -1
           hits == Hits(d, cycle, asked, cur)
           last == LastVisited(d, hits)
           forget == \/ hits # {} \/ (Searches(d) /\ GivesUp(d))
                     \/ last = history_num /\ (d = -1 \/ done_received)
           stop == IF forget THEN 0 ELSE asked
       IN
       /\ i' = last
       /\ IF hits # {} THEN Show(last)
          ELSE IF Searches(d) /\ GivesUp(d) THEN Show(hist_num_temp)
          ELSE UNCHANGED viewVars
       /\ IF stop > 0 THEN LeaveKeys(0, TRUE, TRUE, cycle, stop)
          ELSE /\ cycle_flag' = cycle /\ stop_time' = stop
               /\ UNCHANGED <<child, runVars, goto_flag>>
  /\ UNCHANGED KeyVars

---------------------------------------------------------------------------
\* initcurses: the ring is allocated and the child forked before the first edge.
Init ==
  /\ edge = 0 /\ sim = "run" /\ stdout = <<>> /\ replies = <<>>
  /\ history = [k \in Slot |-> Unfilled]
  /\ history_num = 0
  /\ reg_num = [g \in Groups |-> 0]
  /\ setup_registers = FALSE /\ allocated = {}
  /\ done_received = FALSE /\ done_time = -1 /\ time_wrapped = FALSE
  /\ child = "top" /\ hist_num_temp = 0
  /\ screen = [slot |-> 0, sample |-> Unfilled, title |-> "", inverted |-> {},
               clock |-> None, cur_clock_val |-> 0]
  /\ echo_data = 1 /\ running = FALSE
  /\ goto_flag = FALSE /\ cycle_flag = FALSE /\ stop_time = 0
  /\ i = NUM_HISTORY

Simulation == DumpEdge \/ Halt \/ waitforresponse
MainLoop == ReadSingle \/ ReadRegister \/ ReadBreak \/ ReadDone \/ ReadBlank \/ Again \/ NoKey
Keys == KeyPause \/ KeyNextEdge \/ KeyForward \/ KeyBack \/ KeyRun \/ KeyQuit \/ KeyGoto

Next == Simulation \/ MainLoop \/ Keys
Spec == Init /\ [][Next]_vars
\* Both processes are scheduled; the user need not press a key.
FairSpec == Spec /\ WF_vars(Simulation) /\ WF_vars(MainLoop)
---------------------------------------------------------------------------
(* Properties.                                                             *)

\* Dumps the child has read to the end.
Complete == edge - Cardinality({n \in DOMAIN stdout : stdout[n].kind = "break"})

\* The last of them that was put into slot k.
Latest(k) ==
  LET held == {e \in 0 .. (Complete - 1) : e % NUM_HISTORY = k} IN
  IF held = {} THEN None ELSE Max(held)

\* Whenever the user can press a key every slot holds one whole dump, and the
\* ring holds the latest ones: no line of a dump, and none of the dump the
\* simulation may be printing meanwhile, ends in another dump's slot.  The child
\* leaves its arrays in one case only, a run that ends while history_num is 0.
HistoryHoldsLatest ==
  /\ child = "keys" => /\ \A k \in Slot, p \in Place : history[k][p] = Latest(k)
                       /\ done_received \/ history_num = Complete % NUM_HISTORY
  /\ child = "crashed" => done_received /\ history_num = 0

\* The simulation is never more than one edge ahead of the newest slot, and the
\* two processes never wait for each other: while the child waits for a line
\* the simulation is running, or has a line or a reply under way.  The wait
\* after DONE is only ended by the user's 'q', so $finish is never reached.
OneDumpAhead ==
  /\ edge - Complete =< 1 /\ Cardinality({n \in DOMAIN replies : replies[n] = "n"}) =< 1
  /\ (child = "top" /\ ~done_received) => sim = "run" \/ stdout # <<>> \/ replies # <<>>
  /\ sim # "finished"

\* The edge on the screen.
OnScreen == screen.sample[<<"t", 0>>]
\* DONE read while single-stepping, and each goto after it, puts a slot without
\* a sample into the ring; NUM_HISTORY of them wrap a ring that is not full.
OnlySamples == /\ history_num = Complete % NUM_HISTORY
               /\ time_wrapped => Complete >= NUM_HISTORY

\* The oldest edge in the ring; the newest is Complete - 1.
Oldest == IF Complete >= NUM_HISTORY THEN Complete - NUM_HISTORY ELSE 0

\* While the ring holds nothing but samples, the keys walk it edge by edge: 'b'
\* shows the edge before whenever the ring holds one, 'n' the edge after, across
\* the end of the arrays too.  No key shows a slot without a sample, and the
\* clock drawn is that of the edge shown, once a clock has been drawn.
KeysWalkByEdges ==
  [][ OnlySamples /\ child = "keys" /\ OnScreen # None =>
        /\ (KeyBack /\ OnScreen > Oldest => OnScreen' = OnScreen - 1)
        /\ (KeyForward /\ OnScreen < Complete - 1 => OnScreen' = OnScreen + 1)
        /\ (KeyBack \/ KeyForward => /\ OnScreen' \in Oldest .. (Complete - 1)
                                     /\ screen'.clock \in {Clock(OnScreen'), None}) ]_vars

\* What the instructions on the screen say of the two keys, "'n' -> Next clock
\* edge" and "'b' -> Previous clock edge", wherever they show another slot.
KeysFollowInstructions ==
  [][ OnlySamples /\ child = "keys" /\ OnScreen # None =>
        /\ (KeyBack => OnScreen' = OnScreen - 1)
        /\ (KeyForward => OnScreen' = OnScreen + 1) ]_vars

\* A run ('r', 'g' or 'c') comes to an end without a key: at the time asked for
\* or at the end of the program.  The one exception is a program that ends while
\* history_num is 0.
RunReturns == running ~> (~running \/ child = "crashed")
=============================================================================
