-------------------------- MODULE PredictionTable --------------------------
(***************************************************************************)
(* The prediction table ptab.sv, as backend.sv connects it: an entry keeps *)
(* what the front end predicted for a branch from the cycle its group is   *)
(* accepted until the branch unit has executed it and compared the two.    *)
(*                                                                         *)
(* The branches accepted and not executed appear as a bag: between them    *)
(* and the table there is only the tag that travels with the branch,       *)
(* through pipe_ptab_tag, a reservation station and the issue registers.   *)
(* They execute in any order, after any number of cycles.  An older        *)
(* instruction may redirect the pipeline in any cycle, and pipe_flush      *)
(* follows in the next one.                                                *)
(*                                                                         *)
(* One step is one clock cycle.                                            *)
(***************************************************************************)
EXTENDS Integers, FiniteSets, PselGen

CONSTANTS
  PTAB_DEPTH,
  MACHINE_WIDTH,
  PC_COUNT,       \* instruction addresses are 0 .. PC_COUNT - 1
  Predicted,      \* [pc, dir, target] of the branches the front end delivers
  None            \* an empty lane, or one that holds no branch

Pc == 0 .. (PC_COUNT - 1)
Entry == 0 .. (PTAB_DEPTH - 1)
Lane == 0 .. (MACHINE_WIDTH - 1)

\* A branch in flight: the tag it carries, and what was predicted for it.
Branch == [tag : Entry, predicted : Predicted]

ASSUME TableAssumption ==
  /\ {PTAB_DEPTH, MACHINE_WIDTH, PC_COUNT} \subseteq Nat \ {0}
  /\ PTAB_DEPTH >= MACHINE_WIDTH
  /\ Predicted \subseteq [pc : Pc, dir : BOOLEAN, target : Pc]
  /\ None \notin Predicted
  /\ None \notin Branch
  /\ None \notin [tag : Entry, dir : BOOLEAN, target : Pc]
  /\ None \notin [predicted : Pc, actual : Pc]

VARIABLES
  ptab_entry,
  unresolved,   \* how many such branches have been accepted and not executed
  pipe_bru,     \* verdict on the branch executed in the previous cycle
  resolved,     \* where it was predicted to go and where it goes, or None
  pipe_flush

vars == <<ptab_entry, unresolved, pipe_bru, resolved, pipe_flush>>

\* Mutant of NextPc: an address register one bit too wide.
NextPcTooWide(pc) == pc + 1

\* Instruction addresses wrap as XLEN bits do.
NextPc(pc) == (pc + 1) % PC_COUNT

EmptyEntry == [valid |-> FALSE, predict_dir |-> FALSE, predict_pc |-> 0, next_pc |-> 0]
NoVerdict == [branch_misp |-> FALSE, next_pc |-> 0]

Invalidated(e) == [e EXCEPT !.valid = FALSE]

---------------------------------------------------------------------------
(* Allocation *)

ptab_avail == {i \in Entry : ~ptab_entry[i].valid}

ptab_tag(l) == Encoded(Grant(l, ptab_avail))

\* Mutant of fetch_pkt_ready: one free entry is enough for a group.
AnyAvailable == ptab_avail # {}

fetch_pkt_ready == Cardinality(ptab_avail) >= MACHINE_WIDTH

\* branch_mask is set for exactly the branches.
FetchGroup == [Lane -> Predicted \cup {None}]

NoGroup == [l \in Lane |-> None]

\* A group is taken by the table and by renaming together or not at all.
Accepted == IF fetch_pkt_ready THEN FetchGroup ELSE {NoGroup}

---------------------------------------------------------------------------
(* Execution.  x is the branch in the branch unit, or None: its tag, and the *)
(* direction and the target found. *)

PredictedTaken(x) == ptab_entry[x.tag].valid /\ ptab_entry[x.tag].predict_dir

\* Mutant of bru_branch_misp: the direction is compared and the target is not.
DirectionMisp(x) == x.dir # PredictedTaken(x)

bru_branch_misp(x) ==
  \/ ~x.dir /\ PredictedTaken(x)
  \/ x.dir /\ ~(PredictedTaken(x) /\ ptab_entry[x.tag].predict_pc = x.target)

bru_next_pc(x) == IF x.dir THEN x.target ELSE ptab_entry[x.tag].next_pc

Verdict(x) ==
  IF x # None /\ bru_branch_misp(x)
    THEN [branch_misp |-> TRUE, next_pc |-> bru_next_pc(x)]
    ELSE NoVerdict

\* Mutant of Releases: the entry is kept when the prediction was wrong, for
\* the flush to clear.
ReleasesCorrect(x, i) == x # None /\ i = x.tag /\ ~bru_branch_misp(x)

Releases(x, i) == x # None /\ i = x.tag

\* Lanes whose branch is given entry i.
Takers(g, i) == {l \in Lane : g[l] # None /\ ptab_tag(l) = i}

NextEntry(i, x, g) ==
  IF Releases(x, i) THEN Invalidated(ptab_entry[i])
  ELSE IF fetch_pkt_ready /\ Takers(g, i) # {}
    THEN LET p == g[CHOOSE l \in Takers(g, i) : \A m \in Takers(g, i) : l <= m]
         IN  [valid |-> TRUE, predict_dir |-> p.dir, predict_pc |-> p.target,
              next_pc |-> NextPc(p.pc)]
  ELSE ptab_entry[i]

---------------------------------------------------------------------------

InFlight == {b \in Branch : unresolved[b] > 0}

\* The lanes of an accepted group whose branch is b from now on.
Tagged(g, b) == {l \in Lane : g[l] = b.predicted /\ ptab_tag(l) = b.tag}

Destination(pc, dir, target) == IF dir THEN target ELSE NextPc(pc)

\* Branch b, if it is not None, executes and finds dir and target.
Cycle(b, dir, target, g, redirect) ==
  LET x == IF b = None THEN None ELSE [tag |-> b.tag, dir |-> dir, target |-> target]
      p == b.predicted
  IN  /\ ~pipe_flush
      /\ ptab_entry' = [i \in Entry |-> NextEntry(i, x, g)]
      /\ unresolved' = [c \in Branch |-> (IF c = b THEN unresolved[c] - 1 ELSE unresolved[c])
                                            + Cardinality(Tagged(g, c))]
      /\ pipe_bru' = Verdict(x)
      /\ resolved' = IF b = None THEN None
                     ELSE [predicted |-> Destination(p.pc, p.dir, p.target),
                           actual    |-> Destination(p.pc, dir, target)]
      /\ pipe_flush' = redirect

FlushCycle ==
  /\ pipe_flush
  /\ ptab_entry' = [i \in Entry |-> Invalidated(ptab_entry[i])]
  /\ unresolved' = [b \in Branch |-> 0]
  /\ pipe_bru' = NoVerdict
  /\ resolved' = None
  /\ pipe_flush' = FALSE

Init ==
  /\ ptab_entry = [i \in Entry |-> EmptyEntry]
  /\ unresolved = [b \in Branch |-> 0]
  /\ pipe_bru = NoVerdict
  /\ resolved = None
  /\ pipe_flush = FALSE

Next ==
  \/ FlushCycle
  \/ \E g \in Accepted, redirect \in BOOLEAN :
       \/ Cycle(None, FALSE, 0, g, redirect)
       \/ \E b \in InFlight, dir \in BOOLEAN, target \in Pc :
            Cycle(b, dir, target, g, redirect)

Spec == Init /\ [][Next]_vars

TypeOK ==
  /\ ptab_entry \in [Entry -> [valid : BOOLEAN, predict_dir : BOOLEAN,
                               predict_pc : Pc, next_pc : Pc]]
  /\ unresolved \in [Branch -> Nat]
  /\ pipe_bru \in [branch_misp : BOOLEAN, next_pc : Pc]
  /\ resolved \in [predicted : Pc, actual : Pc] \cup {None}
  /\ pipe_flush \in BOOLEAN

---------------------------------------------------------------------------
(* Properties *)

\* Every branch in flight finds its own prediction under the tag it carries,
\* in whatever order branches execute and entries are handed out again: no
\* two share an entry, and none is overwritten or released by another.
PredictionsKept ==
  \A b \in InFlight :
    /\ unresolved[b] = 1
    /\ \A c \in InFlight : c.tag = b.tag => c = b
    /\ ptab_entry[b.tag] = [valid       |-> TRUE,
                            predict_dir |-> b.predicted.dir,
                            predict_pc  |-> b.predicted.target,
                            next_pc     |-> NextPc(b.predicted.pc)]

\* No entry is lost: for each one in use there is a branch that will release it.
NoEntryLost ==
  \A i \in Entry : ptab_entry[i].valid => \E b \in InFlight : b.tag = i

\* After a branch has executed the machine goes where the program goes: it is
\* redirected there, or was predicted to go there.
FetchFollowsProgram ==
  resolved # None =>
    resolved.actual = IF pipe_bru.branch_misp THEN pipe_bru.next_pc ELSE resolved.predicted

============================================================================
