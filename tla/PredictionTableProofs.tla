------------------------ MODULE PredictionTableProofs ------------------------
(***************************************************************************)
(* Proofs about the prediction table, for every number of entries, lanes   *)
(* and addresses and every set of predictions.  An entry that a branch in  *)
(* flight will look up is valid, so it is not among those psel_gen hands   *)
(* out; and psel_gen hands out different entries to different lanes        *)
(* because the group was accepted only when there were enough.             *)
(***************************************************************************)
EXTENDS PredictionTable, PselGenTheorems

EntryType == [valid : BOOLEAN, predict_dir : BOOLEAN, predict_pc : Pc, next_pc : Pc]

IInv == TypeOK /\ PredictionsKept /\ NoEntryLost

\* What has been found out about b when it executes; None for no branch.
Executed(b, dir, target) ==
  IF b = None THEN None ELSE [tag |-> b.tag, dir |-> dir, target |-> target]

\* The branches that stay in flight, and those that join them.
Staying(b) == InFlight \ {b}
Joining(g) == {c \in Branch : Tagged(g, c) # {}}

---------------------------------------------------------------------------
(* Allocation *)

\* The lanes of an accepted group get different free entries.
LEMMA TagsGranted ==
  ASSUME fetch_pkt_ready
  PROVE  /\ \A l \in Lane : ptab_tag(l) \in ptab_avail
         /\ \A l, m \in Lane : ptab_tag(l) = ptab_tag(m) => l = m
<1>1. PTAB_DEPTH \in Nat /\ ptab_avail \in SUBSET (0 .. (PTAB_DEPTH - 1))
  BY TableAssumption DEF ptab_avail, Entry
<1>2. Cardinality(ptab_avail) \in Nat
  BY <1>1, RequestsFinite
<1>3. \A l \in Lane : l \in Nat /\ l < Cardinality(ptab_avail)
  BY <1>2, TableAssumption DEF Lane, fetch_pkt_ready
<1>4. ASSUME NEW l \in Lane PROVE ptab_tag(l) \in ptab_avail
  BY <1>1, <1>3, GrantIsOne DEF ptab_tag
<1>5. ASSUME NEW l \in Lane, NEW m \in Lane, ptab_tag(l) = ptab_tag(m)
      PROVE  l = m
  BY <1>1, <1>3, <1>5, GrantsDiffer DEF ptab_tag
<1> QED
  BY <1>4, <1>5

\* A branch joins on one lane of a group that was accepted, with a free entry.
LEMMA JoinsOnce ==
  ASSUME NEW g \in Accepted, NEW c \in Joining(g)
  PROVE  /\ fetch_pkt_ready
         /\ c.tag \in ptab_avail
         /\ Cardinality(Tagged(g, c)) = 1
         /\ \E l \in Lane : /\ g[l] = c.predicted
                            /\ g[l] # None
                            /\ Takers(g, c.tag) = {l}
<1>1. PICK l \in Lane : g[l] = c.predicted /\ ptab_tag(l) = c.tag
  BY DEF Joining, Tagged
<1>2. g[l] # None
  BY <1>1, TableAssumption DEF Joining, Branch
<1>3. fetch_pkt_ready
  BY <1>2 DEF Accepted, NoGroup
<1>4. \A m \in Lane : ptab_tag(m) = c.tag => m = l
  BY <1>1, <1>3, TagsGranted
<1>5. Tagged(g, c) = {l}
  BY <1>1, <1>4 DEF Tagged
<1>6. Takers(g, c.tag) = {l}
  BY <1>1, <1>2, <1>4 DEF Takers
<1>7. c.tag \in ptab_avail
  BY <1>1, <1>3, TagsGranted
<1>8. Cardinality(Tagged(g, c)) = 1
  BY <1>5, FS_Singleton
<1> QED
  BY <1>1, <1>2, <1>3, <1>6, <1>7, <1>8

\* Nothing is handed out that a branch in flight refers to.
LEMMA InFlightNotAvailable ==
  ASSUME PredictionsKept, NEW c \in InFlight
  PROVE  c.tag \in Entry /\ c.tag \notin ptab_avail
<1>1. c.tag \in Entry
  BY DEF InFlight, Branch
<1>2. ptab_entry[c.tag] = [valid       |-> TRUE,
                           predict_dir |-> c.predicted.dir,
                           predict_pc  |-> c.predicted.target,
                           next_pc     |-> NextPc(c.predicted.pc)]
  BY DEF PredictionsKept
<1>3. ptab_entry[c.tag].valid
  BY <1>2
<1> QED
  BY <1>1, <1>3 DEF ptab_avail

\* The branch unit releases the entry of the branch it executes.
LEMMA ReleasesOwn ==
  ASSUME NEW b \in InFlight \cup {None}, NEW dir \in BOOLEAN, NEW target \in Pc,
         NEW i \in Entry
  PROVE  Releases(Executed(b, dir, target), i) <=> b # None /\ i = b.tag
<1>1. CASE b = None
  BY <1>1 DEF Releases, Executed
<1>2. CASE b # None
  <2> DEFINE x == [tag |-> b.tag, dir |-> dir, target |-> target]
  <2>1. b.tag \in Entry
    BY <1>2 DEF InFlight, Branch
  <2>2. x \in [tag : Entry, dir : BOOLEAN, target : Pc] /\ x.tag = b.tag
    BY <2>1
  <2>3. x # None
    BY <2>2, TableAssumption
  <2>4. Executed(b, dir, target) = x
    BY <1>2 DEF Executed
  <2> HIDE DEF x
  <2> QED
    BY <1>2, <2>2, <2>3, <2>4 DEF Releases
<1> QED
  BY <1>1, <1>2

\* Invalidating an entry changes nothing else.
LEMMA InvalidatedEntry ==
  ASSUME NEW e \in EntryType
  PROVE  Invalidated(e) \in EntryType /\ ~Invalidated(e).valid
BY DEF EntryType, Invalidated

\* A predicted branch in every lane that has one.
LEMMA LaneHoldsPrediction ==
  ASSUME NEW g \in Accepted, NEW l \in Lane
  PROVE  g[l] \in Predicted \cup {None}
BY DEF Accepted, FetchGroup, NoGroup

---------------------------------------------------------------------------
(* One cycle *)

\* The bag of branches in flight loses b and gains the branches of the group.
LEMMA NextInFlight ==
  ASSUME IInv, NEW b \in InFlight \cup {None}, NEW dir \in BOOLEAN, NEW target \in Pc,
         NEW g \in Accepted, NEW redirect, Cycle(b, dir, target, g, redirect)
  PROVE  /\ unresolved' \in [Branch -> Nat]
         /\ InFlight' = Staying(b) \cup Joining(g)
         /\ \A c \in InFlight' : unresolved'[c] = 1
         /\ Staying(b) \cap Joining(g) = {}
<1> DEFINE left(c) == IF c = b THEN unresolved[c] - 1 ELSE unresolved[c]
<1>1. unresolved' = [c \in Branch |-> left(c) + Cardinality(Tagged(g, c))]
  BY DEF Cycle
<1>2. \A c \in Branch : unresolved[c] \in Nat /\ (c \in InFlight => unresolved[c] = 1)
  BY DEF IInv, TypeOK, PredictionsKept
<1>3. \A c \in Branch : left(c) = IF c \in Staying(b) THEN 1 ELSE 0
  BY <1>2, TableAssumption DEF Staying, InFlight
<1>4. Staying(b) \cap Joining(g) = {}
  BY JoinsOnce, InFlightNotAvailable DEF IInv, Staying
<1>5. \A c \in Branch : Cardinality(Tagged(g, c)) = IF c \in Joining(g) THEN 1 ELSE 0
  <2>1. \A c \in Joining(g) : Cardinality(Tagged(g, c)) = 1
    BY JoinsOnce
  <2> QED
    BY <2>1, FS_EmptySet DEF Joining
<1> HIDE DEF left
<1>6. \A c \in Branch :
        unresolved'[c] = IF c \in Staying(b) \/ c \in Joining(g) THEN 1 ELSE 0
  <2> SUFFICES ASSUME NEW c \in Branch
               PROVE  unresolved'[c] = IF c \in Staying(b) \/ c \in Joining(g) THEN 1 ELSE 0
    OBVIOUS
  <2>1. unresolved'[c] = left(c) + Cardinality(Tagged(g, c))
    BY <1>1
  <2>2. ~(c \in Staying(b) /\ c \in Joining(g))
    BY <1>4
  <2> QED
    BY <1>3, <1>5, <2>1, <2>2
<1>7. InFlight' = {c \in Branch : unresolved'[c] > 0}
  BY DEF InFlight
<1>8. Staying(b) \in SUBSET Branch /\ Joining(g) \in SUBSET Branch
  BY DEF Staying, Joining, InFlight
<1>9. \A c \in Branch : unresolved'[c] > 0 <=> c \in Staying(b) \cup Joining(g)
  BY <1>6
<1>10. InFlight' = Staying(b) \cup Joining(g)
  BY <1>7, <1>8, <1>9
<1>11. unresolved' \in [Branch -> Nat]
  BY <1>1, <1>6
<1> QED
  BY <1>4, <1>6, <1>8, <1>10, <1>11

\* The entries of the branches that stay are left alone, those of the
\* branches that join hold their predictions.
LEMMA NextEntries ==
  ASSUME IInv, NEW b \in InFlight \cup {None}, NEW dir \in BOOLEAN, NEW target \in Pc,
         NEW g \in Accepted, NEW redirect, Cycle(b, dir, target, g, redirect)
  PROVE  /\ \A c \in Staying(b) : ptab_entry'[c.tag] = ptab_entry[c.tag]
         /\ \A c \in Joining(g) :
              ptab_entry'[c.tag] = [valid       |-> TRUE,
                                    predict_dir |-> c.predicted.dir,
                                    predict_pc  |-> c.predicted.target,
                                    next_pc     |-> NextPc(c.predicted.pc)]
<1> DEFINE x == Executed(b, dir, target)
<1>1. \A i \in Entry : ptab_entry'[i] = NextEntry(i, x, g)
  BY DEF Cycle, Executed
<1>2. \A i \in Entry : Releases(x, i) <=> b # None /\ i = b.tag
  BY ReleasesOwn
<1> HIDE DEF x
<1>3. ASSUME NEW c \in Staying(b)
      PROVE  ptab_entry'[c.tag] = ptab_entry[c.tag]
  <2>1. c \in InFlight /\ c # b
    BY DEF Staying
  <2>2. c.tag \in Entry /\ c.tag \notin ptab_avail
    BY <2>1, InFlightNotAvailable DEF IInv
  <2>3. ~Releases(x, c.tag)
    BY <1>2, <2>1, <2>2 DEF IInv, PredictionsKept
  <2>4. fetch_pkt_ready => Takers(g, c.tag) = {}
    BY <2>2, TagsGranted DEF Takers
  <2> QED
    BY <1>1, <2>2, <2>3, <2>4 DEF NextEntry
<1>4. ASSUME NEW c \in Joining(g)
      PROVE  ptab_entry'[c.tag] = [valid       |-> TRUE,
                                   predict_dir |-> c.predicted.dir,
                                   predict_pc  |-> c.predicted.target,
                                   next_pc     |-> NextPc(c.predicted.pc)]
  <2>1. fetch_pkt_ready /\ c.tag \in ptab_avail
    BY JoinsOnce
  <2>2. PICK l \in Lane : g[l] = c.predicted /\ Takers(g, c.tag) = {l}
    BY JoinsOnce
  <2>3. c.tag \in Entry
    BY <2>1 DEF ptab_avail
  <2>4. ~Releases(x, c.tag)
    BY <1>2, <2>1, <2>3, InFlightNotAvailable DEF IInv
  <2>5. l \in Int
    BY DEF Lane
  <2>6. (CHOOSE k \in {l} : \A m \in {l} : k <= m) = l
    BY <2>5
  <2>7. (CHOOSE k \in Takers(g, c.tag) : \A m \in Takers(g, c.tag) : k <= m) = l
    BY <2>2, <2>6
  <2>8. Takers(g, c.tag) # {}
    BY <2>2
  <2>9. NextEntry(c.tag, x, g) = [valid       |-> TRUE,
                                  predict_dir |-> g[l].dir,
                                  predict_pc  |-> g[l].target,
                                  next_pc     |-> NextPc(g[l].pc)]
    BY <2>1, <2>4, <2>7, <2>8 DEF NextEntry
  <2> QED
    BY <1>1, <2>2, <2>3, <2>9
<1> QED
  BY <1>3, <1>4

LEMMA CycleKeepsPredictions ==
  ASSUME IInv, NEW b \in InFlight \cup {None}, NEW dir \in BOOLEAN, NEW target \in Pc,
         NEW g \in Accepted, NEW redirect, Cycle(b, dir, target, g, redirect)
  PROVE  PredictionsKept'
<1>1. /\ InFlight' = Staying(b) \cup Joining(g)
      /\ \A c \in InFlight' : unresolved'[c] = 1
  BY NextInFlight
<1>2. /\ \A c \in Staying(b) : ptab_entry'[c.tag] = ptab_entry[c.tag]
      /\ \A c \in Joining(g) :
           ptab_entry'[c.tag] = [valid       |-> TRUE,
                                 predict_dir |-> c.predicted.dir,
                                 predict_pc  |-> c.predicted.target,
                                 next_pc     |-> NextPc(c.predicted.pc)]
  BY NextEntries
<1>3. ASSUME NEW c \in InFlight'
      PROVE  ptab_entry'[c.tag] = [valid       |-> TRUE,
                                   predict_dir |-> c.predicted.dir,
                                   predict_pc  |-> c.predicted.target,
                                   next_pc     |-> NextPc(c.predicted.pc)]
  BY <1>1, <1>2 DEF IInv, PredictionsKept, Staying
<1>4. ASSUME NEW c \in InFlight', NEW d \in InFlight', d.tag = c.tag
      PROVE  d = c
  <2>1. \A e \in Staying(b) : e.tag \notin ptab_avail
    BY InFlightNotAvailable DEF IInv, Staying
  <2>2. \A e \in Joining(g) : e.tag \in ptab_avail
    BY JoinsOnce
  <2>3. CASE c \in Staying(b) /\ d \in Staying(b)
    BY <1>4, <2>3 DEF IInv, PredictionsKept, Staying
  <2>4. CASE c \in Joining(g) /\ d \in Joining(g)
    <3>1. PICK l \in Lane : g[l] = c.predicted /\ Takers(g, c.tag) = {l}
      BY <2>4, JoinsOnce
    <3>2. PICK m \in Lane : g[m] = d.predicted /\ Takers(g, d.tag) = {m}
      BY <2>4, JoinsOnce
    <3>3. l = m
      BY <1>4, <3>1, <3>2
    <3>4. c.tag = d.tag /\ c.predicted = d.predicted
      BY <1>4, <3>1, <3>2, <3>3
    <3>5. c \in Branch /\ d \in Branch
      BY <2>4 DEF Joining
    <3> QED
      BY <3>4, <3>5 DEF Branch
  <2> QED
    BY <1>1, <1>4, <2>1, <2>2, <2>3, <2>4
<1> QED
  BY <1>1, <1>3, <1>4 DEF PredictionsKept

LEMMA CycleKeepsEntries ==
  ASSUME IInv, NEW b \in InFlight \cup {None}, NEW dir \in BOOLEAN, NEW target \in Pc,
         NEW g \in Accepted, NEW redirect, Cycle(b, dir, target, g, redirect)
  PROVE  NoEntryLost'
<1> DEFINE x == Executed(b, dir, target)
<1>1. \A i \in Entry : ptab_entry'[i] = NextEntry(i, x, g)
  BY DEF Cycle, Executed
<1>2. \A i \in Entry : Releases(x, i) <=> b # None /\ i = b.tag
  BY ReleasesOwn
<1> HIDE DEF x
<1>3. InFlight' = Staying(b) \cup Joining(g)
  BY NextInFlight
<1> SUFFICES ASSUME NEW i \in Entry, ptab_entry'[i].valid
             PROVE  \E c \in Staying(b) \cup Joining(g) : c.tag = i
  BY <1>3 DEF NoEntryLost
<1>4. ~Releases(x, i)
  <2> SUFFICES ASSUME Releases(x, i) PROVE FALSE
    OBVIOUS
  <2>1. ptab_entry'[i] = Invalidated(ptab_entry[i])
    BY <1>1 DEF NextEntry
  <2>2. ptab_entry[i] \in EntryType
    BY DEF IInv, TypeOK, EntryType
  <2> QED
    BY <2>1, <2>2, InvalidatedEntry
<1>5. CASE fetch_pkt_ready /\ Takers(g, i) # {}
  <2>1. PICK l \in Lane : g[l] # None /\ ptab_tag(l) = i
    BY <1>5 DEF Takers
  <2>2. g[l] \in Predicted
    BY <2>1, LaneHoldsPrediction
  <2> DEFINE c == [tag |-> i, predicted |-> g[l]]
  <2>3. c \in Branch /\ c.tag = i /\ l \in Tagged(g, c)
    BY <2>1, <2>2 DEF Branch, Tagged
  <2> HIDE DEF c
  <2> QED
    BY <2>3 DEF Joining
<1>6. CASE ~(fetch_pkt_ready /\ Takers(g, i) # {})
  <2>1. ptab_entry'[i] = ptab_entry[i]
    BY <1>1, <1>4, <1>6 DEF NextEntry
  <2>2. PICK c \in InFlight : c.tag = i
    BY <2>1 DEF IInv, NoEntryLost
  <2>3. c # b
    BY <1>2, <1>4, <2>2, TableAssumption DEF InFlight
  <2> QED
    BY <2>2, <2>3 DEF Staying
<1> QED
  BY <1>5, <1>6

\* The next sequential address is an address.
LEMMA NextPcIsPc ==
  ASSUME NEW pc \in Pc
  PROVE  NextPc(pc) \in Pc
BY TableAssumption DEF Pc, NextPc

\* What is compared at execution is what was predicted for the branch.
LEMMA VerdictOf ==
  ASSUME IInv, NEW b \in InFlight, NEW dir \in BOOLEAN, NEW target \in Pc
  PROVE  LET p == b.predicted
             misp == dir # p.dir \/ (dir /\ p.target # target)
         IN  Verdict(Executed(b, dir, target)) =
               IF misp THEN [branch_misp |-> TRUE,
                             next_pc |-> Destination(p.pc, dir, target)]
                       ELSE NoVerdict
<1> DEFINE p == b.predicted
           x == Executed(b, dir, target)
<1>1. b # None /\ p \in [pc : Pc, dir : BOOLEAN, target : Pc] /\ b.tag \in Entry
  BY TableAssumption DEF InFlight, Branch
<1>2. x = [tag |-> b.tag, dir |-> dir, target |-> target]
  BY <1>1 DEF Executed
<1>3. x # None /\ x.tag = b.tag /\ x.dir = dir /\ x.target = target
  BY <1>1, <1>2, TableAssumption
<1>4. ptab_entry[b.tag] = [valid       |-> TRUE,
                           predict_dir |-> p.dir,
                           predict_pc  |-> p.target,
                           next_pc     |-> NextPc(p.pc)]
  BY DEF IInv, PredictionsKept
<1> HIDE DEF x, p
<1>5. PredictedTaken(x) <=> p.dir
  BY <1>3, <1>4 DEF PredictedTaken
<1>6. bru_branch_misp(x) <=> (dir # p.dir \/ (dir /\ p.target # target))
  BY <1>1, <1>3, <1>4, <1>5 DEF bru_branch_misp
<1>7. bru_next_pc(x) = Destination(p.pc, dir, target)
  BY <1>3, <1>4 DEF bru_next_pc, Destination
<1>8. Verdict(x) = IF dir # p.dir \/ (dir /\ p.target # target)
                     THEN [branch_misp |-> TRUE,
                           next_pc |-> Destination(p.pc, dir, target)]
                     ELSE NoVerdict
  BY <1>3, <1>6, <1>7 DEF Verdict
<1> QED
  BY <1>8 DEF x, p

LEMMA CycleKeepsFetch ==
  ASSUME IInv, NEW b \in InFlight \cup {None}, NEW dir \in BOOLEAN, NEW target \in Pc,
         NEW g, NEW redirect, Cycle(b, dir, target, g, redirect)
  PROVE  FetchFollowsProgram'
<1>1. CASE b = None
  BY <1>1 DEF Cycle, FetchFollowsProgram
<1>2. CASE b \in InFlight
  <2> DEFINE p == b.predicted
  <2>1. b # None /\ p \in [pc : Pc, dir : BOOLEAN, target : Pc]
    BY <1>2, TableAssumption DEF InFlight, Branch
  <2>2. /\ resolved' = [predicted |-> Destination(p.pc, p.dir, p.target),
                        actual    |-> Destination(p.pc, dir, target)]
        /\ pipe_bru' = Verdict(Executed(b, dir, target))
    BY <2>1 DEF Cycle, Executed
  <2>3. pipe_bru' = IF dir # p.dir \/ (dir /\ p.target # target)
                      THEN [branch_misp |-> TRUE,
                            next_pc |-> Destination(p.pc, dir, target)]
                      ELSE NoVerdict
    BY <1>2, <2>2, VerdictOf
  <2> HIDE DEF p
  <2>4. CASE dir # p.dir \/ (dir /\ p.target # target)
    BY <2>2, <2>3, <2>4 DEF FetchFollowsProgram
  <2>5. CASE ~(dir # p.dir \/ (dir /\ p.target # target))
    <3>1. Destination(p.pc, p.dir, p.target) = Destination(p.pc, dir, target)
      BY <2>1, <2>5 DEF Destination
    <3>2. ~pipe_bru'.branch_misp
      BY <2>3, <2>5 DEF NoVerdict
    <3> QED
      BY <2>2, <3>1, <3>2 DEF FetchFollowsProgram
  <2> QED
    BY <2>4, <2>5
<1> QED
  BY <1>1, <1>2

LEMMA CycleKeepsType ==
  ASSUME IInv, NEW b \in InFlight \cup {None}, NEW dir \in BOOLEAN, NEW target \in Pc,
         NEW g \in Accepted, NEW redirect \in BOOLEAN,
         Cycle(b, dir, target, g, redirect)
  PROVE  TypeOK'
<1> DEFINE x == Executed(b, dir, target)
<1>zero. 0 \in Pc
  BY TableAssumption DEF Pc
<1>1. \A i \in Entry : NextEntry(i, x, g) \in EntryType
  <2> SUFFICES ASSUME NEW i \in Entry PROVE NextEntry(i, x, g) \in EntryType
    OBVIOUS
  <2>1. ptab_entry[i] \in EntryType
    BY DEF IInv, TypeOK, EntryType
  <2>2. CASE Releases(x, i)
    <3>1. NextEntry(i, x, g) = Invalidated(ptab_entry[i])
      BY <2>2 DEF NextEntry
    <3> QED
      BY <2>1, <3>1, InvalidatedEntry
  <2>3. CASE ~Releases(x, i) /\ fetch_pkt_ready /\ Takers(g, i) # {}
    <3> DEFINE l == CHOOSE k \in Takers(g, i) : \A m \in Takers(g, i) : k <= m
    <3>1. l \in Takers(g, i)
      <4>1. PICK k \in Takers(g, i) : TRUE
        BY <2>3
      <4>2. \A m \in Takers(g, i) : m = k
        BY <2>3, TagsGranted DEF Takers
      <4>3. k \in Int
        BY DEF Takers, Lane
      <4>4. \A m \in Takers(g, i) : k <= m
        BY <4>2, <4>3
      <4> QED
        BY <4>1, <4>4
    <3> HIDE DEF l
    <3>2. g[l] \in [pc : Pc, dir : BOOLEAN, target : Pc]
      BY <3>1, LaneHoldsPrediction, TableAssumption DEF Takers
    <3>3. NextEntry(i, x, g) = [valid |-> TRUE, predict_dir |-> g[l].dir,
                                predict_pc |-> g[l].target, next_pc |-> NextPc(g[l].pc)]
      BY <2>3 DEF NextEntry, l
    <3>4. NextPc(g[l].pc) \in Pc
      BY <3>2, NextPcIsPc
    <3> QED
      BY <3>2, <3>3, <3>4 DEF EntryType
  <2>4. CASE ~Releases(x, i) /\ ~(fetch_pkt_ready /\ Takers(g, i) # {})
    BY <2>1, <2>4 DEF NextEntry
  <2> QED
    BY <2>2, <2>3, <2>4
<1>2. ptab_entry' \in [Entry -> EntryType]
  BY <1>1 DEF Cycle, Executed
<1>3. unresolved' \in [Branch -> Nat]
  BY NextInFlight
<1>4. /\ pipe_bru' \in [branch_misp : BOOLEAN, next_pc : Pc]
      /\ resolved' \in [predicted : Pc, actual : Pc] \cup {None}
  <2>1. NoVerdict \in [branch_misp : BOOLEAN, next_pc : Pc]
    BY <1>zero DEF NoVerdict
  <2>2. CASE b = None
    <3>1. pipe_bru' = NoVerdict /\ resolved' = None
      BY <2>2 DEF Cycle, Verdict
    <3> QED
      BY <2>1, <3>1
  <2>3. CASE b \in InFlight
    <3> DEFINE p == b.predicted
    <3>1. b # None /\ p \in [pc : Pc, dir : BOOLEAN, target : Pc]
      BY <2>3, TableAssumption DEF InFlight, Branch
    <3>2. \A d \in BOOLEAN, t \in Pc : Destination(p.pc, d, t) \in Pc
      BY <3>1, NextPcIsPc DEF Destination
    <3>3. resolved' = [predicted |-> Destination(p.pc, p.dir, p.target),
                       actual    |-> Destination(p.pc, dir, target)]
      BY <3>1 DEF Cycle
    <3>4. pipe_bru' = IF dir # p.dir \/ (dir /\ p.target # target)
                        THEN [branch_misp |-> TRUE,
                              next_pc |-> Destination(p.pc, dir, target)]
                        ELSE NoVerdict
      <4>1. pipe_bru' = Verdict(Executed(b, dir, target))
        BY DEF Cycle, Executed
      <4> QED
        BY <2>3, <4>1, VerdictOf
    <3> HIDE DEF p
    <3> QED
      BY <2>1, <3>1, <3>2, <3>3, <3>4
  <2> QED
    BY <2>2, <2>3
<1>5. pipe_flush' \in BOOLEAN
  BY DEF Cycle
<1> QED
  BY <1>2, <1>3, <1>4, <1>5 DEF TypeOK, EntryType

---------------------------------------------------------------------------
(* Flush, and the start *)

\* When no branch is in flight and no entry is in use there is nothing to keep.
LEMMA NothingToKeep ==
  ASSUME unresolved = [b \in Branch |-> 0], \A i \in Entry : ~ptab_entry[i].valid
  PROVE  PredictionsKept /\ NoEntryLost
<1>1. InFlight = {}
  BY DEF InFlight
<1> QED
  BY <1>1 DEF PredictionsKept, NoEntryLost

LEMMA InitEstablishes == Init => IInv /\ FetchFollowsProgram
<1> SUFFICES ASSUME Init PROVE IInv /\ FetchFollowsProgram
  OBVIOUS
<1>1. TypeOK
  <2>1. 0 \in Pc
    BY TableAssumption DEF Pc
  <2>2. EmptyEntry \in EntryType /\ NoVerdict \in [branch_misp : BOOLEAN, next_pc : Pc]
    BY <2>1 DEF EmptyEntry, EntryType, NoVerdict
  <2> QED
    BY <2>2 DEF Init, TypeOK, EntryType
<1>2. \A i \in Entry : ~ptab_entry[i].valid
  BY DEF Init, EmptyEntry
<1> QED
  BY <1>1, <1>2, NothingToKeep DEF Init, IInv, FetchFollowsProgram

LEMMA FlushKeeps ==
  ASSUME IInv, FlushCycle
  PROVE  IInv' /\ FetchFollowsProgram'
<1>1. \A i \in Entry : /\ Invalidated(ptab_entry[i]) \in EntryType
                        /\ ~Invalidated(ptab_entry[i]).valid
  <2>1. \A i \in Entry : ptab_entry[i] \in EntryType
    BY DEF IInv, TypeOK, EntryType
  <2> QED
    BY <2>1, InvalidatedEntry
<1>2. TypeOK' /\ \A i \in Entry : ~ptab_entry'[i].valid
  <2>1. ptab_entry' = [i \in Entry |-> Invalidated(ptab_entry[i])]
    BY DEF FlushCycle
  <2>2. ptab_entry' \in [Entry -> EntryType]
    BY <1>1, <2>1
  <2>3. unresolved' \in [Branch -> Nat]
    BY DEF FlushCycle
  <2>4. 0 \in Pc
    BY TableAssumption DEF Pc
  <2>5. pipe_bru' \in [branch_misp : BOOLEAN, next_pc : Pc]
    BY <2>4 DEF FlushCycle, NoVerdict
  <2> QED
    BY <1>1, <2>1, <2>2, <2>3, <2>5 DEF FlushCycle, TypeOK, EntryType
<1>3. InFlight' = {}
  BY DEF FlushCycle, InFlight
<1>4. PredictionsKept' /\ NoEntryLost'
  BY <1>2, <1>3 DEF PredictionsKept, NoEntryLost
<1>5. FetchFollowsProgram'
  BY DEF FlushCycle, FetchFollowsProgram
<1> QED
  BY <1>2, <1>4, <1>5 DEF IInv

---------------------------------------------------------------------------
(* Theorems *)

LEMMA StepKeeps ==
  ASSUME IInv /\ FetchFollowsProgram, [Next]_vars
  PROVE  (IInv /\ FetchFollowsProgram)'
<1>1. CASE FlushCycle
  BY <1>1, FlushKeeps
<1>2. ASSUME NEW g \in Accepted, NEW redirect \in BOOLEAN,
             Cycle(None, FALSE, 0, g, redirect)
      PROVE  (IInv /\ FetchFollowsProgram)'
  <2>1. 0 \in Pc /\ FALSE \in BOOLEAN /\ None \in InFlight \cup {None}
    BY TableAssumption DEF Pc
  <2> QED
    BY <1>2, <2>1, CycleKeepsType, CycleKeepsPredictions, CycleKeepsEntries,
       CycleKeepsFetch DEF IInv
<1>3. ASSUME NEW g \in Accepted, NEW redirect \in BOOLEAN, NEW b \in InFlight,
             NEW dir \in BOOLEAN, NEW target \in Pc,
             Cycle(b, dir, target, g, redirect)
      PROVE  (IInv /\ FetchFollowsProgram)'
  BY <1>3, CycleKeepsType, CycleKeepsPredictions, CycleKeepsEntries,
     CycleKeepsFetch DEF IInv
<1>4. CASE UNCHANGED vars
  BY <1>4 DEF vars, IInv, TypeOK, PredictionsKept, NoEntryLost, FetchFollowsProgram, InFlight
<1> QED
  BY <1>1, <1>2, <1>3, <1>4 DEF Next

LEMMA InvariantHolds == Spec => [](IInv /\ FetchFollowsProgram)
<1>1. Init => IInv /\ FetchFollowsProgram
  BY InitEstablishes
<1>2. (IInv /\ FetchFollowsProgram) /\ [Next]_vars => (IInv /\ FetchFollowsProgram)'
  BY StepKeeps
<1> QED
  BY <1>1, <1>2, PTL DEF Spec

\* Every register of the table keeps its type.
THEOREM TableTypeCorrect == Spec => []TypeOK
<1>1. IInv /\ FetchFollowsProgram => TypeOK
  BY DEF IInv
<1> QED
  BY <1>1, InvariantHolds, PTL

\* Every branch in flight finds its own prediction: acceptance of groups,
\* psel_gen and the release at execution together never mix entries up.
THEOREM PredictionsCorrect == Spec => []PredictionsKept
<1>1. IInv /\ FetchFollowsProgram => PredictionsKept
  BY DEF IInv
<1> QED
  BY <1>1, InvariantHolds, PTL

\* No entry stays in use without a branch in flight that will release it.
THEOREM EntriesCorrect == Spec => []NoEntryLost
<1>1. IInv /\ FetchFollowsProgram => NoEntryLost
  BY DEF IInv
<1> QED
  BY <1>1, InvariantHolds, PTL

\* After a branch has executed, the machine goes where the program goes.
THEOREM FetchCorrect == Spec => []FetchFollowsProgram
<1>1. IInv /\ FetchFollowsProgram => FetchFollowsProgram
  OBVIOUS
<1> QED
  BY <1>1, InvariantHolds, PTL
==============================================================================
