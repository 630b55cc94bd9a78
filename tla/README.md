# Verification of the out-of-order backend and its tools

TLA+ modules, TLC configurations and TLAPS proofs for the processor in this
repository, a four-wide, out-of-order RISC-V backend written in SystemVerilog
in the style of the MIPS R10000 (`verilog/`), and for the software around it: the
visual debugger and the instruction tables of `testbench/`, and the C programs of
`test_progs/` with their allocator.

Every register of the processor is clocked by one clock, so there **one TLA+ step is
one clock cycle**: a register takes the value its `always` block computes from the
values before the edge, and the combinational signals are operators with the names
they have in the source. In the debugger a step is an edge of the simulated clock, a
turn of the debugger's main loop, or a key. The test programs are pure algorithms: a step
is a whole call, or, for the programs that allocate, one allocation or release.

1. [The system](#1-the-system) 2. [Plan](#2-plan) 3. [Modules and code](#3-modules-and-code)
4. [Runs](#4-runs) 5. [Fairness](#5-fairness) 6. [Proofs](#6-proofs)
7. [Assumptions about the surroundings](#7-assumptions-about-the-surroundings)
8. [Findings](#8-findings) 9. [Not modelled](#9-not-modelled)

## 1. The system

`sys_defs.svh` fixes the sizes: `MACHINE_WIDTH` 4 (lanes of a fetched, renamed,
dispatched or retired group), `ISSUE_WIDTH` 7 (four ALUs, a multiplier, a branch
unit, an address unit), `ROB_DEPTH` 64, 32 architectural and 100 physical
registers, 16 integer and 8 memory reservation stations, 16 entries in each of
the store, load and prediction queues. It defines `RS_OLDEST_FIRST`; the
alternatives `LSQ_OLDEST_FIRST` and `LSQ_CONSERVATIVE` are off.

The path of an instruction, with the pipeline registers of `backend.sv` in
parentheses:

    fetch group -> decode, rename (pipe_rename_pkt) -> dispatch into reorder buffer,
    reservation stations and load/store queue -> issue (pipe_issue_pkt) -> register
    read (pipe_reg_read_pkt) -> functional unit (pipe_execute_pkt) -> common data bus
    -> reorder buffer completes, stations wake -> retire (pipe_retire_pkt) ->
    retirement map, free list, store queue; flush one cycle after retirement,
    recovery of the maps one cycle after the flush

| component | state | operations | interacts with | hard because |
| --- | --- | --- | --- | --- |
| reorder buffer `ROB.sv` | entries, head and tail with position bits, the oldest misprediction and its pc | dispatch a group, note up to seven results, retire a completed prefix, flush | rename (readiness a cycle ahead), stations (tags), maps and queues (retired group), front end (redirect) | pointers wrap under both ends at once; mispredictions arrive out of order; retirement cuts a group short |
| renaming `decode_rename.sv`, `rat.sv`, `free_list.sv`, `busy_table.sv`, `arch_rat.sv` | speculative and retirement map, free list, busy table | rename a group, free replaced registers, mark written ones, restore after a flush | reorder buffer, common data bus, stations | dependences inside a group; the freeing, the flush and the recovery are three different cycles |
| reservation stations `rs_bank.sv`, `rs_array.sv`, `rs1.sv`, `sort.sv` | stations; latches in the comparator trees | allocate, wake, select the oldest, issue, flush | rename, common data bus, reorder buffer tags | a result in the cycle of dispatch; counts taken a cycle ahead; age across a wrap |
| load/store queue `lsq.sv`, `stq.sv`, `ldq.sv` | two circular queues, the offered load and store, the forwarding answer | dispatch with store masks, execute, forward, sleep and wake, detect an order violation and replay, write back, retire, flush | address unit, data cache, common data bus, reorder buffer | speculation on unknown store addresses; each load is at one of seven points when a store arrives |
| pipeline control `backend.sv` | the registers between the stages | flush, recovery, stop at an exception, hold | all of the above | what a flush cuts and what it must let through |
| priority selector `psel_gen.sv`, `pe.sv` | none | grant the n-th request | free list, stations, queues | - |
| prediction table `ptab.sv` | an entry per predicted branch | allocate, release at execution, compare the outcome | fetch, branch unit | entries released by wrong-path branches and by flush |
| caches and memory `dcache_*.sv`, `icache_*.sv`, `mem.sv` | lines, miss state | hit, miss, refill, write back | load/store queue, fetch | a miss takes many cycles in which requests go on |
| functional units, register file, decoder | latency registers, registers | compute | stations, common data bus | different latencies; fields of a word cut in several places |
| visual debugger `visual_c_hooks.cpp`, `visual_testbench.v` | the simulation's clock, two pipes, a ring of dumps and the place shown in it, modes of the main loop | dump an edge, read a dump, step, walk back and forth, run, search for a time or cycle, end | two processes that answer each other through pipes, and a user | the simulation is answered before the user acts; the ring wraps; the run ends in any mode |
| instruction tables `riscv_inst.h`, `pipe_print.c` | none | decode, analyze, select, encode, print | debugger, pipeline listing, the processor's decoder | four readers of one word must agree |
| test programs `test_progs/*.c`, `tj_malloc.h` | arrays, graphs, kernels; the heap and its circular free list | sort, search, traverse, multiply, convolve; allocate and free | the programs share the allocator | bounds, signs, back-tracking, a free list that changes while it is searched |

What makes each of the central ones correct:

- *reorder buffer*: its contents are a window of the program order; a group is
  never written over live entries although room is granted a cycle earlier; the
  tags order instructions by age; retirement is in order, stops at a redirecting
  instruction, and redirects to the target that instruction computed; no
  instruction stays for ever.
- *renaming*: no register that may still be read is free; none is lost however
  many flushes happen; the 100 physical registers suffice; sources name the
  youngest older writer and are ready exactly when it has written.
- *stations*: an instruction dispatched is in exactly one station until it
  issues; no result is missed and nothing issues early; every one issues.
- *load/store queue*: a load writes back the value program order prescribes;
  retired stores reach memory once and in order, across flushes; sleeping loads
  are woken.
- *visual debugger*: whatever is done, the ring holds the latest edges, each as one whole
  dump; the keys move through it edge by edge; neither process waits for the other.
- *instruction tables*: every reader of a legal word finds the same instruction and the
  same immediate, and the debugger's encoder gives the word back.
- *test programs*: each returns what its reference definition says; the blocks of the
  allocator never overlap, are never lost, and lie in the heap.

The list of everything in this code that tests would hardly reach, with its line
and the properties meant to catch it, is under `hazards` in `PROJECT.json`.

## 2. Plan

In the order of importance. Steps 1 to 9 are done; the others are left open, for the
reasons section 9 gives.

| step | module | what | state |
| --- | --- | --- | --- |
| 1 | `RetireWindow`, `ReorderBuffer` | the reorder buffer, and the abstract in-order window it implements | done |
| 2 | `ReorderBufferProofs` | type correctness, window, tags, one branch per group; the redirect pc; the refinement of `RetireWindow` | done |
| 3 | `RegisterRename`, `PselGen`, `PselGenTheorems`, `RenameProofs` | maps, free list, busy table and recovery; all eight invariants checked and proved | done |
| 4 | `StoreBuffer`, `LoadStoreQueue`, `LoadStoreProofs` | both queues against program order and a cache, and the abstract store buffer the store queue implements; all five invariants of run `lsq` and the refinement checked and proved | done |
| 5 | `ReservationStation`, `StationProofs` | one bank with its selection trees; all four invariants checked and proved | done |
| 6 | `PredictionTable`, `PredictionTableProofs` | allocation, release by executing branches, flush; that a branch always finds its own prediction, checked and proved | done |
| 7 | `VisualDebugger`, `DebuggerProofs` | the simulation and the debugger as two processes, with every key; both invariants and the walk of the keys inside the ring checked and proved, the return of a run checked, the keys at its ends a finding | done |
| 8 | `InstructionTables`, `InstructionProofs` | the tables against each other and the processor's decoder: checked on a grid of words, proved for every word | done |
| 9 | `ArrayPrograms`, `GraphPrograms`, `KernelPrograms`, `HeapPrograms`, composed by `TestPrograms` | every C program against its reference definition; the allocator under the programs that use it | done |
| - | `DataCache`, `InstructionCache`, `Memory`, `SyncFifo` | the two controllers with the memory's answer tags, refill and write-back; a cache as the load/store queue assumes it as abstract specification | open |
| - | `Backend` | stations, renaming and reorder buffer in one module, to replace the assumptions of section 7 by the components | open |

## 3. Modules and code

`map` in `PROJECT.json` gives the lines of every definition. Common to all:
combinational signals are operators (`retire_en`, `next_rat`, `dispatch_pkt_ready`,
`free_list_retire_fwd`), registers are variables, `always_ff` blocks are the primed
conjuncts of two actions, `Cycle` and `FlushCycle` (the code's `pipe_flush`
branch), and what comes in at the ports is bound by `\E` in `Next`. In the two
largest modules the conjuncts of a step are in two operators, `Cycle` for the
component and `Advance` for the pipeline around it, always taken together.

**`ReorderBuffer`** is `ROB.sv` with the two registers of `backend.sv` around it.
An instruction stands for its whole packet, a redirect pc for the branch that
computed it. The environment chooses the renamed group, which holds at most what
the acceptance signals allow, and the set of results, at most `ISSUE_WIDTH` of
entries not complete yet, at most one of them from a branch because there is one
branch unit. `NOP` and halting instructions are complete when dispatched, as in
the code. `sys_exception` stops dispatch.

**`RetireWindow`** is what the others may rely on: a sequence in program order, no
pointers, no tags; in a cycle the longest prefix that may retire does. `ReorderBuffer` maps its
circular buffer to it (`Window`, `RetiredSeq`); `ImplementsInOrderWindow` is the refinement.

**`RegisterRename`** has `rat`, `arch_rat`, `free_list` and `busy_table` as functions
and sets over registers (the code's bit vectors), the rename/dispatch register,
and the reorder buffer as a bounded sequence (`window`). That sequence is not a model of `ROB.sv` but the
environment of the maps: it retires by the rule of `RetireWindow` because it is written so, and that `ROB.sv`
keeps this rule is what `ReorderBuffer` shows. `next_rat` chains the lanes of a
group; `Allocated` is what `psel_gen` grants out of `free_list_retire_fwd`;
`Cycle`/`FlushCycle` differ in what the reorder buffer and the pipeline registers
do; the recovery of the cycle after is the `recov_arch_st` branch of every table.

**`PselGen`** states which requests are granted: even lines take the highest requests,
odd lines the lowest, and no line what an earlier line has from the other end.

**`StoreBuffer`** is what the load/store queue promises of stores: those that retired wait in a buffer, in
program order, and leave it for memory from the front, one per cycle; nothing else writes memory.

**`LoadStoreQueue`** is `lsq.sv`, `stq.sv` and `ldq.sv`. Entries are records; masks are
sets of tags; pointers carry their position bit. Each load carries, for the
property only, the value program order gives it (`expect`, fixed at dispatch).
Forwarding, sleep, violation, replay and writeback are operators over the entries,
and the next state of an entry tests its conditions in the order of the `always`
block. The entries from the head to the retired pointer are the buffer of `StoreBuffer`
(`BufferedStores`), the stores among what just retired are those that join it (`RetiringInOrder`);
`ImplementsStoreBuffer` is the refinement. The
cache, the address unit and the program order around it are described in
section 7.

**`ReservationStation`** is one bank. The comparator tree is a function over the nodes
of a binary tree; `pos_tmp` is a variable because the code infers a latch (section 8).

**`PredictionTable`** is `ptab.sv` with the verdict register of `backend.sv`. Everything
between acceptance and execution of a branch (rename register, station, issue registers)
carries only the tag, so the branches in flight are a bag of pairs of a tag and
of what was predicted (`unresolved`): a bag, not a set, so that two branches given
one entry with the same prediction would show. They execute in any order. A redirect may
come in any cycle.

**`VisualDebugger`** composes the testbench and the debugger. `Simulation` is an edge of
`clock` with the `always` blocks of `visual_testbench.v`: it writes the lines of a dump
(`Line`, one per group of values, as many as `GroupLines` says) or `DONE`, and at the falling edge
waits for the reply. `MainLoop` is one turn of the outer loop of `initcurses`: `processinput`
on a line, and when a dump is complete the search for a stop, the display (`parsedata`), the advance
of the ring and the reply (`ShowNewest`). `Keys` is one turn of the inner loop, one operator
per key. A value of a dump is the edge it was taken at, which is all the properties
tell apart: a slot of the ring holding two different edges is a torn dump. `get_time` reads a number typed by
the user, bounded by `StopTimes`.

**`InstructionTables`** has the four places that take an instruction word apart: `inst_t` (`decode`,
`analyze`, `select`, `encode`), `print_stage`, the word patterns and selects of
`decoder.sv`, and the immediates of `fu_top.sv`. A word is a record of its
fields; the immediates are the numbers their bits denote, with the widths and sign bits of the code. In a
behaviour (`ReadSpec`) one word comes, and all its readers answer (`readings`).

**`ArrayPrograms`**, **`GraphPrograms`**, **`KernelPrograms`** are the algorithms of the C
programs as functions on arrays, matrices and graphs, loops as folds or recursive operators. A board or an array cell
out of its bounds is a TLC error, so that the runs also show that indices stay inside.
**`HeapPrograms`** has the heap of `tj_malloc.h` as its headers (address, `size`,
`next`) with addresses in bytes: an addition to a `Header*` is multiplied by eight (`Plus`), as the compiler
does. **`TestPrograms`** composes them: a behaviour takes one program and an input and runs it, or one word and has it read.

**`MC...`** modules name the programs and give model values; all `.cfg` files
set constants only.

## 4. Runs

| run | configuration | shows |
| --- | --- | --- |
| `rob` | 4 entries, 2 lanes, 2 results per cycle; an operation, two branches, a halt | `TypeOK`; `ValidExactlyWindow`; `TagsOrderByAge`; `RedirectIsOfRetiredBranch`; the refinement of `RetireWindow`, and with it that at most one branch retires in a cycle; under the fairness of section 5, `EveryEntryLeaves` and `MispredictionFlushes` |
| `rename` | 3 architectural registers, 2 instructions in the reorder buffer, 2 lanes | nothing live is free, no register shared or lost, the free list suffices, the busy table is exact; maps and sources follow program order; register 0 is fixed |
| `lsq` | 4 and 4 entries, two lanes, words of two bytes, a cache that takes loads at once | loads see program order through partial overlap, sleep, replay, flush and dependences inside a group; sleepers have a store to wake them; nothing marked for replay retires; retired stores reach memory once, in order; the refinement of `StoreBuffer` |
| `lsq_live` | 2 and 2 entries, a cache that refuses loads and stores | every load returns, every retired store leaves |
| `lsq_stall` | as `lsq` with one byte, the cache may refuse loads | **expected violation**, section 8 |
| `rs` | 4 stations, 5 instructions in flight (10 tags), so that the bank fills before the reorder buffer does, 2 lanes, 2 units, two-source instructions | every instruction is held once; operands are tracked exactly; the tree takes the oldest while its latches are current |
| `rs_live` | 4 stations, 4 instructions in flight, one unit | every instruction issues or is flushed |
| `rs_oldest` | as `rs_live`, with instructions of the other bank in between | **expected violation**, section 8 |
| `ptab` | 4 entries, 2 lanes, 3 addresses, a branch predicted not taken before the address wrap and one predicted taken | every branch finds its own prediction; no entry is lost; fetch goes where the program goes |
| `debugger` | a ring of 3 slots, 7 edges, 1 of them in reset, three lines of registers in two groups, one of two registers; four times to ask for | the ring holds the latest dumps, each whole, whenever a key can be pressed; the simulation is at most one edge ahead and nobody waits for ever; between the oldest and the newest edge the keys walk edge by edge, and they never show a slot without a sample; a run returns to the user |
| `debugger_keys` | as `debugger` | **expected violation**, section 8 |
| `programs` | arrays of up to 4 cells, graphs of up to 4 vertices and those of the programs, boards up to 5x5, 14 x 14 factors, layers of side 3, three passes of `alexnet`, a heap of 100 bytes with `base` below or above it; 12,096 words: every opcode and function code a reader names, their neighbours, both values of each sign bit | each program computes what its reference definition says; the allocator keeps its blocks whole; the debugger, its encoder, the pipeline listing and the processor agree on the text, legality, operands and immediate of a word |


*Why these bounds are enough to mean something.* Two lanes are the least for
which a group straddles a pointer wrap, is cut in the middle by a branch, or
depends on itself; depth twice the width is the least for which a group is in
the rename/dispatch register while another one is in the buffer. Behaviours
are not bounded in length: pointers wrap, flushes repeat, tags are reused without
limit, and there is no state constraint. In `rename` every physical register beyond
the formula of `sys_defs.svh` is missing, so the free list really reaches the
minimum (without the last `MACHINE_WIDTH` registers of the formula `FreeListSuffices` fails). In `lsq` two byte values
tell a forwarded from a stale byte. In
`debugger` the ring wraps twice and `DONE` meets every position of it, full or not, in every mode. In
`programs` arrays hold duplicates, the board of
side 5 has a tour while those of side 2 to 4 (the program's is 3) have none, and the heap
fails a request of every program. What the bounds do not reach, four
lanes, more than two levels of the comparator tree, more than two loads asleep at once, all other words, the theorems
of section 6 do.

No run uses `SYMMETRY`.
Deadlock is checked in the runs about the processor: its clock never stops, also in a halted
machine. `debugger` and `programs` switch it off: the user may never press another key, or quit; a
program ends, and so does the reading of a word. That the debugger and the simulation do not wait for each other is `OneDumpAhead` instead.

Each property has a plausible bug, under `mutants`, which makes its run fail: a dropped
guard, a lane off by one, a reset left out, an order swapped.

## 5. Fairness

A clock ticks, so a step is always taken; fairness is needed only about what the
environment chooses.

- `rob`: weak fairness of cycles in which the oldest instruction, if its result is missing, gets it, and of
  flush cycles (`OldestProgresses`). The functional units have a fixed latency and never refuse; an instruction
  oldest in the machine has its operands. When its result arrives is free. Such a cycle is possible unless
  the machine is empty and takes nothing in, so that `FairSpec` says `~Idle` where weak fairness
  has ENABLED: it means the same and is cheap to evaluate.
- `lsq_live`: weak fairness of cycles in which the oldest unexecuted memory
  instruction executes, the cache answers something it owes and as much as possible
  retires; strong fairness of the cache accepting the store, and the load, it is
  offered. A cache may refuse any number of times in a row and each offer may be
  withdrawn in between, by a flush or a replay, hence strong.
- `rs_live`: weak fairness of cycles in which all results awaited arrive and as much
  as possible retires. The selection itself needs no fairness: it is deterministic
  hardware, and the point of the property is that its choices, which are not
  always the oldest, starve nobody while the reorder buffer bounds how many younger
  instructions can overtake.

- `debugger`: weak fairness of the two processes, `Simulation` and `MainLoop`, which the operating
  system schedules. No fairness of keys: while the simulation runs the main loop does not wait for one
  (`timeout(0)`), and while it does not the property asks nothing.

## 6. Proofs

`ReorderBufferProofs` holds for every
`ROB_DEPTH >= 2 * MACHINE_WIDTH`, every positive width and every set of instructions (`DepthAssumption`, `InstAssumption`; TLC evaluates
both). In particular depth need not be a power of two.

| theorem | statement |
| --- | --- |
| `TypeCorrect` | `Spec => []TypeOK` |
| `WindowCorrect` | `Spec => []ValidExactlyWindow` |
| `TagsCorrect` | `Spec => []TagsOrderByAge` |
| `OneBranch` | `Spec => []OneBranchRetires`, the assertion wished for in the header of `ROB.sv` |
| `RedirectCorrect` | `Spec => []RedirectIsOfRetiredBranch` |
| `RefinesWindow` | `Spec => ImplementsInOrderWindow` |

*Argument.* `ValidExactlyWindow` is not inductive: it says nothing about which of
two pointers is ahead, nor that a group in the rename/dispatch register still fits.
The invariant is

    IInv == TypeOK /\ PointerOrder /\ ValidExactlyWindow /\ RoomForGroup

`PointerOrder`: with equal position bits the head is not beyond the tail, with
different ones the tail is not beyond the head. `RoomForGroup`: when there is a
group to dispatch, a whole group fits. That is what the signal `dispatch_pkt_ready`
promises a cycle earlier from pointers that were still moving, and it is the heart
of the proof.

Every entry is described by its distance from the head (`Age`), in which the window is
an interval (`WindowByAge`). The lanes that retire are a prefix of the lanes and so of
the window (`RetiringLanes`, `RetiringSlots`, by `PrefixIsInterval` of `PselGenTheorems`,
a fact about downward closed sets of naturals); those that dispatch are a contiguous
run just beyond it (`DispatchingLanes`, `DispatchedSlots`); pointers and bits move by
those two counts (`NextPointers`, `CountsFit`); so the new window is the old one
without its beginning, extended at its end (`CycleKeepsWindow`), and room remains
(`CycleKeepsRoom`).

`TagsOrderByAge` needs `TagsFollowHead` besides: an entry at or after `head_ptr` carries
the head's bit, one before it the other. `OneBranchRetires` follows from the guard on
lanes in `retire_en` once the retiring lanes are known to be a prefix; no run states it, since the window
of the refinement lets no second branch retire.

`RedirectIsOfRetiredBranch` speaks of the retired group only; what makes it true is in the
entries. The proof adds `MispSettled` (a misprediction is only noted in a completed
entry) and `RecordedIsOldest`: the register `misp_rob` names an entry with a misprediction,
`redirect_pc` is that entry's branch, and no entry with a misprediction is older. The second
claims nothing in the cycle before a flush, when the entry recorded has just retired.
With `TagsOrderByAge` a comparison of tags is one of ages, so keeping the older of two
mispredictions keeps the oldest (`CycleKeepsMispInv`); a lane that retires a misprediction has no
redirecting lane before it and therefore retires the one recorded (`RetiresRecorded`); and so the
retired group redirects at most once, to its own branch (`OneRedirect`, `CycleKeepsOneRedirect`).

The refinement maps the slots from the head to the tail to a sequence, the k-th at distance k - 1
(`WindowIsSequence`), and the retired lanes, which are the first ones (`RetiredPrefix`), to
another (`RetiredIsSequence`). In a cycle the retired sequence is the beginning of the window
(`RetiresBeginning`) and one the abstract window may retire (`MayRetireCount`); an instruction
that stays keeps its slot, and its distance shrinks by what retired (`NearerByRetired`,
`KeptItem`); what lies beyond was dispatched in this cycle, because an entry with a
misprediction was in the window before (`NewItem`). A flush empties both (`FlushSquashes`).

`PredictionTableProofs` holds for every number of entries not below the number of lanes,
every number of addresses and every set of predictions (`TableAssumption`).

| theorem | statement |
| --- | --- |
| `TableTypeCorrect` | `Spec => []TypeOK` |
| `PredictionsCorrect` | `Spec => []PredictionsKept` |
| `EntriesCorrect` | `Spec => []NoEntryLost` |
| `FetchCorrect` | `Spec => []FetchFollowsProgram` |

*Argument.* `TypeOK /\ PredictionsKept /\ NoEntryLost` is inductive. In a cycle the bag of
branches in flight loses the one that executes and gains those of the accepted group
(`NextInFlight`). The entry of a branch that stays is valid, so it is not offered to
`psel_gen`, and it is not the one released, because tags are unique (`NextEntries`). The
branches that join get different entries: that is `TagsGranted`, from `GrantIsOne` and
`GrantsDiffer` of `PselGenTheorems`: a line below the number of requests is granted one
request, and two such lines different ones, although they count from
opposite ends. Those are facts about ranks: a request has as many requests below it as
it lacks above it (`AboveFromBelow`) and every rank occurs (`EveryRankOccurs`, an injection
between finite sets of one size). `FetchFollowsProgram` follows in one step from
`PredictionsKept` (`VerdictOf`).

`RenameProofs` holds for every number of architectural registers from 1, every width from 1,
every depth of the reorder buffer not below the width, and every set of decoded instructions
in which a halt has no operands (`SizeAssumption`, `DecodedAssumption`, and `NoneAssumption`:
the mark of an empty lane is not an instruction; TLC evaluates the three). These are all
properties of the run `rename`.

| theorem | statement |
| --- | --- |
| `RenameTypes` | `Spec => []TypeOK` |
| `NothingLiveIsFree` | `Spec => []NoLiveRegisterFree` |
| `DestinationsStayDistinct` | `Spec => []DestinationsDistinct` |
| `NoRegisterIsLost` | `Spec => []NoRegisterLeak` |
| `FreeRegistersSuffice` | `Spec => []FreeListSuffices` |
| `MapFollowsProgram` | `Spec => []RatIsProgramOrder`, and `ZeroRegisterFixed` in it |
| `BusyTableIsExact` | `Spec => []BusyExactlyPending` |
| `SourcesFollowProgram` | `Spec => []SourcesNameTheirWriters` |

*Argument.* Two facts carry it, and neither is one of the properties.

The first is that the names of one architectural register form a chain: it is named by the
retirement map, then by each instruction in flight that writes it, and each of these keeps its
predecessor's name in `dest_prn_prev`. `Names(arch, s, n, a, p)` says that `p` is
the name of `a` after the first `n` instructions of `s`; `Linked`, that each `dest_prn_prev`
is the name before it; `DestDistinct`, that no name is in the chains twice. Together they are
`Consistent`. Both ends of the sequence keep it, whatever the sequence is: when a prefix retires,
the retirement map moves along the chains, what it drops is exactly what is given back, and
nobody names it any more (`RetireKeeps`, `ReplacedIsUnused`, `NothingLost`); when instructions
are appended with fresh names, the chains grow (`AppendKeeps`).

The second is that the physical registers divide into free and used ones (`FreeUnused`,
`Covered`). `NoLiveRegisterFree` and `NoRegisterLeak` are weaker: they count as live a register
that is only held in a `dest_prn_prev`, and it is the chains that show there is no such register.
The inductive invariant is

    IInv == Shape /\ Room /\ NothingInRecovery /\ MispKnown
            /\ Consistent(arch_rat, InFlight) /\ RatNames /\ FreeUnused /\ Covered

A cycle is taken in two parts. First the group in the retire register retires and its registers are
given back (`AfterRetirement`: chains and division hold for `Rest`, what is still in flight, and
`free_list_retire_fwd`). Then the accepted group is appended. The registers are counted for it:
the maps hold at most `ARF_DEPTH - 1` besides register 0, the instructions in flight at most
`ROB_DEPTH` by `Room`, so `MACHINE_WIDTH` of the `PRF_DEPTH` are free (`Suffices`); each lane is
therefore granted one and no two the same (`Granted`, from `PselGenTheorems`); a lane that reads
or replaces what an earlier lane of the group writes is given that lane's name, which is again
the end of a chain (`LaneNames`, `ExtendedConsistent`, `ExtendedDivides`). In the cycle that restores
the maps nothing is in flight (`NothingInRecovery`), the speculative map becomes the retirement map
and the free list everything it does not name (`CycleRestores`); a flush empties the stages and
only retires (`FlushKeeps`).

The busy table and the sources need what has retired to be complete (`RetiredComplete`):

    FullInv == IInv /\ RetiredComplete /\ BusyExactlyPending /\ SourceNames

A result on the common data bus removes one name, which is the destination of that instruction and
no other (`StillPending`); a renamed lane adds its own (`NewPending`, `CycleBusy`). A source is
ready when its name is not busy, or is on the bus in this cycle, and no earlier lane of the group
writes it (`ReadyIs`), which is when no older instruction with that destination is incomplete (`CycleSources`).

`StationProofs` holds for a bank of 4, 8, 16 or 32 stations (the depths `rs1.sv` builds its
trees for), every width from 1, every `ROB_DEPTH` not below the width, and every set of
decoded instructions whose sources are at most `ROB_DEPTH - 1` instructions back
(`RsAssumption`, `NoneAssumption`). These are all four invariants of the run `rs`.

| theorem | statement |
| --- | --- |
| `BankTyped` | `Spec => []TypeOK` |
| `EveryInstructionIsHeld` | `Spec => []EveryInstructionHeld` |
| `OperandsAreTracked` | `Spec => []OperandsTracked` |
| `OldestUnlessLatchesStale` | `Spec => []OldestUnlessStale` |

*Argument.* The inductive invariant is

    IInv == TypeOK /\ Room /\ AwakeInUse /\ Held /\ SourcesOlder /\ PacketSources
            /\ OperandsTracked

`Held` says what `EveryInstructionHeld` says without counting: an instruction that waits is in some
station, and two stations in use never hold the same tag (`HeldIs`). Tags lie on a circle of
`2 * ROB_DEPTH`, and everything about age is a distance on it (`Circle`, `AroundTheCircle`,
`Measured`): the window of tags in flight moves by what retires at one end and by what is
dispatched at the other (`WindowMoves`).

*Nothing is lost or doubled at allocation.* `Room` is the promise the ready signal makes a cycle
earlier: when a group is presented, that many stations are free. Each occupied lane is then granted
a free station, and no two the same (`Allocation`, by `GrantIsOne` and `GrantsDiffer` of
`PselGenTheorems`, the same two facts the prediction table and the free list rest on); a station that
issues leaves as another arrives (`KeptIs`, `LoadIs`, `HeldAfter`, `StationsLeft`).

*Operands.* A source could be taken for ready because its tag was given to a younger instruction
meanwhile. `SourcesOlder` and `PacketSources` bound how far back a source lies, the window is at most
`ROB_DEPTH`, half of the circle, and so a tag named by something in flight is not handed out again
(`SourcesNotReused`). With that, `OperandsTracked` survives each broadcast (`StillAwaited`,
`OperandsAfter`, `RenamedIs`).

*Selection.* The trees are functions on heap positions. Their facts are shown by two inductions
over the positions, `FromTheLeaves` (a node's verdict: it requests when a leaf below it
does, `RequestTree`; its station is one of the leaves below, `StationTree`) and `ToTheRoot` (a
request passes up, `RequestsPassUp`); `TreeFunction` shows that the function the tree defines
exists. While the latched tags tell age as the current ones do, a node keeps the older of two
(`TreeComparesAges`), so the root is the oldest of those that ask (`RootIsOldest`, `OldestGranted`):
this is `OldestUnlessStale`. That the latches do go stale is the finding of section 8.

`LoadStoreProofs` holds for queues of every even depth from
`2 * MACHINE_WIDTH`, every width from 1, every depth of the reorder buffer not below the width, every
memory and every set of decoded loads and stores (`LsqAssumption`, and `NoneAssumption`: the mark
of an empty lane is not an instruction). These are all properties of the run `lsq`.

| theorem | statement |
| --- | --- |
| `QueuesTyped` | `Spec => []TypeOK` |
| `RetiredStoresSurvive` | `Spec => []RetiredStoresReachMemory` |
| `StoresRefineBuffer` | `Spec => ImplementsStoreBuffer` |
| `SleepersWake` | `Spec => []SleepersHaveAStore` |
| `NoReplayRetires` | `Spec => []RetiresWithoutOrderFail` |
| `LoadsFollowProgram` | if `LoadStalls = FALSE`, `Spec => []LoadsSeeProgramOrder` |

All but the last hold whether or not the cache refuses loads. The last one does not: that is the first
finding of section 8, so its hypothesis is one the code needs and does not enforce.

*Argument, stores.* The age of an entry is its distance from the head (`StAge`, `LdFromHead`). `Runs` says that the
instructions of one kind, in program order, have consecutive ages; it survives the three things that happen to
a queue, which may all happen in one cycle: the head leaves, the oldest retire, a group is appended
(`RetireSplits`, `DispatchedRuns`, `InOrderAfter`). `IsValue(v, ..., S, a, b)` says that `v` is what the youngest store of
the set `S` that writes byte `b` of word `a` puts there, or what memory holds if none does. There is
exactly one such value (`ValueUnique`), and it moves with the head: when the oldest retired store is written to the
cache, memory plus the stores that remain give the same value (`MemoryAfter`); when stores retire, both
`committed` and the set gain them (`CommittedAfter`). The inductive invariant is

    SInv == TypeOK /\ PointersInOrder /\ StoreEntries /\ LoadEntries /\ OffersHead /\ GroupFits
            /\ StoresInOrder /\ LoadsInOrder /\ StoresComplete
    RInv == SInv /\ CommittedIsValue

`StoreEntries` and `PointersInOrder` tie each entry's flags to the three pointers; `OffersHead`, that what the queue
offers the cache is the head and has retired; `GroupFits`, that a group presented has room, which is what the
ready signal promised a cycle earlier; `StoresComplete`, that a store that retires has its address.

*Argument, store buffer.* `RetiredStoresReachMemory` speaks of the value of each byte, and would allow two stores of different
words to change places; the refinement does not. Under `SInv` the buffer is the stretch of ages below `RetiredCount`, and what retires
is the next stretch (`BufferIs`): the n-th store of the retired group has the n-th of these ages, because ages grow with the place
and a place has as many before it as its age is beyond the first (`RankIsAge`, `NumberedAre`). In a cycle a
store that stays gets younger by the one that leaves (`StoreOfAfter`), so the new buffer is the two stretches joined, less the
first when the cache has taken it (`StretchesJoin`, `StretchesDrop`), and memory is written by exactly that one (`CycleDrains`). A flush is no
exception: it cuts the queue behind both stretches.

*Argument, loads.* `LInv` adds what the load queue knows of the stores: the mask of a load is the oldest part of
the queue and holds exactly the queued stores before it in program order
(`MasksBounded`, `MasksInOrder`, `IdleMasks`), and `Expectation`, that `expect` is what the older stores make of memory. `View(i)` is the set of older
stores whose addresses are known. `OInv` adds that whatever has come to a load, from
the cache (`Answered`), on its way from it (`Outstanding`), or by forwarding (`ForwardsValue`), is what `View(i)`
makes of memory. A store whose address arrives enlarges `View(i)`; a younger load it overlaps is then
marked for replay by the violation check, and for every other load the value is what it was (`ToldOf`, `ValuesAfter`). A load writes back when the addresses of all
older stores are known. `View(i)` is then the whole mask and the value `expect` (`DataUnique`, `WrittenBack`). `AnsweredOnce` says
that a load the store queue answers has no data yet and is not on offer; it and `ForwardsValue` are the
conjuncts a refused load breaks first. `Sleepers` and `LoadsSettled`, which carry the other
two theorems, are part of `LInv`.

`DebuggerProofs` holds for every ring of at least two slots, every set of register lines a dump may
have, every length of the program and of its reset, and all times the user may enter (`VisualAssumption`).
These are all safety properties of the run `debugger`.

| theorem | statement |
| --- | --- |
| `RingHoldsLatest` | `Spec => []HistoryHoldsLatest` |
| `NeitherWaits` | `Spec => []OneDumpAhead` |
| `KeysWalk` | `Spec => KeysWalkByEdges` |

*Argument.* The inductive invariant is

    DInv == Types /\ Pipes /\ Ring

`Pipes` says how far the two processes are from each other. While the child is alive they take turns (`Turns`):
the simulation runs and both pipes are empty, or its reply is under way, or what is in its pipe is the rest of
one dump (`Left`), or the rest of the lines that end the program. After `q` and after a crash a
little less holds (`Quits`, `Lost`). Since the pipe is always the rest of one dump, `Taken`, the number of lines read, determines
what the next line is (`DumpLine`, `DoneLine`).

`Ring` says what the child knows after `Taken` lines: every slot holds its latest complete dump, except that the slot
being filled holds the places of the first `Taken` lines of the next one (`Filled`). A register line has no number
in it; the child counts the lines of its group. So the counter of a group must be the number of
its lines among those read (`Seen`), and the place it gives is one of the group and no other line's: ranks again, from
`PselGenTheorems` (`GroupRanks`, `SeenNext`). The whole dump then fills every place (`DumpFills`), and the slot holds
the new edge, the others what they held (`LatestNext`). This rests on facts about remainders, which are
proved from division (`SameSlot`, `NextSlot`, `OneRound`).

The walk of the keys needs `Views` besides: the slot `hist_num_temp` names is on the screen whenever a key
other than `p` counts, and the clock drawn is that of the screen or none yet. That every search of the history ends at
a slot is `HitIsSlot`. The slot before that of an edge holds the edge before, unless that edge is the oldest of
the ring (`SlotBefore`); the slot after, the edge after, unless it is the newest
(`SlotAfter`). What the keys do at these two ends is not claimed: there the code departs from its
instructions (section 8). Both need that the ring holds nothing but samples (`OnlySamples`), which single-stepping past `DONE` breaks.

`InstructionProofs` holds for every set of words of 32 bits (`WordsAssumption`), and so for all of them.

| theorem | statement |
| --- | --- |
| `ReadersAgree` | `ReadSpec => []DecodersAgree` |

*Argument.* Each reader is a table, and the proof is a comparison of tables. The texts of the debugger and of the
listing are compared group by group of the opcode (`ImmediateTexts` to `SystemTexts`, joined by `TextOf`); from the text follow
the opcode and function codes a word must have (`OpOf`, `GroupOf`), hence which words each reader knows and the processor finds legal (`Knowing`,
`Legal`) and which operands are read (`Operands`). The rows of `select` are compared with the fields of the word
(`ImmRows` to `OtherRows`, `Selected`). An immediate is a sum of fields with weights, cut out of the word by shifts and
masks; `ICut`, `BCut`, `UCut` and `JCut` prove for each format that cutting, weighing and extending the sign give the number
the processor builds (`OffsetOf`, `Immediates`), and that cutting that number again gives the fields back (`PutBack`, `Encoded`).

*Only model-checked.* The liveness properties (fairness and ENABLED are out of the prover's reach), and two invariants of
`programs`: `ResultCorrect`, since the programs are loops and recursions over arrays and graphs, modelled with recursive operators, and what
such a definition computes for every input needs induction over data; and `HeapIntact`, whose free list is walked in the
same way.

## 7. Assumptions about the surroundings

Each is a place where a component meets one that is modelled only by its effect.

- *Front end.* It presents nothing in the cycle in which the maps are restored: the
  repository states `T_back_recv < T_front_recov` and there is no fetch unit in it.
  The valid lanes of a group are contiguous.
- *Functional units.* A result arrives any number of cycles after issue, which contains
  the real latencies; the branch unit completes one branch per cycle. The register
  file and the data of register instructions are not modelled.
- *Renaming* carries one of the two source operands: the code for the other is a
  copy of it. The maps know the reorder buffer as a bounded sequence that retires by the rule of
  `RetireWindow`, which `ROB.sv` is proved to keep (`RefinesWindow`).
- *Load/store queue and stations* see less of the reorder buffer than the maps: its memory instructions, or tags, of which any
  completed prefix may retire. That is more than the window does, so nothing is stated as a refinement.
- *Load/store queue.* Address and data of a store arrive together (`lsq.sv` has one
  execute port). The cache may take a load and a store in one cycle, the load
  then sees the store; it answers an accepted load some cycle later with what memory
  held when it accepted it, drops a load named by
  `fire_ld_kill` and forgets its loads at a flush. No cache in the repository is
  connected to these ports; the last point is an assumption the queue depends on.
  In `lsq` the cache takes every load at once (`LoadStalls = FALSE`).
- *Prediction table.* The front end sets `branch_mask` for exactly the branches of a
  group: a branch without it would carry, and at execution release, an entry that is not
  its own. The group reaches renaming and the table together, as `fetch_pkt_ready`
  joins the two. That a flush leaves no branch behind is what the other modules show.
- *Debugger.* `fgets` reads whole lines and pipes lose nothing; the buffer of a pipe does not
  fill, since there is one dump under way. The shell command that starts the simulation, window layout and
  colours other than the inversion of changed registers are left out. Which edge halts the program is free.
- *Test programs.* Integers do not overflow on the inputs checked, except where the code
  masks them. What a free block held is nobody's, so that the contents of a heap block are its owner's record. The
  programs that never free are represented by sequences of requests of their sizes.
- *Stations.* The tag in the reorder buffer stands for the physical register its
  instruction writes: the two correspond one to one while the instruction is in
  flight (`DestinationsDistinct`). Instructions of the other bank take a tag and no
  station. The signals in the comparator tree have settled at every clock edge,
  and a latch holds the last settled value.

## 8. Findings

- **Order violation missed for a refused load** (`lsq_stall`, `ldq.sv:165`). When the
  address of a store arrives, the load queue looks for younger loads that have
  read too early: answered, fired, forwarded to or accepted in this cycle. A load
  that is offered and *refused* in this cycle is not among them, but the store queue
  has already begun to forward to it; a cycle later it takes the value of the older
  store and writes it back. The counterexample takes nine cycles: two stores to one
  word and a load, the older store executed and retired, the younger one executing in
  the cycle of the refusal. With a cache that accepts loads at once it cannot happen.
- **Not always the oldest** (`rs_oldest`, `sort.sv:217`). A node of the comparator tree with
  two requesting children assigns `data_tmp` and `idx_tmp` but not `pos_tmp`. It is a
  latch that keeps the position bit of an earlier cycle, and the next level compares
  pointers as if one of them had wrapped. The comment in `rs_bank.sv:161` says
  "oldest first issue policy". `rs` shows that this is the only reason
  (`OldestUnlessStale`), and `rs_live` that nothing starves.
- **The keys at the ends of a wrapped ring** (`debugger_keys`, `visual_c_hooks.cpp:927`). The debugger tells its
  user "'n'   -> Next clock edge" and "'b'   -> Previous clock edge" (335-336). Right after a wrap
  `history_num` is 0 and `(history_num-1)%NUM_HISTORY` is -1 in C, so that `n` does not recognise the newest edge,
  which is in the last slot: it shows the oldest one, goes round the ring when pressed again and never lets the
  simulation go on; only `r`, `g` and `c` do. `b` on the oldest edge of a full ring shows the newest (952-958).
  Between the two ends the keys do what the screen says (`KeysWalkByEdges`).

Met while modelling, and part of the model as the code has it (`programs` states its properties
with the exceptions named):

- *Debugger.* A run that ends with `history_num` 0 calls `parsedata(-1)` (899-909). `DONE` read while single-stepping adds a slot past the newest to the ring (903-917), and so does each
  search for a time after it; `NUM_HISTORY` of these set `time_wrapped` in a ring that is not full, and `b` from slot 0 then shows
  a slot never filled. A search from slot 0 of a ring not full scans slots never filled (979), and
  a search that visits nothing leaves `i` from an earlier one (977-1009). A search for a time stops one edge late, and
  its stop survives a pause. Changed registers are highlighted against the present contents of the slot shown before
  (414-420). The code after the loop for an answer other than `q` and the `$finish` of the testbench cannot be
  reached.
- *Instruction tables.* `select` gives `jal` the immediate of `lui`; `encode` drops the sign of a store
  offset; `decode` accepts `jalr` and `wfi` words whose other fields the processor calls illegal, and knows the
  CSR instructions only by name; one text is `LUI`, the others are in small letters.
- *Test programs.* `mergesort.c` sorts one cell behind its array (line 80): the model has that cell, and
  `ResultCorrect` says no more than that the cells the program is told to sort end up sorted, so no property claims the array's own.
  The split of a larger block in `tj_malloc.h` is modelled but not reached, as each program asks for one size. `tj_malloc.h` merges blocks eight times as
  far apart as its comments say (58, 66) and would leave the block at a split (116): the programs are safe because each
  that frees asks for one size. Their results are never tested for NULL. Nodes of equal priority are queued
  before those already there, except behind the head. A second call of `multiplyMatrix` would do nothing. In
  `alexnet.c` the output side is computed with `>> stride`, so that the first layer computes 2x2 outputs; the converted
  features are drawn anew before they are used (239-246); `fc_soft_max` is not called.

One comment in the code differs from it harmlessly: `ROB.sv:176` speaks of the
younger branch where the code keeps the older one, which is the correct choice.

## 9. Not modelled

- The caches, `verilog/mem.sv`, `testbench/mem.sv` and `sync_fifo.sv`: no file of the repository instantiates the cache
  controllers or the FIFO, several ports of the controllers are undriven, and the fetch unit that would drive the
  instruction cache is not in the repository. What the
  load/store queue and renaming need of them is in section 7.
- The arithmetic of the functional units and the physical register file: combinational or of fixed latency; enumerating
  data would show nothing about control. Of the decoder the controls of the units are left out.
- Crossbars and multiplexers: function application in the modules that use them.
- Variants the configuration does not build (older reservation stations, the conservative
  load queue): `components` in `PROJECT.json` lists the files.
- The layout of the debugger's windows and of the pipeline listing (`print_header`, `print_cycles`, `print_reg`,
  `print_membus`, `print_close`): text only.
- The assembly programs, which are inputs of the processor, and `omegalul.c`, which only stores through a pointer it never sets.
- `testbench.sv`, scripts, expected outputs, synthesis and netlist.
