---------------------------- MODULE RetireWindow ----------------------------
(***************************************************************************)
(* What the reorder buffer promises to the rest of the backend, without    *)
(* pointers, entries or tags: the instructions in flight form a sequence   *)
(* in program order.  In a cycle the longest prefix of it that may retire  *)
(* does: completed instructions, no more than a group, with at most one    *)
(* branch, up to one that redirects the pipeline.  Results are noted, and  *)
(* the dispatched group is appended.  In the cycle after a redirecting     *)
(* instruction retired everything younger is gone.                         *)
(***************************************************************************)
EXTENDS Integers, Sequences

CONSTANTS Capacity, Width, Inst, BranchInst, HaltInst

VARIABLES
  window,   \* instructions in flight, oldest first
  retired,  \* instructions retired in the previous cycle, oldest first
  halted

wvars == <<window, retired, halted>>

Item == [inst : Inst, complete : BOOLEAN, branch_misp : BOOLEAN]

ItemRedirects(x) == x.branch_misp \/ x.inst \in HaltInst

Flushing == \E k \in 1 .. Len(retired) : ItemRedirects(retired[k])

\* An item in flight keeps its instruction; a result arrives at most once.
Progresses(x, y) ==
  /\ y.inst = x.inst
  /\ x.complete => y = x
  /\ y.branch_misp => y.complete /\ (x.complete \/ y.inst \in BranchInst)

MayRetire(n) ==
  /\ \A k \in 1 .. n : window[k].complete
  /\ \A k \in 1 .. (n - 1) : ~ItemRedirects(window[k])
  /\ \A j, k \in 1 .. n :
       window[j].inst \in BranchInst /\ window[k].inst \in BranchInst => j = k

WInit == window = <<>> /\ retired = <<>> /\ halted = FALSE

Advance ==
  /\ ~Flushing
  /\ \E n \in 0 .. Len(window), m \in 0 .. Width :
       /\ n <= Width
       /\ retired' = SubSeq(window, 1, n)
       /\ Len(window') = Len(window) - n + m
       /\ MayRetire(n)
       /\ n < Width /\ n < Len(window) => ~MayRetire(n + 1)
       /\ \A k \in 1 .. (Len(window) - n) : Progresses(window[n + k], window'[k])
       /\ \A k \in (Len(window) - n + 1) .. Len(window') :
            window'[k] \in Item /\ ~window'[k].branch_misp
  /\ Len(window') <= Capacity
  /\ UNCHANGED halted

Squash ==
  /\ Flushing
  /\ window' = <<>>
  /\ retired' = <<>>
  /\ halted' = (halted \/ \E k \in 1 .. Len(retired) : retired[k].inst \in HaltInst)

WNext == Advance \/ Squash

WSpec == WInit /\ [][WNext]_wvars
=============================================================================
