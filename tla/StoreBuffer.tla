---------------------------- MODULE StoreBuffer ----------------------------
(***************************************************************************)
(* What the load/store queue promises of stores, without entries, pointers *)
(* or flushes: a store that retires waits in a buffer, and the stores      *)
(* leave it for memory one at a time in the order in which they retired.   *)
(* Nothing else writes memory, and nothing removes a store from the        *)
(* buffer.                                                                 *)
(***************************************************************************)
EXTENDS Integers, Sequences

CONSTANTS Capacity, Width, Addr, Byte, Val, InitVal, Stores

VARIABLES
  buffer,    \* the retired stores memory does not have, oldest first
  retiring,  \* those that retired in the previous cycle, in program order
  memory

bvars == <<buffer, retiring, memory>>

Written(m, st) ==
  [a \in Addr |-> [b \in Byte |-> IF a = st.addr /\ b \in st.bytes THEN st.val ELSE m[a][b]]]

BInit ==
  /\ buffer = <<>>
  /\ retiring = <<>>
  /\ memory = [a \in Addr |-> [b \in Byte |-> InitVal]]

\* What retired joins the buffer, and the next stores retire.
Retire(left) ==
  /\ buffer' = left \o retiring
  /\ Len(buffer') <= Capacity
  /\ Len(retiring') <= Width
  /\ \A k \in 1 .. Len(retiring') : retiring'[k] \in Stores

Drain ==
  /\ buffer # <<>>
  /\ memory' = Written(memory, Head(buffer))
  /\ Retire(Tail(buffer))

Wait == Retire(buffer) /\ UNCHANGED memory

BNext == Drain \/ Wait

BSpec == BInit /\ [][BNext]_bvars
=============================================================================
