-------------------------- MODULE MCRegisterRename --------------------------
(* A small instance of renaming: two lanes and two renamed registers, so that  *)
(* groups overwrite their own destinations and the free list runs to its       *)
(* minimum.  Each register is written from the other, and branches, with and   *)
(* without a destination, and a halt cut the groups.                           *)
EXTENDS RegisterRename

I(k, s, d) == [kind |-> k, src |-> s, dest |-> d]

FullDecoded == {I("op", 1, 2), I("op", 2, 1), I("br", 1, 0), I("br", 0, 1), I("halt", 0, 0)}
============================================================================
