------------------------- MODULE MCLoadStoreQueue -------------------------
(* Small instances of the load/store queue. *)
EXTENDS LoadStoreQueue

Ld(a, b) == [addr |-> a, bytes |-> b]
St(a, b, v) == [addr |-> a, bytes |-> b, val |-> v]

\* One word of one byte: every access is to the same place.
OneWordLoads == {Ld(0, {0})}
OneWordStores == {St(0, {0}, 0), St(0, {0}, 1)}

\* One word of two bytes: a byte store does not cover a word load.
PartialLoads == {Ld(0, {0, 1})}
PartialStores == {St(0, {0}, 1), St(0, {0, 1}, 0)}

\* For liveness the data do not matter.
SleepLoads == {Ld(0, {0, 1})}
SleepStores == {St(0, {0}, 0)}
===========================================================================
