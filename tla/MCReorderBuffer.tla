-------------------------- MODULE MCReorderBuffer --------------------------
(* Small instances of the reorder buffer: 2 lanes and 4 entries, so that every *)
(* group can wrap and the buffer fills in two cycles.                          *)
EXTENDS ReorderBuffer

CONSTANTS op, b1, b2, halt
============================================================================
