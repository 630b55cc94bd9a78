------------------------- MODULE MCPredictionTable -------------------------
(* Small instances of the prediction table: twice as many entries as lanes. *)
EXTENDS PredictionTable

P(p, d, t) == [pc |-> p, dir |-> d, target |-> t]

\* One predicted not taken, at the last address before a wrap, one taken.
TwoBranches == {P(2, FALSE, 1), P(0, TRUE, 2)}
============================================================================
