------------------------- MODULE MCVisualDebugger -------------------------
(* A ring of three slots, wrapped twice by a program of up to seven edges,   *)
(* and dumps with a register of the IF group and two miscellaneous ones.     *)
EXTENDS VisualDebugger

FewLines == <<"f", "v", "v">>
===========================================================================
