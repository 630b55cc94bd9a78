------------------------- MODULE MCReservationStation -------------------------
(* Small instances of a bank of reservation stations. *)
EXTENDS ReservationStation

CONSTANTS alu, mul

I(u, s) == [fu |-> u, srcs |-> s]

\* Two units, operands from one and two instructions back.
TwoUnits == {alu, mul}
MixedDecoded == {I(None, {}), I(alu, {2}), I(mul, {1, 2})}

\* One unit.
OneUnit == {alu}
ChainDecoded == {I(None, {}), I(alu, {}), I(alu, {1})}

\* Every instruction needs the unit.
AluDecoded == {I(alu, {}), I(alu, {1})}
===============================================================================
