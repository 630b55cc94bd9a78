------------------------------- MODULE PselGen -------------------------------
(***************************************************************************)
(* The priority selector psel_gen.v, which hands free physical registers   *)
(* to the lanes of a renamed group and free reservation stations to the    *)
(* lanes of a dispatched one, and the encoder onehot_enc.sv behind it.     *)
(***************************************************************************)
EXTENDS Integers, FiniteSets

\* Even request lines take the highest requests, odd lines the lowest.
Above(p, req) == Cardinality({q \in req : q > p})
Below(p, req) == Cardinality({q \in req : q < p})

Selected(l, req) ==
  IF l % 2 = 0 THEN {p \in req : Above(p, req) = l \div 2}
               ELSE {p \in req : Below(p, req) = l \div 2}

\* A line never gets what an earlier line got from the other end.
Grant(l, req) == Selected(l, req) \ UNION {Selected(m, req) : m \in 0 .. (l - 1)}

\* An empty grant is encoded as 0.
Encoded(g) == IF g = {} THEN 0 ELSE CHOOSE p \in g : \A q \in g : q <= p
==============================================================================
