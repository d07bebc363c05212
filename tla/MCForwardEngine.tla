--------------------------- MODULE MCForwardEngine ---------------------------
(***************************************************************************)
(* A small instance of ForwardEngine for TLC: two pairs, the second of two *)
(* shares a contract.                                                      *)
(***************************************************************************)
EXTENDS ForwardEngine

Q(stock, fut) == [stock |-> stock, fut |-> fut, floor |-> TRUE, liquid |-> TRUE]

MCMult   == [p \in Pairs |-> p]
MCExpiry == [p \in Pairs |-> IF p = 1 THEN 20 ELSE 3]
MCLimits == {Never, 60}
MCQuotes ==
  [p \in Pairs |->
     IF p = 1 THEN {Q(8, 8), Q(16, 24), [Q(8, 0) EXCEPT !.floor = FALSE]}
     ELSE {Q(8, 8), Q(16, 0), [Q(0, 8) EXCEPT !.liquid = FALSE]}]
=============================================================================
