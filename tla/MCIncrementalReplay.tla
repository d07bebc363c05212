------------------------ MODULE MCIncrementalReplay ------------------------
(* IncrementalReplay over the automaton of SignalEngine.                   *)
EXTENDS IncrementalReplay, SignalEngine

MCDays1 == [t \in 1 .. MaxTs |-> 1]
MCDays2 == [t \in 1 .. MaxTs |-> IF t <= 2 THEN 1 ELSE 2]
MCBars == {[px |-> 1, edge |-> 1], [px |-> 2, edge |-> 0]}
MCEngines == 1 .. MaxReconfigurations + 1
MCMinEdge == [e \in 1 .. 2 |-> e]
MCPrices == {1, 2}
=============================================================================
