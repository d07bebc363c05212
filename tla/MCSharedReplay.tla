--------------------------- MODULE MCSharedReplay ---------------------------
(* SharedReplay over the automaton of SignalEngine.                        *)
EXTENDS SharedReplay, SignalEngine

MCDays == [t \in 1 .. MaxTs |-> 1]
MCBars == {[px |-> 1, edge |-> 1], [px |-> 2, edge |-> 0]}
MCPrices == {1, 2}
MCMinEdge == [e \in {1} |-> 1]
MCSameWindow == [p \in Callers |-> 1]
MCChartWindow == [p \in Callers |-> IF p = Refresh THEN 2 ELSE 1]
=============================================================================
