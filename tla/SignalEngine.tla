---------------------------- MODULE SignalEngine ----------------------------
(***************************************************************************)
(* The signal automaton of pipeline._apply_spread_carry_signals with       *)
(* signal_exec_lag_days = 0 (configs/default.yaml): what one row of the    *)
(* minute stream does to the runtime state.                                *)
(*                                                                         *)
(* A bar is a price level (spot, future and spread move together) and the  *)
(* edge of the pair, which stands for floor, liquidity, z-score and days   *)
(* to expiry: all of them together allow an entry when edge >= MinEdge.    *)
(* The history of spreads that feeds the z-score travels with the state in *)
(* the code (2048 values for a window of 60) and is part of edge here.     *)
(***************************************************************************)
EXTENDS Integers

CONSTANTS
  Minutes,         \* last minute of the timeline
  MinEdge,         \* engine signature -> entry threshold of its settings
  LagMinutes,      \* execution_lag_minutes
  MaxWaitMinutes,  \* execution_max_wait_minutes
  Tolerance,       \* entry_price_tolerance_pct, on price levels
  TakeProfit,      \* price move from the fill that asks for an exit
  SequentialExit,  \* sequential_exit_enabled
  SecondLegWait,   \* sequential_exit_second_leg_max_wait_minutes
  Prices,          \* price levels
  MaxCycles        \* bound: trade cycles counted

Abs(x) == IF x < 0 THEN - x ELSE x

\* Phases: no position; entry pending; position open; exit pending on it.
Phases == {"flat", "entry", "open", "exit"}

EngineStates ==
  {st \in [phase : Phases, signal : 0 .. Minutes, target : Prices \cup {0},
           entry : Prices \cup {0}, leg : 0 .. Minutes, cycle : 0 .. MaxCycles] :
     /\ st.phase \in {"flat", "open"} => st.signal = 0 /\ st.target = 0
     /\ st.phase \in {"entry", "exit"} => st.signal # 0 /\ st.target # 0
     /\ (st.phase \in {"flat", "entry"}) = (st.entry = 0)
     /\ st.phase # "exit" \/ ~ SequentialExit => st.leg = 0
     /\ st.leg # 0 => st.leg > st.signal}

EngineStart ==
  [phase |-> "flat", signal |-> 0, target |-> 0, entry |-> 0, leg |-> 0,
   cycle |-> 0]

PendingSignalTs(st) == st.signal

Settle(st, phase, entry) ==
  [st EXCEPT !.phase = phase, !.signal = 0, !.target = 0, !.leg = 0,
             !.entry = entry]

Raise(st, phase, t, bar) ==
  [st EXCEPT !.phase = phase, !.signal = t, !.target = bar.px]

\* _submit_timestamp with lag_days = 0, and the deadline of the order.
Submit(st) == st.signal + LagMinutes
Deadline(st) == Submit(st) + MaxWaitMinutes

\* _execution_band_ok
BandOk(st, bar) == Abs(bar.px - st.target) <= Tolerance

\* A pending entry times out, fills inside the band, or waits.
ResolveEntry(st, t, bar) ==
  IF st.phase # "entry" THEN st
  ELSE IF t > Deadline(st) THEN Settle(st, "flat", 0)
  ELSE IF t >= Submit(st) /\ BandOk(st, bar)
  THEN [Settle(st, "open", bar.px) EXCEPT
          !.cycle = IF @ < MaxCycles THEN @ + 1 ELSE @]
  ELSE st

\* The second leg may close after the first one, or when its own wait is over.
ExitFinal(st, t, bar) ==
  \/ t > Deadline(st)
  \/ IF SequentialExit
     THEN (t > st.leg /\ BandOk(st, bar)) \/ t > st.leg + SecondLegWait
     ELSE BandOk(st, bar)

\* A pending exit closes the position, forced on a timeout, or waits.
ResolveExit(st, t, bar) ==
  IF st.phase # "exit" \/ t < Submit(st) THEN st
  ELSE LET legged == IF SequentialExit /\ st.leg = 0
                     THEN [st EXCEPT !.leg = t] ELSE st
       IN  IF ExitFinal(legged, t, bar) THEN Settle(legged, "flat", 0)
           ELSE legged

\* Flat: enter if the filters allow.  Open: exit on a move from the fill.
RaiseSignal(e, st, t, bar) ==
  CASE st.phase = "flat" /\ bar.edge >= MinEdge[e] -> Raise(st, "entry", t, bar)
    [] st.phase = "open" /\ Abs(bar.px - st.entry) >= TakeProfit ->
         Raise(st, "exit", t, bar)
    [] OTHER -> st

EngineStep(e, st, t, bar) ==
  RaiseSignal(e, ResolveExit(ResolveEntry(st, t, bar), t, bar), t, bar)
=============================================================================
