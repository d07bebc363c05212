---------------------------- MODULE ReplayFrames ----------------------------
(***************************************************************************)
(* Replay frames: the rows a replay run covers, the engine state after     *)
(* every minute and the end-of-run "unfilled" marks.  The engine itself is *)
(* a parameter: a state, a step per bar and the pending signal of a state  *)
(* (SignalEngine gives the one of pipeline.py).                            *)
(***************************************************************************)
EXTENDS MinuteSeries

CONSTANTS
  Engines,          \* engine signatures: settings the engine runs under
  States,           \* ReplayRuntimeState
  Start,            \* ReplayRuntimeState()
  Step(_, _, _, _), \* engine signature, state, minute, bar -> next state
  SignalTs(_)       \* minute of the pending signal of a state, 0 if none

\* One row of the loop of _apply_spread_carry_signals; no row, no step.
Advance(e, st, t, bar) == IF bar = NoBar THEN st ELSE Step(e, st, t, bar)

\* The states of a run that starts in st after minute a, over the rows of s.
ReplayFrom(e, s, st, a) ==
  LET run[t \in 0 .. MaxTs] ==
        IF t <= a THEN st ELSE Advance(e, run[t - 1], t, s[t])
  IN  run

(***************************************************************************)
(* A step leads to a state, and the pending signal after it is none, the   *)
(* one before it or one raised at this minute.                             *)
(***************************************************************************)
ASSUME EngineAssumption ==
  /\ Start \in States
  /\ SignalTs(Start) = 0
  /\ \A st \in States : SignalTs(st) \in 0 .. MaxTs
  /\ \A e \in Engines, st \in States, t \in Ts, bar \in Bars :
       /\ Step(e, st, t, bar) \in States
       /\ SignalTs(Step(e, st, t, bar)) \in {0, t, SignalTs(st)}

Frames ==
  [rows : Series, trace : [0 .. MaxTs -> States], unfilled : SUBSET Ts]

EmptyFrame ==
  [rows |-> EmptySeries, trace |-> [t \in 0 .. MaxTs |-> Start],
   unfilled |-> {}]

\* End of the run: the row of a signal still pending is marked unfilled.
PendingMark(st) == IF SignalTs(st) = 0 THEN {} ELSE {SignalTs(st)}

\* The rows of an output up to minute k: base_prefix.
Prefix(f, k) ==
  [rows     |-> Upto(f.rows, k),
   trace    |-> [t \in 0 .. MaxTs |-> f.trace[IF t <= k THEN t ELSE k]],
   unfilled |-> f.unfilled \cap 1 .. k]

\* base_prefix up to minute k, then the run of the rows of s after k from st.
Extend(e, f, k, s, st) ==
  LET run == ReplayFrom(e, s, st, k)
  IN  [rows     |-> [t \in Ts |-> IF t <= k THEN f.rows[t] ELSE s[t]],
       trace    |-> [t \in 0 .. MaxTs |-> IF t <= k THEN f.trace[t] ELSE run[t]],
       unfilled |-> (f.unfilled \cap 1 .. k) \cup PendingMark(run[MaxTs])]

\* A replay from scratch.
FullReplay(e, s) == Extend(e, EmptyFrame, 0, s, Start)

(***************************************************************************)
(* The frame f is a replay from scratch, stated without running it: every  *)
(* state follows from the one before, and the only unfilled mark left by   *)
(* an end of run is that of the signal pending at the end.                 *)
(***************************************************************************)
IsReplayOf(f, e, s) ==
  /\ f.rows = s
  /\ f.trace[0] = Start
  /\ \A t \in Ts : f.trace[t] = Advance(e, f.trace[t - 1], t, s[t])
  /\ f.unfilled = PendingMark(f.trace[MaxTs])
=============================================================================
