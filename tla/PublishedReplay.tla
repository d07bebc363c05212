--------------------------- MODULE PublishedReplay ---------------------------
(***************************************************************************)
(* What the refresh of a pair promises its readers, with no files, no      *)
(* checkpoints and no cache: a store that grows, an engine that may be     *)
(* restarted with other settings, and a published replay that is a replay  *)
(* from scratch of the store up to some minute.                            *)
(***************************************************************************)
EXTENDS ReplayFrames

CONSTANT NoFrame

VARIABLES
  series,  \* the minute store
  served,  \* the published replay, NoFrame before the first one
  engine   \* engine signature of the running settings

vars == <<series, served, engine>>

Init ==
  /\ series = EmptySeries
  /\ served = NoFrame
  /\ engine \in Engines

\* Rows are added after the last one; what is stored is never changed.
Grow ==
  /\ series' \in Series
  /\ Upto(series', LastTs(series)) = series
  /\ UNCHANGED <<served, engine>>

ReplayOfThePast(f) ==
  \E n \in 0 .. MaxTs : IsReplayOf(f, engine, Eligible(Upto(series, n)))

\* A refresh publishes; it covers every minute it covered before.
Publish ==
  /\ served' # NoFrame
  /\ ReplayOfThePast(served')
  /\ served # NoFrame => Times(served.rows) \subseteq Times(served'.rows)
  /\ UNCHANGED <<series, engine>>

\* A restart forgets what was published and may bring other settings.
Restart ==
  /\ served' = NoFrame
  /\ engine' \in Engines
  /\ UNCHANGED series

Next == Grow \/ Publish \/ Restart

Spec == Init /\ [][Next]_vars
=============================================================================
