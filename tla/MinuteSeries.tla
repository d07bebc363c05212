---------------------------- MODULE MinuteSeries ----------------------------
(***************************************************************************)
(* The minute store of one carry pair: what minute_ingest/store.py and     *)
(* minute_ingest/runner.py compute from a series of minute bars.  A series *)
(* is a function from the minutes of a bounded timeline to bars, NoBar     *)
(* where the file has no row.  There is no state here: the modules that    *)
(* keep a series in a variable extend this one.                            *)
(***************************************************************************)
EXTENDS Integers, FiniteSetsExt

CONSTANTS
  MaxTs,        \* last minute of the timeline: bounds the model
  Bars,         \* contents of a minute row (prices and volumes)
  NoBar,        \* no row for a minute
  Day,          \* trading day of each minute
  TailMinutes,  \* tail_minutes of the watermark, 180 in the code
  Overlap,      \* ui.incremental_overlap_minutes, already max(.., 1)
  Cutoff        \* signal_cutoff_before_day_end_minutes

Ts == 1 .. MaxTs

ASSUME SeriesAssumption ==
  /\ MaxTs \in Nat \ {0}
  /\ NoBar \notin Bars
  /\ Day \in [Ts -> Nat]
  /\ \A t, u \in Ts : t <= u => Day[t] <= Day[u]
  /\ TailMinutes \in Nat \ {0}
  /\ Overlap \in Nat \ {0}
  /\ Cutoff \in Nat

Series == [Ts -> Bars \cup {NoBar}]

EmptySeries == [t \in Ts |-> NoBar]

Times(s) == {t \in Ts : s[t] # NoBar}

\* max_exec_ts, 0 standing for None.
LastTs(s) == IF Times(s) = {} THEN 0 ELSE Max(Times(s))

Upto(s, n) == [t \in Ts |-> IF t <= n THEN s[t] ELSE NoBar]

(***************************************************************************)
(* compute_watermark: the last minute and a digest of the rows of the      *)
(* tail.  The digest is the tail itself, so two different tails never      *)
(* collide; a row before the tail is not part of it.                       *)
(***************************************************************************)
InTail(s, t) == t >= LastTs(s) - TailMinutes

Watermark(s) ==
  [max  |-> LastTs(s),
   tail |-> [t \in Ts |-> IF InTail(s, t) THEN s[t] ELSE NoBar]]

Watermarks == [max : 0 .. MaxTs, tail : Series]

(***************************************************************************)
(* _resolve_from_ts and _fetch_common_minutes: candles are asked for by    *)
(* calendar day, from the day of (anchor - overlap), or from two days back *)
(* on a cold start; cur is the saved cursor, now the exchange's minute.    *)
(***************************************************************************)
FromDay(cur, s, now) ==
  LET anchor == IF cur # 0 THEN cur ELSE LastTs(s)
  IN  IF anchor = 0 THEN (IF now = 0 THEN 0 ELSE Day[now] - 2)
      ELSE IF anchor - Overlap < 1 THEN 0
      ELSE Day[anchor - Overlap]

Fetch(src, day) == [t \in Ts |-> IF Day[t] >= day THEN src[t] ELSE NoBar]

(***************************************************************************)
(* upsert_minute_series: fetched rows win; a fetched row that differs from *)
(* the stored one, or that the store lacks, is a change, and a change at   *)
(* or before the old last minute makes the mutation not append-only.       *)
(***************************************************************************)
Upsert(s, incoming) ==
  [t \in Ts |-> IF incoming[t] # NoBar THEN incoming[t] ELSE s[t]]

ChangedTs(s, incoming) ==
  {t \in Times(incoming) : incoming[t] # s[t]}

RetroTs(s, incoming) ==
  {t \in ChangedTs(s, incoming) : t <= LastTs(s)}

EarliestRetro(s, incoming) ==
  IF RetroTs(s, incoming) = {} THEN 0 ELSE Min(RetroTs(s, incoming))

(***************************************************************************)
(* apply_day_cutoff: the rows of a day are kept up to Cutoff minutes       *)
(* before the last row of that day.                                        *)
(***************************************************************************)
Kept(s, t) ==
  /\ s[t] # NoBar
  /\ \E u \in Times(s) : Day[u] = Day[t] /\ t + Cutoff <= u

Eligible(s) == [t \in Ts |-> IF Kept(s, t) THEN s[t] ELSE NoBar]
=============================================================================
