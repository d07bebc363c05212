------------------------- MODULE IncrementalReplay -------------------------
(***************************************************************************)
(* The refresh of one pair: ingest of minute bars into the local series    *)
(* (minute_ingest), then the cached, incremental replay of the series      *)
(* (unified_runtime.get_pair_replay, signal_replay/incremental.py).        *)
(*                                                                         *)
(* Files: series (the CSV store), cursor (cursor.json), output (the replay *)
(* parquet), latest (latest.json) and periodic (checkpoints/<ts>.json).    *)
(* They survive a crash.  The rest is memory of the processes.             *)
(*                                                                         *)
(* This is one refresh at a time, under refresh_lock, alone with its       *)
(* files: API requests replay the pair without the lock, over days of      *)
(* their own, and are in SharedReplay.  The timeline lies within           *)
(* compute_lookback_days (120) of every refresh, so all its rows are       *)
(* loaded.                                                                 *)
(***************************************************************************)
EXTENDS ReplayFrames

CONSTANTS
  CheckpointInterval, \* ui.incremental_checkpoint_interval_minutes
  MaxCorrections,     \* bound: corrections published by the exchange
  MaxBackfills,       \* bound: rewrites of the store by the backfill script
  MaxFaults,          \* bound: crashes, failed ingests, failed cursor saves
  MaxReconfigurations,\* bound: restarts with other engine settings
  NoState, NoCheckpoint, NoWatermark, NoFrame, NoPlan, NoMutation

ASSUME ReplayAssumption ==
  /\ CheckpointInterval \in Nat \ {0}
  /\ MaxCorrections \in Nat
  /\ MaxBackfills \in Nat
  /\ MaxFaults \in Nat
  /\ MaxReconfigurations \in Nat
  /\ Engines = 1 .. MaxReconfigurations + 1
  /\ NoState \notin States
  /\ NoWatermark \notin Watermarks

VARIABLES
  source,      \* what the exchange would answer now
  series,      \* the minute store of the pair
  cursor,      \* max_exec_ts of cursor.json, 0 if none
  output,      \* replay output file; EmptyFrame if there is none
  latest,      \* latest.json
  periodic,    \* periodic checkpoint of each minute, NoState if none
  pc,          \* where the refresh stands
  mutation,    \* ReplayMutation handed to its replay
  plan,        \* what its replay computed and will write
  cache,       \* _PAIR_REPLAY_CACHE entry of the pair
  served,      \* replay behind the last published snapshot of this process
  engine,      \* engine signature of the running settings
  corrections, backfills, faults

files  == <<series, cursor, output, latest, periodic>>
memory == <<pc, mutation, plan, cache, served>>
env    == <<source, engine, corrections, backfills, faults>>
vars   == <<source, series, cursor, output, latest, periodic, pc, mutation,
            plan, cache, served, engine, corrections, backfills, faults>>

-----------------------------------------------------------------------------
(* Records.                                                                *)

Mutations ==
  [changed : BOOLEAN, append_only : BOOLEAN, earliest : 0 .. MaxTs,
   after : Watermarks \cup {NoWatermark}]

Checkpoints ==
  [last : Ts, state : States, engine : Engines,
   after : Watermarks \cup {NoWatermark}, last_periodic : 0 .. MaxTs]

Modes == {"append_only", "overlap_replay", "full"}

Plans ==
  [frame : Frames, checkpoint : Checkpoints, emit : BOOLEAN, mode : Modes]

ASSUME NoValueAssumption ==
  /\ NoMutation \notin Mutations
  /\ NoCheckpoint \notin Checkpoints
  /\ NoPlan \notin Plans
  /\ NoFrame \notin Frames

\* A mutation that changed nothing: what a caller without ingest result uses.
NoChange(wm) ==
  [changed |-> FALSE, append_only |-> TRUE, earliest |-> 0, after |-> wm]

-----------------------------------------------------------------------------
(* The decisions of run_true_incremental_replay.                           *)

Rows == Eligible(series)

\* _has_source_history_expansion
HistoryExpanded ==
  /\ Times(Rows) # {}
  /\ Times(output.rows) # {}
  /\ Min(Times(Rows)) < Min(Times(output.rows))

\* Mutant: the watermark of the files is not compared.
ReusableUnlessChanged(m) ==
  ~ m.changed /\ latest # NoCheckpoint /\ ~ HistoryExpanded

\* Nothing changed and the files answer for this watermark.
Reusable(m) ==
  /\ ~ m.changed
  /\ latest # NoCheckpoint
  /\ m.after = latest.after
  /\ ~ HistoryExpanded

HasPendingSignal(st) == SignalTs(st) # 0

\* Mutant: a state with a signal in flight is resumed like any other.
AppendWhilePending(m) == m.append_only

AppendOnly(m) ==
  /\ m.append_only
  /\ ~ HasPendingSignal(latest.state)

ReplayStart == latest.last - Overlap

\* A correction older than the overlap window.
RetroOutsideOverlap(m) == m.earliest # 0 /\ m.earliest < ReplayStart

\* _load_nearest_checkpoint: file names at or before start, latest first.
CheckpointsUpto(start) == {k \in Ts : periodic[k] # NoState /\ k <= start}

\* Mutant: corrections older than the window are not told apart.
ResumeWithinWindow(m) ==
  IF \/ latest = NoCheckpoint
     \/ HistoryExpanded
     \/ latest.engine # engine
  THEN 0
  ELSE IF AppendOnly(m) THEN latest.last
  ELSE IF CheckpointsUpto(ReplayStart) = {} THEN 0
  ELSE Max(CheckpointsUpto(ReplayStart))

\* The minute after which the replay resumes, 0 for a full replay.
ResumeTs(m) ==
  IF \/ latest = NoCheckpoint
     \/ HistoryExpanded
     \/ latest.engine # engine
  THEN 0
  ELSE IF AppendOnly(m) THEN latest.last
  ELSE IF \/ RetroOutsideOverlap(m)
          \/ CheckpointsUpto(ReplayStart) = {}
  THEN 0
  ELSE Max(CheckpointsUpto(ReplayStart))

ResumeMode(m) ==
  IF ResumeTs(m) = 0 THEN "full"
  ELSE IF AppendOnly(m) THEN "append_only"
  ELSE "overlap_replay"

ResumeState(m) ==
  CASE ResumeMode(m) = "full"           -> Start
    [] ResumeMode(m) = "append_only"    -> latest.state
    [] ResumeMode(m) = "overlap_replay" -> periodic[ResumeTs(m)]

BasePrefix(m) ==
  IF ResumeMode(m) = "full" THEN EmptyFrame ELSE Prefix(output, ResumeTs(m))

Tail(m) == {t \in Times(Rows) : t > ResumeTs(m)}

LastPeriodic == IF latest = NoCheckpoint THEN 0 ELSE latest.last_periodic

\* Mutant: pending signals are checkpointed too.
EmitWhilePending(last, st) ==
  LastPeriodic = 0 \/ last - LastPeriodic >= CheckpointInterval

\* _should_emit_periodic_checkpoint
ShouldEmit(last, st) ==
  /\ ~ HasPendingSignal(st)
  /\ LastPeriodic = 0 \/ last - LastPeriodic >= CheckpointInterval

\* Mutant: the checkpoint is dated by the minute the replay resumed after.
PlanDatedByResume(m) ==
  LET k     == ResumeTs(m)
      frame == Extend(engine, BasePrefix(m), k, Rows, ResumeState(m))
      last  == IF k = 0 THEN LastTs(Rows) ELSE k
      emit  == ShouldEmit(last, frame.trace[MaxTs])
  IN  [frame      |-> frame,
       checkpoint |-> [last |-> last, state |-> frame.trace[last],
                       engine |-> engine, after |-> m.after,
                       last_periodic |-> IF emit THEN last ELSE LastPeriodic],
       emit       |-> emit,
       mode       |-> ResumeMode(m)]

\* Mutant: the checkpoint is dated by the last minute of the store, which
\* the cutoff may have kept out of the replay.
PlanDatedByStore(m) ==
  LET k     == ResumeTs(m)
      frame == Extend(engine, BasePrefix(m), k, Rows, ResumeState(m))
      last  == LastTs(series)
      emit  == ShouldEmit(last, frame.trace[MaxTs])
  IN  [frame      |-> frame,
       checkpoint |-> [last |-> last, state |-> frame.trace[MaxTs],
                       engine |-> engine, after |-> m.after,
                       last_periodic |-> IF emit THEN last ELSE LastPeriodic],
       emit       |-> emit,
       mode       |-> ResumeMode(m)]

\* The replay computed in memory, and the files it will write.
ReplayPlan(m) ==
  LET k     == ResumeTs(m)
      st    == ResumeState(m)
      empty == Tail(m) = {}
      frame == IF empty THEN BasePrefix(m)
               ELSE Extend(engine, BasePrefix(m), k, Rows, st)
      last  == IF empty THEN k ELSE LastTs(Rows)
      final == IF empty THEN st ELSE frame.trace[MaxTs]
      emit  == ~ empty /\ ShouldEmit(last, final)
  IN  [frame      |-> frame,
       checkpoint |-> [last |-> last, state |-> final, engine |-> engine,
                       after |-> m.after,
                       last_periodic |-> IF emit THEN last ELSE LastPeriodic],
       emit       |-> emit,
       mode       |-> ResumeMode(m)]

-----------------------------------------------------------------------------
(* Initial state: nothing on disk, the exchange may have a history.        *)

Init ==
  /\ source = EmptySeries
  /\ series = EmptySeries
  /\ cursor = 0
  /\ output = EmptyFrame
  /\ latest = NoCheckpoint
  /\ periodic = [t \in Ts |-> NoState]
  /\ pc = "idle"
  /\ mutation = NoMutation
  /\ plan = NoPlan
  /\ cache = NoFrame
  /\ served = NoFrame
  /\ engine = 1
  /\ corrections = 0
  /\ backfills = 0
  /\ faults = 0

-----------------------------------------------------------------------------
(* The exchange.                                                           *)

\* A new minute is printed.
SourceAppend(t, bar) ==
  /\ t > LastTs(source)
  /\ source' = [source EXCEPT ![t] = bar]
  /\ UNCHANGED <<files, memory, engine, corrections, backfills, faults>>

\* The last minute is still forming, a past one is corrected or printed late.
SourceCorrect(t, bar) ==
  /\ corrections < MaxCorrections
  /\ t <= LastTs(source)
  /\ source[t] # bar
  /\ source' = [source EXCEPT ![t] = bar]
  /\ corrections' = corrections + 1
  /\ UNCHANGED <<files, memory, engine, backfills, faults>>

(***************************************************************************)
(* scripts/intraday_minute_replay.py --save-series-dir: the store is       *)
(* replaced by what the exchange answers from a chosen day on.  It is      *)
(* another process, and it knows nothing of cursors and checkpoints.       *)
(***************************************************************************)
Backfill(day) ==
  /\ backfills < MaxBackfills
  /\ Times(Fetch(source, day)) # {}
  /\ backfills' = backfills + 1
  /\ series' = Fetch(source, day)
  /\ UNCHANGED <<source, engine, corrections, faults, cursor, output, latest,
                 periodic, memory>>

-----------------------------------------------------------------------------
(* Minute ingest: run_incremental_minute_ingest for the pair.              *)

Incoming == Fetch(source, FromDay(cursor, series, LastTs(source)))

IngestUpsert ==
  /\ pc = "idle"
  /\ LET merged == Upsert(series, Incoming)
         change == ChangedTs(series, Incoming)
     IN /\ series' = merged
        /\ mutation' = [changed     |-> change # {},
                        append_only |-> RetroTs(series, Incoming) = {},
                        earliest    |-> EarliestRetro(series, Incoming),
                        after       |-> Watermark(merged)]
  /\ pc' = "cursor"
  /\ UNCHANGED <<env, cursor, output, latest, periodic, plan, cache, served>>

\* Mutant: the cursor is saved as the next minute to ask for.
SaveNextMinute ==
  /\ pc = "cursor"
  /\ cursor' = LastTs(series) + 1
  /\ pc' = "replay"
  /\ UNCHANGED <<env, series, output, latest, periodic, mutation, plan, cache,
                 served>>

\* save_cursor_state after the upsert.
SaveCursor ==
  /\ pc = "cursor"
  /\ cursor' = LastTs(series)
  /\ pc' = "replay"
  /\ UNCHANGED <<env, series, output, latest, periodic, mutation, plan, cache,
                 served>>

\* The fetch failed: the pair is degraded, its cursor is the series' end.
IngestFails ==
  /\ pc = "idle"
  /\ faults < MaxFaults
  /\ faults' = faults + 1
  /\ cursor' = LastTs(series)
  /\ mutation' = NoChange(Watermark(series))
  /\ pc' = "replay"
  /\ UNCHANGED <<source, engine, corrections, backfills, series, output, latest, periodic,
                 plan, cache, served>>

(***************************************************************************)
(* The upsert replaced the file and the cursor could not be saved: the     *)
(* except branch reports the watermark of the series BEFORE the upsert,    *)
(* no change, and a cursor at the end of the old series.                   *)
(***************************************************************************)
UpsertThenFails ==
  /\ pc = "idle"
  /\ faults < MaxFaults
  /\ faults' = faults + 1
  /\ series' = Upsert(series, Incoming)
  /\ cursor' = LastTs(series)
  /\ mutation' = NoChange(Watermark(series))
  /\ pc' = "replay"
  /\ UNCHANGED <<source, engine, corrections, backfills, output, latest,
                 periodic, plan, cache, served>>

-----------------------------------------------------------------------------
(* The replay: get_pair_replay and what it calls.                          *)

CacheHit(m) == cache # NoFrame /\ cache.after = m.after

\* The refresh is done: it publishes, and caches, what it got.
Finish(frame) ==
  /\ pc' = "idle"
  /\ mutation' = NoMutation
  /\ plan' = NoPlan
  /\ served' = frame
  /\ cache' = [after |-> mutation.after, frame |-> frame]

\* Same watermark as the cached replay: the files are not looked at.
ServeCached ==
  /\ pc = "replay"
  /\ CacheHit(mutation)
  /\ Finish(cache.frame)
  /\ UNCHANGED <<env, files>>

Misses ==
  /\ pc = "replay"
  /\ ~ CacheHit(mutation)

HasRows(m) == Tail(m) # {} \/ Times(BasePrefix(m).rows) # {}

\* No series, or the cutoff keeps no row of it: the run ends with an error.
NothingToReplay ==
  /\ Misses
  /\ \/ Times(series) = {}
     \/ ~ Reusable(mutation) /\ ~ HasRows(mutation)
  /\ pc' = "idle"
  /\ mutation' = NoMutation
  /\ UNCHANGED <<env, files, plan, cache, served>>

Reuse ==
  /\ Misses
  /\ Times(series) # {}
  /\ Reusable(mutation)
  /\ Finish(output)
  /\ UNCHANGED <<env, files>>

\* Mutant: latest.json is written before the output file.
CheckpointFirst ==
  /\ Misses
  /\ Times(series) # {}
  /\ ~ Reusable(mutation)
  /\ HasRows(mutation)
  /\ plan' = ReplayPlan(mutation)
  /\ latest' = ReplayPlan(mutation).checkpoint
  /\ pc' = "output"
  /\ UNCHANGED <<env, series, cursor, output, periodic, mutation, cache, served>>

\* Reads the files and runs the engine over the tail.
Compute ==
  /\ Misses
  /\ Times(series) # {}
  /\ ~ Reusable(mutation)
  /\ HasRows(mutation)
  /\ plan' = ReplayPlan(mutation)
  /\ pc' = "output"
  /\ UNCHANGED <<env, files, mutation, cache, served>>

WriteOutput ==
  /\ pc = "output"
  /\ output' = plan.frame
  /\ pc' = IF plan.emit THEN "periodic" ELSE "latest"
  /\ UNCHANGED <<env, series, cursor, latest, periodic, mutation, plan, cache,
                 served>>

WritePeriodic ==
  /\ pc = "periodic"
  /\ periodic' = [periodic EXCEPT ![plan.checkpoint.last] =
                    plan.checkpoint.state]
  /\ pc' = "latest"
  /\ UNCHANGED <<env, series, cursor, output, latest, mutation, plan, cache,
                 served>>

WriteLatest ==
  /\ pc = "latest"
  /\ latest' = plan.checkpoint
  /\ Finish(plan.frame)
  /\ UNCHANGED <<env, series, cursor, output, periodic>>

\* A forced refresh replays from scratch, and touches none of the files.
ForceFull ==
  /\ pc = "idle"
  /\ Times(Rows) # {}
  /\ served' = FullReplay(engine, Rows)
  /\ cache' = [after |-> NoWatermark, frame |-> FullReplay(engine, Rows)]
  /\ UNCHANGED <<env, files, pc, mutation, plan>>

-----------------------------------------------------------------------------
(* Crash and restart of the server process.                                *)

LoseMemory ==
  /\ pc' = "idle"
  /\ mutation' = NoMutation
  /\ plan' = NoPlan
  /\ cache' = NoFrame
  /\ served' = NoFrame

Crash ==
  /\ faults < MaxFaults
  /\ faults' = faults + 1
  /\ LoseMemory
  /\ UNCHANGED <<files, source, engine, corrections, backfills>>

\* A restart with other alpha or cost settings.
Reconfigure ==
  /\ engine < MaxReconfigurations + 1
  /\ engine' = engine + 1
  /\ LoseMemory
  /\ UNCHANGED <<files, source, corrections, backfills, faults>>

-----------------------------------------------------------------------------
Replay ==
  \/ NothingToReplay \/ Reuse \/ Compute
  \/ WriteOutput \/ WritePeriodic \/ WriteLatest

Refresh ==
  \/ IngestUpsert \/ SaveCursor \/ ServeCached \/ Replay

Exchange ==
  \E t \in Ts, bar \in Bars : SourceAppend(t, bar) \/ SourceCorrect(t, bar)

Next ==
  \/ Exchange
  \/ \E t \in Ts : Backfill(Day[t])
  \/ Refresh
  \/ IngestFails
  \/ UpsertThenFails
  \/ ForceFull
  \/ Crash
  \/ Reconfigure

Spec == Init /\ [][Next]_vars

(***************************************************************************)
(* The scheduler loop starts a refresh every interval and each refresh     *)
(* runs to its end: its steps are taken as long as they are possible.      *)
(* One of them always is, so weak fairness of Refresh says that its steps  *)
(* never cease, and is stated so, without ENABLED.                         *)
(***************************************************************************)
FairSpec == Spec /\ []<><<Refresh>>_vars

-----------------------------------------------------------------------------
(* Properties.                                                             *)

TypeOK ==
  /\ source \in Series
  /\ series \in Series
  /\ cursor \in 0 .. MaxTs
  /\ output \in Frames
  /\ latest \in Checkpoints \cup {NoCheckpoint}
  /\ periodic \in [Ts -> States \cup {NoState}]
  /\ pc \in {"idle", "cursor", "replay", "output", "periodic", "latest"}
  /\ mutation \in Mutations \cup {NoMutation}
  /\ plan \in Plans \cup {NoPlan}
  /\ cache \in [after : Watermarks \cup {NoWatermark}, frame : Frames] \cup {NoFrame}
  /\ served \in Frames \cup {NoFrame}
  /\ engine \in Engines
  /\ corrections \in 0 .. MaxCorrections
  /\ backfills \in 0 .. MaxBackfills
  /\ faults \in 0 .. MaxFaults

(***************************************************************************)
(* Nothing of an earlier refresh is left: there is a mutation exactly      *)
(* while a refresh runs and a plan exactly while it writes, so what a      *)
(* replay reads and writes is always its own.                              *)
(***************************************************************************)
PhasesOK ==
  /\ mutation # NoMutation <=> pc # "idle"
  /\ plan # NoPlan <=> pc \in {"output", "periodic", "latest"}
  /\ pc = "periodic" => plan.emit

(***************************************************************************)
(* Signal indices are relative to one run, so a state with a signal in     *)
(* flight must never be resumed: no periodic checkpoint holds one, and     *)
(* none is about to be written, whatever the files hold.                   *)
(***************************************************************************)
SettledCheckpoints ==
  /\ \A k \in Ts : periodic[k] # NoState => ~ HasPendingSignal(periodic[k])
  /\ plan # NoPlan /\ plan.emit
       => ~ HasPendingSignal(plan.checkpoint.state)

(***************************************************************************)
(* The output file is a replay from scratch of the series as it was up to  *)
(* some minute: whatever was resumed, reused, or cut short by a crash, no  *)
(* row is missing, duplicated or computed from another state.              *)
(***************************************************************************)
OutputIsReplay ==
  \E n \in 0 .. MaxTs : IsReplayOf(output, engine, Eligible(Upto(series, n)))

(***************************************************************************)
(* Every checkpoint on disk, latest and periodic, is the state the output  *)
(* file records at its minute, even between the writes of the files.       *)
(***************************************************************************)
AgreesWithOutput(k, st) == k <= LastTs(output.rows) /\ output.trace[k] = st

CheckpointsAgree ==
  /\ latest # NoCheckpoint => AgreesWithOutput(latest.last, latest.state)
  /\ \A k \in Ts : periodic[k] # NoState => AgreesWithOutput(k, periodic[k])

(***************************************************************************)
(* A refresh that saw the whole store publishes the replay of the whole    *)
(* store, whether it came from the cache, the files or the engine.         *)
(***************************************************************************)
RefreshEnds ==
  /\ pc \in {"replay", "latest"}
  /\ pc' = "idle"
  /\ served' # NoFrame

PublishesTheStore ==
  [][RefreshEnds /\ mutation.after = Watermark(series)
       => IsReplayOf(served', engine, Rows)]_vars

(***************************************************************************)
(* The incremental state never goes back in time.                          *)
(***************************************************************************)
LatestNeverRewinds ==
  [][latest # NoCheckpoint => latest'.last >= latest.last]_latest

(***************************************************************************)
(* A correction older than the overlap window that reaches the replay is   *)
(* answered by a replay of the whole store, whatever stale checkpoints and *)
(* rows earlier corrections have left behind.                              *)
(***************************************************************************)
OldCorrectionRebuilds ==
  [][(/\ pc = "replay"
      /\ pc' = "output"
      /\ latest # NoCheckpoint
      /\ mutation.earliest # 0
      /\ mutation.earliest < latest.last - Overlap)
      => IsReplayOf(plan'.frame, engine, Rows)]_vars

(***************************************************************************)
(* The refresh implements PublishedReplay: what a reader of the snapshot   *)
(* sees is nothing, or a replay from scratch of the store up to a minute,  *)
(* and no refresh takes a minute back.                                     *)
(***************************************************************************)
Published == INSTANCE PublishedReplay

ImplementsPublishedReplay == Published!Spec

(***************************************************************************)
(* Whenever the exchange has rows the cutoff keeps, the published replay   *)
(* is at some later time the replay of all of them: no failed ingest,      *)
(* failed save or crash stops the pair for good.                           *)
(***************************************************************************)
UpToDate == served # NoFrame /\ IsReplayOf(served, engine, Eligible(source))

CatchesUp == Times(Eligible(source)) # {} ~> UpToDate
=============================================================================
