----------------------- MODULE IncrementalReplay_proofs -----------------------
(***************************************************************************)
(* What holds of the refresh of a pair for every timeline, engine, overlap *)
(* and cutoff, whatever is corrected, lost or restarted.                   *)
(***************************************************************************)
EXTENDS IncrementalReplay, ReplayFrames_proofs

(***************************************************************************)
(* What a replay resumes from: a minute of the timeline, a state and a     *)
(* frame, whichever of the three modes it runs in.                         *)
(***************************************************************************)
LEMMA ResumeType ==
  ASSUME TypeOK, NEW m \in Mutations
  PROVE  /\ ResumeTs(m) \in 0 .. MaxTs
         /\ ResumeState(m) \in States
         /\ BasePrefix(m) \in Frames
         /\ ResumeMode(m) \in Modes
         /\ ResumeMode(m) = "full" <=> ResumeTs(m) = 0
<1> DEFINE C == CheckpointsUpto(ReplayStart)
<1>1. MaxTs \in Nat /\ Overlap \in Nat
  BY SeriesAssumption
<1>2. latest # NoCheckpoint => latest \in Checkpoints
  BY DEF TypeOK
<1>3. latest # NoCheckpoint => latest.last \in 1 .. MaxTs /\ latest.state \in States
  BY <1>2 DEF Checkpoints, Ts
<1>4. C \in SUBSET (0 .. MaxTs) /\ \A k \in C : k \in Ts /\ periodic[k] # NoState
  BY <1>1 DEF CheckpointsUpto, Ts
<1>5. C # {} => Max(C) \in C
  <2> HIDE DEF C
  <2> QED BY <1>1, <1>4, MaxOfBounded
<1>6. \/ ResumeTs(m) = 0
      \/ latest # NoCheckpoint /\ AppendOnly(m) /\ ResumeTs(m) = latest.last
      \/ ~ AppendOnly(m) /\ C # {} /\ ResumeTs(m) = Max(C)
  BY Zenon DEF ResumeTs
<1> HIDE DEF C
<1>7. ResumeTs(m) \in 0 .. MaxTs
  <2>1. CASE ResumeTs(m) = 0
    BY <1>1, <2>1
  <2>2. CASE latest # NoCheckpoint /\ ResumeTs(m) = latest.last
    BY <1>1, <1>3, <2>2
  <2>3. CASE C # {} /\ ResumeTs(m) = Max(C)
    BY <1>4, <1>5, <2>3
  <2> QED BY <1>6, <2>1, <2>2, <2>3
<1>8. ResumeMode(m) \in Modes /\ (ResumeMode(m) = "full" <=> ResumeTs(m) = 0)
  BY Zenon DEF ResumeMode, Modes
<1>9. ResumeState(m) \in States
  <2>1. CASE ResumeTs(m) = 0
    BY <2>1, EngineAssumption DEF ResumeState, ResumeMode
  <2>2. CASE ResumeTs(m) # 0 /\ latest # NoCheckpoint /\ AppendOnly(m)
    <3>1. ResumeMode(m) = "append_only"
      BY <2>2 DEF ResumeMode
    <3> QED BY <3>1, <2>2, <1>3 DEF ResumeState
  <2>3. CASE ResumeTs(m) # 0 /\ ~ AppendOnly(m) /\ C # {} /\ ResumeTs(m) = Max(C)
    <3>1. ResumeMode(m) = "overlap_replay"
      BY <2>3 DEF ResumeMode
    <3>2. periodic[ResumeTs(m)] \in States
      BY <2>3, <1>4, <1>5 DEF TypeOK
    <3> QED BY <3>1, <3>2 DEF ResumeState
  <2> QED BY <2>1, <2>2, <2>3, <1>6
<1>10. BasePrefix(m) \in Frames
  BY <1>7, PrefixType, EmptyFrameType DEF BasePrefix, TypeOK
<1> QED BY <1>7, <1>8, <1>9, <1>10

(***************************************************************************)
(* The rows the cutoff keeps are a series, and the last of them, if there  *)
(* are any, is a minute of the timeline.                                   *)
(***************************************************************************)
LEMMA RowsType ==
  ASSUME TypeOK
  PROVE  /\ Rows \in Series
         /\ Times(series) # {} <=> LastTs(series) # 0
         /\ LastTs(Rows) \in 0 .. MaxTs
         /\ Times(Rows) # {} => LastTs(Rows) \in Ts
<1>1. series \in Series
  BY DEF TypeOK
<1>2. Rows \in Series
  BY <1>1, SeriesTypes DEF Rows
<1> QED BY <1>1, <1>2, LastTsFacts DEF Times

(***************************************************************************)
(* What a replay computes is a plan it can write, and a periodic           *)
(* checkpoint it will write holds no signal in flight                      *)
(* (_should_emit_periodic_checkpoint).                                     *)
(***************************************************************************)
LEMMA ReplayPlanType ==
  ASSUME TypeOK, NEW m \in Mutations, HasRows(m)
  PROVE  /\ ReplayPlan(m) \in Plans
         /\ ReplayPlan(m).emit
              => ~ HasPendingSignal(ReplayPlan(m).checkpoint.state)
<1> DEFINE k     == ResumeTs(m)
           st    == ResumeState(m)
           empty == Tail(m) = {}
           frame == IF empty THEN BasePrefix(m)
                    ELSE Extend(engine, BasePrefix(m), k, Rows, st)
           last  == IF empty THEN k ELSE LastTs(Rows)
           final == IF empty THEN st ELSE frame.trace[MaxTs]
           emit  == ~ empty /\ ShouldEmit(last, final)
           check == [last |-> last, state |-> final, engine |-> engine,
                     after |-> m.after,
                     last_periodic |-> IF emit THEN last ELSE LastPeriodic]
<1>1. MaxTs \in Nat /\ engine \in Engines /\ Rows \in Series
  BY SeriesAssumption, RowsType DEF TypeOK
<1>2. /\ k \in 0 .. MaxTs
      /\ st \in States
      /\ BasePrefix(m) \in Frames
      /\ ResumeMode(m) \in Modes
      /\ ResumeMode(m) = "full" <=> k = 0
  BY ResumeType
<1>3. Extend(engine, BasePrefix(m), k, Rows, st) \in Frames
  <2> HIDE DEF k, st
  <2> QED BY <1>1, <1>2, ExtendType
<1>4. frame \in Frames
  BY <1>2, <1>3
<1>5. last \in Ts
  <2>1. CASE empty
    <3>1. Times(BasePrefix(m).rows) # {}
      BY <2>1 DEF HasRows
    <3>2. Times(EmptyFrame.rows) = {}
      BY DEF EmptyFrame, EmptySeries, Times
    <3>3. k # 0
      BY <3>1, <3>2, <1>2 DEF BasePrefix
    <3> QED BY <2>1, <3>3, <1>2 DEF Ts
  <2>2. CASE ~ empty
    <3>1. Times(Rows) # {}
      BY <2>2 DEF Tail
    <3> QED BY <2>2, <3>1, RowsType
  <2> QED BY <2>1, <2>2
<1>6. final \in States
  <2> HIDE DEF frame, st
  <2>1. frame.trace[MaxTs] \in States
    BY <1>1, <1>4 DEF Frames
  <2> QED BY <2>1, <1>2
<1>7. LastPeriodic \in 0 .. MaxTs
  BY <1>1 DEF LastPeriodic, TypeOK, Checkpoints
<1>8. m.after \in Watermarks \cup {NoWatermark}
  BY DEF Mutations
<1>9. emit \in BOOLEAN
  BY DEF ShouldEmit, HasPendingSignal
<1>10. ReplayPlan(m) = [frame |-> frame, checkpoint |-> check, emit |-> emit,
                        mode |-> ResumeMode(m)]
  BY Zenon DEF ReplayPlan
<1> HIDE DEF k, st, frame, last, final, emit, empty
<1>11. check \in Checkpoints
  <2>1. (IF emit THEN last ELSE LastPeriodic) \in 0 .. MaxTs
    BY <1>1, <1>5, <1>7 DEF Ts
  <2> QED BY <2>1, <1>1, <1>5, <1>6, <1>8 DEF Checkpoints
<1>12. emit => ~ HasPendingSignal(final)
  BY DEF emit, ShouldEmit
<1> QED BY <1>2, <1>4, <1>9, <1>10, <1>11, <1>12 DEF Plans

-----------------------------------------------------------------------------
(***************************************************************************)
(* The inductive invariant.  TypeOK alone is not inductive: that a written *)
(* plan is a plan and a served frame a frame needs to know in which phases *)
(* a replay holds them (PhasesOK), and that no pending state reaches a     *)
(* periodic checkpoint needs to know it of the plans that will write one.  *)
(***************************************************************************)
IInv == TypeOK /\ PhasesOK /\ SettledCheckpoints

(***************************************************************************)
(* What IInv says of the refresh that is about to act.                     *)
(***************************************************************************)
LEMMA PhaseHolds ==
  ASSUME IInv
  PROVE  /\ pc # "idle" => mutation \in Mutations
         /\ pc \in {"output", "periodic", "latest"} => plan \in Plans
         /\ pc = "periodic" => plan.emit
         /\ cache # NoFrame => cache.frame \in Frames
  BY DEF IInv, TypeOK, PhasesOK

(***************************************************************************)
(* The invariant holds with nothing on disk and no refresh under way.      *)
(***************************************************************************)
LEMMA InitIInv == Init => IInv
<1> SUFFICES ASSUME Init PROVE IInv
  OBVIOUS
<1>1. MaxTs \in Nat /\ 1 \in Engines /\ EmptySeries \in Series
  BY SeriesAssumption, ReplayAssumption DEF EmptySeries, Series
<1>2. TypeOK
  BY <1>1, EmptyFrameType, ReplayAssumption DEF Init, TypeOK
<1>3. PhasesOK
  BY DEF Init, PhasesOK
<1>4. SettledCheckpoints
  BY DEF Init, SettledCheckpoints
<1> QED BY <1>2, <1>3, <1>4 DEF IInv

(***************************************************************************)
(* The exchange and the backfill script touch no replay and no checkpoint. *)
(***************************************************************************)
LEMMA OutsideStep ==
  ASSUME IInv,
         \/ \E t \in Ts, bar \in Bars : SourceAppend(t, bar)
         \/ \E t \in Ts, bar \in Bars : SourceCorrect(t, bar)
         \/ \E t \in Ts : Backfill(Day[t])
  PROVE  IInv'
<1>1. PhasesOK' /\ SettledCheckpoints'
  BY DEF IInv, PhasesOK, SettledCheckpoints, SourceAppend, SourceCorrect,
         Backfill, files, memory
<1>2. CASE \E t \in Ts, bar \in Bars : SourceAppend(t, bar)
  BY <1>1, <1>2 DEF IInv, TypeOK, Series, SourceAppend, files, memory
<1>3. CASE \E t \in Ts, bar \in Bars : SourceCorrect(t, bar)
  <2>1. source' \in Series
    BY <1>3 DEF IInv, TypeOK, Series, SourceCorrect
  <2>2. corrections' \in 0 .. MaxCorrections
    BY <1>3, ReplayAssumption DEF IInv, TypeOK, SourceCorrect
  <2> QED BY <1>1, <1>3, <2>1, <2>2
          DEF IInv, TypeOK, SourceCorrect, files, memory
<1>4. CASE \E t \in Ts : Backfill(Day[t])
  <2>1. series' \in Series
    BY <1>4, SeriesTypes DEF IInv, TypeOK, Backfill
  <2>2. backfills' \in 0 .. MaxBackfills
    BY <1>4, ReplayAssumption DEF IInv, TypeOK, Backfill
  <2> QED BY <1>1, <1>4, <2>1, <2>2 DEF IInv, TypeOK, Backfill, memory
<1> QED BY <1>2, <1>3, <1>4

(***************************************************************************)
(* What an ingest that failed hands to the replay is a                     *)
(* mutation.                                                               *)
(***************************************************************************)
LEMMA NoChangeType ==
  \A wm \in Watermarks \cup {NoWatermark} : NoChange(wm) \in Mutations
<1>1. 0 \in 0 .. MaxTs
  BY SeriesAssumption
<1> QED BY <1>1 DEF NoChange, Mutations

(***************************************************************************)
(* The ingest, whatever fails in it, hands a mutation to the replay.       *)
(***************************************************************************)
LEMMA IngestStep ==
  ASSUME IInv, IngestUpsert \/ SaveCursor \/ IngestFails \/ UpsertThenFails
  PROVE  IInv'
<1>1. /\ series \in Series
      /\ source \in Series
      /\ LastTs(series) \in 0 .. MaxTs
      /\ Watermark(series) \in Watermarks
      /\ Incoming \in Series
  BY SeriesTypes, LastTsFacts
     DEF IInv, TypeOK, IngestUpsert, SaveCursor, IngestFails, UpsertThenFails,
         Incoming
<1>2. /\ Upsert(series, Incoming) \in Series
      /\ Watermark(Upsert(series, Incoming)) \in Watermarks
      /\ EarliestRetro(series, Incoming) \in 0 .. MaxTs
  BY <1>1, SeriesTypes
<1>3. NoChange(Watermark(series)) \in Mutations
  BY <1>1, NoChangeType
<1>4. faults < MaxFaults => faults + 1 \in 0 .. MaxFaults
  BY ReplayAssumption DEF IInv, TypeOK
<1>5. SettledCheckpoints'
  BY DEF IInv, SettledCheckpoints, IngestUpsert, SaveCursor, IngestFails,
         UpsertThenFails
<1>6. CASE IngestUpsert
  <2> DEFINE m == [changed     |-> ChangedTs(series, Incoming) # {},
                   append_only |-> RetroTs(series, Incoming) = {},
                   earliest    |-> EarliestRetro(series, Incoming),
                   after       |-> Watermark(Upsert(series, Incoming))]
  <2>1. m \in Mutations
    BY <1>2 DEF Mutations
  <2>2. /\ series' = Upsert(series, Incoming)
        /\ mutation' = m
        /\ pc' = "cursor"
        /\ pc = "idle"
        /\ UNCHANGED <<env, cursor, output, latest, periodic, plan, cache, served>>
    BY <1>6, Zenon DEF IngestUpsert
  <2> HIDE DEF m
  <2>3. TypeOK'
    BY <1>1, <1>2, <2>1, <2>2 DEF IInv, TypeOK, env
  <2>4. PhasesOK'
    BY <1>1, <2>1, <2>2, NoValueAssumption DEF IInv, TypeOK, PhasesOK
  <2> QED BY <1>5, <2>3, <2>4 DEF IInv
<1>7. CASE SaveCursor
  <2>1. TypeOK'
    BY <1>1, <1>7 DEF IInv, TypeOK, SaveCursor, env
  <2>2. PhasesOK'
    BY <1>7 DEF IInv, TypeOK, PhasesOK, SaveCursor
  <2> QED BY <1>5, <2>1, <2>2 DEF IInv
<1>8. CASE IngestFails
  <2>1. TypeOK'
    BY <1>1, <1>3, <1>4, <1>8 DEF IInv, TypeOK, IngestFails
  <2>2. PhasesOK'
    BY <1>1, <1>3, <1>8, NoValueAssumption DEF IInv, TypeOK, PhasesOK, IngestFails
  <2> QED BY <1>5, <2>1, <2>2 DEF IInv
<1>9. CASE UpsertThenFails
  <2>1. TypeOK'
    BY <1>1, <1>2, <1>3, <1>4, <1>9 DEF IInv, TypeOK, UpsertThenFails
  <2>2. PhasesOK'
    BY <1>1, <1>3, <1>9, NoValueAssumption
       DEF IInv, TypeOK, PhasesOK, UpsertThenFails
  <2> QED BY <1>5, <2>1, <2>2 DEF IInv
<1> QED BY <1>6, <1>7, <1>8, <1>9

-----------------------------------------------------------------------------
(***************************************************************************)
(* The end of a replay: the refresh ends with a frame, over whatever       *)
(* the step leaves in latest.json.                                         *)
(***************************************************************************)
LEMMA FinishStep ==
  ASSUME IInv, NEW frame \in Frames, pc # "idle",
         Finish(frame), latest' \in Checkpoints \cup {NoCheckpoint},
         UNCHANGED <<env, series, cursor, output, periodic>>
  PROVE  IInv'
<1>1. mutation \in Mutations
  BY PhaseHolds
<1>2. [after |-> mutation.after, frame |-> frame]
        \in [after : Watermarks \cup {NoWatermark}, frame : Frames]
  BY <1>1 DEF Mutations
<1>3. /\ pc' = "idle"
      /\ mutation' = NoMutation
      /\ plan' = NoPlan
  BY DEF Finish
<1>4. served' \in Frames \cup {NoFrame}
  BY DEF Finish, IInv, TypeOK
<1>5. cache' \in [after : Watermarks \cup {NoWatermark}, frame : Frames] \cup {NoFrame}
  BY <1>2, Zenon DEF Finish, IInv, TypeOK
<1>6. TypeOK'
  BY <1>3, <1>4, <1>5 DEF IInv, TypeOK, env
<1>7. PhasesOK'
  BY <1>3 DEF IInv, TypeOK, PhasesOK
<1>8. SettledCheckpoints'
  BY <1>3 DEF IInv, TypeOK, SettledCheckpoints
<1> QED BY <1>6, <1>7, <1>8 DEF IInv

(***************************************************************************)
(* The replay keeps the invariant: every write is the write of             *)
(* a plan, and every plan was computed by ReplayPlan.                      *)
(***************************************************************************)
LEMMA ReplayStep ==
  ASSUME IInv, Replay
  PROVE  IInv'
<1>1. CASE NothingToReplay
  <2>1. TypeOK'
    BY <1>1 DEF IInv, TypeOK, NothingToReplay, env, files
  <2>2. PhasesOK'
    BY <1>1 DEF IInv, TypeOK, PhasesOK, NothingToReplay, Misses
  <2>3. SettledCheckpoints'
    BY <1>1 DEF IInv, SettledCheckpoints, NothingToReplay, files
  <2> QED BY <2>1, <2>2, <2>3 DEF IInv
<1>2. CASE Reuse
  <2>1. output \in Frames /\ latest' \in Checkpoints \cup {NoCheckpoint}
    BY <1>2 DEF IInv, TypeOK, Reuse, files
  <2>2. Finish(output) /\ pc # "idle"
    BY <1>2 DEF Reuse, Misses
  <2> QED BY <1>2, <2>1, <2>2, FinishStep DEF Reuse, files, env
<1>3. CASE Compute
  <2>1. mutation \in Mutations /\ HasRows(mutation) /\ pc = "replay"
    BY <1>3, PhaseHolds DEF Compute, Misses
  <2> DEFINE new == ReplayPlan(mutation)
  <2>2. new \in Plans /\ (new.emit => ~ HasPendingSignal(new.checkpoint.state))
    BY <2>1, ReplayPlanType DEF IInv
  <2>3. /\ plan' = new
        /\ pc' = "output"
        /\ UNCHANGED <<env, files, mutation, cache, served>>
    BY <1>3 DEF Compute
  <2> HIDE DEF new
  <2>4. TypeOK'
    BY <2>2, <2>3 DEF IInv, TypeOK, env, files
  <2>5. PhasesOK'
    BY <2>1, <2>2, <2>3, NoValueAssumption DEF IInv, TypeOK, PhasesOK
  <2>6. SettledCheckpoints'
    BY <2>2, <2>3 DEF IInv, TypeOK, SettledCheckpoints, HasPendingSignal, files
  <2> QED BY <2>4, <2>5, <2>6 DEF IInv
<1>4. CASE WriteOutput
  <2>1. plan \in Plans
    BY <1>4, PhaseHolds DEF WriteOutput
  <2>2. plan.frame \in Frames
    BY <2>1 DEF Plans
  <2>3. TypeOK'
    BY <1>4, <2>2 DEF IInv, TypeOK, WriteOutput, env
  <2>4. PhasesOK'
    BY <1>4 DEF IInv, TypeOK, PhasesOK, WriteOutput
  <2>5. SettledCheckpoints'
    BY <1>4 DEF IInv, SettledCheckpoints, WriteOutput
  <2> QED BY <2>3, <2>4, <2>5 DEF IInv
<1>5. CASE WritePeriodic
  <2>1. plan \in Plans /\ plan.emit /\ plan # NoPlan
    BY <1>5, PhaseHolds, NoValueAssumption DEF WritePeriodic
  <2> DEFINE c == plan.checkpoint
  <2>2. c.last \in Ts /\ c.state \in States
    BY <2>1 DEF Plans, Checkpoints
  <2>3. ~ HasPendingSignal(c.state)
    BY <2>1 DEF IInv, SettledCheckpoints
  <2>4. /\ periodic' = [periodic EXCEPT ![c.last] = c.state]
        /\ pc' = "latest"
        /\ pc = "periodic"
        /\ UNCHANGED <<env, series, cursor, output, latest, mutation, plan, cache,
                       served>>
    BY <1>5 DEF WritePeriodic
  <2> HIDE DEF c
  <2>5. TypeOK'
    BY <2>2, <2>4 DEF IInv, TypeOK, env
  <2>6. PhasesOK'
    BY <2>4 DEF IInv, TypeOK, PhasesOK
  <2>7. SettledCheckpoints'
    BY <2>2, <2>3, <2>4 DEF IInv, TypeOK, SettledCheckpoints, HasPendingSignal
  <2> QED BY <2>5, <2>6, <2>7 DEF IInv
<1>6. CASE WriteLatest
  <2>1. plan \in Plans /\ pc # "idle"
    BY <1>6, PhaseHolds DEF WriteLatest
  <2>2. plan.frame \in Frames /\ plan.checkpoint \in Checkpoints
    BY <2>1 DEF Plans
  <2>3. Finish(plan.frame) /\ latest' = plan.checkpoint
    BY <1>6 DEF WriteLatest
  <2>4. latest' \in Checkpoints \cup {NoCheckpoint}
    BY <2>2, <2>3
  <2>5. UNCHANGED <<env, series, cursor, output, periodic>>
    BY <1>6 DEF WriteLatest
  <2> QED BY <2>1, <2>2, <2>3, <2>4, <2>5, FinishStep
<1> QED BY <1>1, <1>2, <1>3, <1>4, <1>5, <1>6 DEF Replay

(***************************************************************************)
(* A refresh answered from the cache, or forced to replay from scratch,    *)
(* publishes a frame and writes no file.                                   *)
(***************************************************************************)
LEMMA UnfiledStep ==
  ASSUME IInv, ServeCached \/ ForceFull
  PROVE  IInv'
<1>1. CASE ServeCached
  <2>1. pc # "idle"
    BY <1>1 DEF ServeCached
  <2>2. cache.frame \in Frames
    BY <1>1 DEF ServeCached, CacheHit, IInv, TypeOK
  <2>3. Finish(cache.frame) /\ UNCHANGED <<env, files>>
    BY <1>1 DEF ServeCached
  <2>4. latest' \in Checkpoints \cup {NoCheckpoint}
    BY <2>3 DEF IInv, TypeOK, files
  <2>5. UNCHANGED <<env, series, cursor, output, periodic>>
    BY <2>3 DEF files
  <2> QED BY <2>1, <2>2, <2>3, <2>4, <2>5, FinishStep
<1>2. CASE ForceFull
  <2>1. MaxTs \in Nat /\ engine \in Engines /\ Rows \in Series /\ Start \in States
    BY RowsType, SeriesAssumption, EngineAssumption DEF IInv, TypeOK
  <2>2. FullReplay(engine, Rows) \in Frames
    BY <2>1, EmptyFrameType, ExtendType DEF FullReplay
  <2> DEFINE full == FullReplay(engine, Rows)
  <2>3. /\ served' = full
        /\ cache' = [after |-> NoWatermark, frame |-> full]
        /\ UNCHANGED <<env, files, pc, mutation, plan>>
    BY <1>2 DEF ForceFull
  <2>4. full \in Frames
    BY <2>2
  <2> HIDE DEF full
  <2>5. TypeOK'
    BY <2>3, <2>4 DEF IInv, TypeOK, env, files
  <2>6. PhasesOK' /\ SettledCheckpoints'
    BY <2>3 DEF IInv, PhasesOK, SettledCheckpoints, files
  <2> QED BY <2>5, <2>6 DEF IInv
<1> QED BY <1>1, <1>2

(***************************************************************************)
(* A restart, after a crash or with other settings, finds no refresh       *)
(* under way and holds nothing but the files.                              *)
(***************************************************************************)
LEMMA RestartStep ==
  ASSUME IInv, Crash \/ Reconfigure
  PROVE  IInv'
<1>1. LoseMemory /\ UNCHANGED <<files, source, corrections, backfills>>
  BY DEF Crash, Reconfigure
<1>2. faults' \in 0 .. MaxFaults /\ engine' \in Engines
  BY ReplayAssumption DEF IInv, TypeOK, Crash, Reconfigure
<1>3. TypeOK'
  BY <1>1, <1>2 DEF IInv, TypeOK, LoseMemory, files
<1>4. PhasesOK'
  BY <1>1 DEF LoseMemory, PhasesOK
<1>5. SettledCheckpoints'
  BY <1>1 DEF IInv, SettledCheckpoints, LoseMemory, files
<1> QED BY <1>3, <1>4, <1>5 DEF IInv

(***************************************************************************)
(* A step that changes no variable keeps the invariant.                    *)
(***************************************************************************)
LEMMA StutterStep ==
  ASSUME IInv, UNCHANGED vars
  PROVE  IInv'
  BY DEF IInv, TypeOK, PhasesOK, SettledCheckpoints, vars

(***************************************************************************)
(* Every step of the specification keeps the invariant.                    *)
(***************************************************************************)
LEMMA NextIInv == IInv /\ [Next]_vars => IInv'
<1> SUFFICES ASSUME IInv, [Next]_vars PROVE IInv'
  OBVIOUS
<1>1. CASE Exchange
  BY <1>1, OutsideStep DEF Exchange
<1>2. CASE \E t \in Ts : Backfill(Day[t])
  BY <1>2, OutsideStep
<1>3. CASE Refresh
  BY <1>3, IngestStep, UnfiledStep, ReplayStep DEF Refresh
<1>4. CASE IngestFails \/ UpsertThenFails
  BY <1>4, IngestStep
<1>5. CASE ForceFull
  BY <1>5, UnfiledStep
<1>6. CASE Crash \/ Reconfigure
  BY <1>6, RestartStep
<1>7. CASE UNCHANGED vars
  BY <1>7, StutterStep
<1> QED
  BY <1>1, <1>2, <1>3, <1>4, <1>5, <1>6, <1>7 DEF Next

(***************************************************************************)
(* IInv is an invariant of the specification.                              *)
(***************************************************************************)
THEOREM Invariance == Spec => []IInv
<1> QED BY InitIInv, NextIInv, PTL DEF Spec

(***************************************************************************)
(* Every variable keeps its type: in particular every written checkpoint   *)
(* is dated by a minute of the timeline and every plan carries the mode it *)
(* ran in (run_true_incremental_replay).                                   *)
(***************************************************************************)
THEOREM TypeCorrect == Spec => []TypeOK
<1>1. IInv => TypeOK
  BY DEF IInv
<1> QED BY <1>1, Invariance, PTL

(***************************************************************************)
(* There is a mutation exactly while a replay runs and a plan exactly      *)
(* while it writes: nothing of an earlier refresh, a failed ingest or a    *)
(* crashed one is ever used by get_pair_replay.                            *)
(***************************************************************************)
THEOREM PhasesHold == Spec => []PhasesOK
<1>1. IInv => PhasesOK
  BY DEF IInv
<1> QED BY <1>1, Invariance, PTL

(***************************************************************************)
(* No periodic checkpoint ever holds a signal in flight, for every         *)
(* overlap, interval and engine, and after any                             *)
(* correction, backfill, crash or change of settings                       *)
(* (_should_emit_periodic_checkpoint): a resumed replay never refers to an *)
(* index of another run.                                                   *)
(***************************************************************************)
THEOREM CheckpointsSettled == Spec => []SettledCheckpoints
<1>1. IInv => SettledCheckpoints
  BY DEF IInv
<1> QED BY <1>1, Invariance, PTL

-----------------------------------------------------------------------------
(***************************************************************************)
(* A correction older than the overlap window.                             *)
(***************************************************************************)

(***************************************************************************)
(* What a plan holds (run_true_incremental_replay): without a tail what    *)
(* was resumed from, with one the run over it.                             *)
(***************************************************************************)
LEMMA PlanUnfolds ==
  ASSUME NEW m
  PROVE  /\ ReplayPlan(m).checkpoint.after = m.after
         /\ Tail(m) = {} =>
              /\ ReplayPlan(m).frame = BasePrefix(m)
              /\ ReplayPlan(m).checkpoint.last = ResumeTs(m)
              /\ ReplayPlan(m).checkpoint.state = ResumeState(m)
         /\ Tail(m) # {} =>
              /\ ReplayPlan(m).frame =
                   Extend(engine, BasePrefix(m), ResumeTs(m), Rows, ResumeState(m))
              /\ ReplayPlan(m).checkpoint.last = LastTs(Rows)
              /\ ReplayPlan(m).checkpoint.state = ReplayPlan(m).frame.trace[MaxTs]
<1> DEFINE empty == Tail(m) = {}
           frame == IF empty THEN BasePrefix(m)
                    ELSE Extend(engine, BasePrefix(m), ResumeTs(m), Rows, ResumeState(m))
           last  == IF empty THEN ResumeTs(m) ELSE LastTs(Rows)
           final == IF empty THEN ResumeState(m) ELSE frame.trace[MaxTs]
           emit  == ~ empty /\ ShouldEmit(last, final)
           check == [last |-> last, state |-> final, engine |-> engine,
                     after |-> m.after,
                     last_periodic |-> IF emit THEN last ELSE LastPeriodic]
<1>1. ReplayPlan(m) = [frame |-> frame, checkpoint |-> check, emit |-> emit,
                       mode |-> ResumeMode(m)]
  BY Zenon DEF ReplayPlan
<1>2. /\ empty => frame = BasePrefix(m) /\ last = ResumeTs(m) /\ final = ResumeState(m)
      /\ ~ empty =>
           /\ frame = Extend(engine, BasePrefix(m), ResumeTs(m), Rows, ResumeState(m))
           /\ last = LastTs(Rows)
           /\ final = frame.trace[MaxTs]
  OBVIOUS
<1> HIDE DEF frame, last, final, emit
<1>3. /\ ReplayPlan(m).frame = frame
      /\ ReplayPlan(m).checkpoint.last = last
      /\ ReplayPlan(m).checkpoint.state = final
      /\ ReplayPlan(m).checkpoint.after = m.after
  BY <1>1
<1> QED BY <1>2, <1>3

(***************************************************************************)
(* A replay that resumes from nothing is a replay of the whole store.      *)
(***************************************************************************)
LEMMA FullPlan ==
  ASSUME TypeOK, NEW m \in Mutations, HasRows(m), ResumeTs(m) = 0
  PROVE  Tail(m) # {} /\ IsReplayOf(ReplayPlan(m).frame, engine, Rows)
<1>1. ResumeMode(m) = "full"
  BY ResumeType
<1>2. BasePrefix(m) = EmptyFrame /\ ResumeState(m) = Start
  BY <1>1 DEF BasePrefix, ResumeState
<1>3. Tail(m) # {}
  BY <1>2 DEF HasRows, EmptyFrame, EmptySeries, Times
<1>4. ReplayPlan(m).frame = FullReplay(engine, Rows)
  BY <1>2, <1>3, PlanUnfolds DEF FullReplay
<1>5. engine \in Engines /\ Rows \in Series
  BY RowsType DEF TypeOK
<1> QED BY <1>3, <1>4, <1>5, FullIsReplay

(***************************************************************************)
(* What an ingest reports holds together: with no row changed before the   *)
(* old end there is no earliest one (upsert_minute_series).                *)
(***************************************************************************)
RetroReported ==
  mutation # NoMutation /\ mutation.append_only => mutation.earliest = 0

LEMMA InitRetro == Init => RetroReported
  BY DEF Init, RetroReported

LEMMA NextRetro ==
  ASSUME IInv, RetroReported, [Next]_vars
  PROVE  RetroReported'
<1>1. CASE mutation' = mutation
  BY <1>1 DEF RetroReported
<1>2. CASE mutation' = NoMutation
  BY <1>2 DEF RetroReported, IInv, TypeOK
<1>3. CASE \E wm : mutation' = NoChange(wm)
  BY <1>3 DEF RetroReported, NoChange, IInv, TypeOK
<1>4. CASE LoseMemory
  BY <1>4 DEF RetroReported, LoseMemory
<1>5. CASE IngestUpsert
  <2> DEFINE m == [changed     |-> ChangedTs(series, Incoming) # {},
                   append_only |-> RetroTs(series, Incoming) = {},
                   earliest    |-> EarliestRetro(series, Incoming),
                   after       |-> Watermark(Upsert(series, Incoming))]
  <2>1. mutation' = m
    BY <1>5, Zenon DEF IngestUpsert
  <2>2. m.append_only => m.earliest = 0
    BY DEF EarliestRetro
  <2> HIDE DEF m
  <2> QED BY <2>1, <2>2 DEF RetroReported, IInv, TypeOK
<1>6. ASSUME Replay
      PROVE  mutation' = mutation \/ mutation' = NoMutation
  BY <1>6 DEF Replay, NothingToReplay, Reuse, Compute, WriteOutput, WritePeriodic,
              WriteLatest, Finish
<1>7. CASE Exchange \/ (\E t \in Ts : Backfill(Day[t])) \/ ForceFull \/ SaveCursor
           \/ UNCHANGED vars
  BY <1>1, <1>7 DEF Exchange, SourceAppend, SourceCorrect, Backfill, ForceFull,
                    SaveCursor, memory, vars
<1>8. CASE ServeCached
  BY <1>2, <1>8 DEF ServeCached, Finish
<1>9. CASE IngestFails \/ UpsertThenFails
  BY <1>3, <1>9 DEF IngestFails, UpsertThenFails
<1>10. CASE Crash \/ Reconfigure
  BY <1>4, <1>10 DEF Crash, Reconfigure
<1> QED
  BY <1>1, <1>2, <1>5, <1>6, <1>7, <1>8, <1>9, <1>10 DEF Next, Refresh

(***************************************************************************)
(* Only Compute takes the refresh from reading to writing.                 *)
(***************************************************************************)
LEMMA OnlyComputeWrites ==
  ASSUME IInv, [Next]_vars, pc = "replay", pc' = "output"
  PROVE  Compute
<1>1. CASE Exchange \/ (\E t \in Ts : Backfill(Day[t])) \/ ForceFull \/ UNCHANGED vars
  BY <1>1 DEF Exchange, SourceAppend, SourceCorrect, Backfill, ForceFull,
              memory, vars
<1>2. CASE IngestUpsert \/ SaveCursor \/ IngestFails \/ UpsertThenFails
  BY <1>2 DEF IngestUpsert, SaveCursor, IngestFails, UpsertThenFails, IInv, TypeOK
<1>3. CASE Crash \/ Reconfigure
  BY <1>3 DEF Crash, Reconfigure, LoseMemory
<1>4. CASE ServeCached
  BY <1>4 DEF ServeCached, Finish, IInv, TypeOK
<1>5. ASSUME Replay PROVE Compute
  <2>1. CASE NothingToReplay \/ Reuse \/ WriteLatest
    BY <2>1 DEF NothingToReplay, Reuse, WriteLatest, Finish, IInv, TypeOK
  <2>2. CASE WriteOutput \/ WritePeriodic
    BY <2>2 DEF WriteOutput, WritePeriodic, IInv, TypeOK
  <2> QED BY <1>5, <2>1, <2>2 DEF Replay
<1> QED BY <1>1, <1>2, <1>3, <1>4, <1>5 DEF Next, Refresh

(***************************************************************************)
(* A correction older than the overlap window that reaches the replay is   *)
(* answered by a replay of the whole store from scratch                    *)
(* (run_true_incremental_replay): for every overlap and engine, after any  *)
(* correction, backfill, crash or change of settings.                      *)
(***************************************************************************)
THEOREM OldCorrectionsRebuild == Spec => OldCorrectionRebuilds
<1> DEFINE Inv == IInv /\ RetroReported
           Late == /\ pc = "replay"
                   /\ pc' = "output"
                   /\ latest # NoCheckpoint
                   /\ mutation.earliest # 0
                   /\ mutation.earliest < latest.last - Overlap
           Rebuilt == Late => IsReplayOf(plan'.frame, engine, Rows)
<1>1. Init => Inv
  BY InitIInv, InitRetro
<1>2. Inv /\ [Next]_vars => Inv'
  BY NextIInv, NextRetro
<1>3. Inv /\ [Next]_vars => Rebuilt
  <2> SUFFICES ASSUME IInv, RetroReported, [Next]_vars, Late
               PROVE  IsReplayOf(plan'.frame, engine, Rows)
    OBVIOUS
  <2>1. Compute
    BY OnlyComputeWrites
  <2>2. mutation \in Mutations /\ mutation # NoMutation /\ HasRows(mutation)
    BY <2>1, PhaseHolds, NoValueAssumption DEF Compute
  <2>3. ~ AppendOnly(mutation)
    BY <2>2 DEF RetroReported, AppendOnly
  <2>4. RetroOutsideOverlap(mutation)
    BY DEF RetroOutsideOverlap, ReplayStart
  <2>5. ResumeTs(mutation) = 0
    BY <2>3, <2>4 DEF ResumeTs
  <2>6. IsReplayOf(ReplayPlan(mutation).frame, engine, Rows)
    BY <2>2, <2>5, FullPlan DEF IInv
  <2>7. plan' = ReplayPlan(mutation)
    BY <2>1 DEF Compute, IInv, TypeOK
  <2> QED BY <2>6, <2>7
<1> QED BY <1>1, <1>2, <1>3, PTL DEF Spec, OldCorrectionRebuilds

-----------------------------------------------------------------------------
(***************************************************************************)
(* A store that is only appended to.  When the exchange corrects nothing,  *)
(* nothing rewrites the store and the settings stay, what is published and *)
(* kept on disk is exact.                                                  *)
(***************************************************************************)

\* An overlap reaches at most two days back, as a cold start does.
OverlapIsShort ==
  \A t \in Ts :
    IF t - Overlap < 1 THEN Day[t] <= 2 ELSE Day[t] - 2 <= Day[t - Overlap]

AppendOnlyStore ==
  /\ MaxCorrections = 0 /\ MaxBackfills = 0 /\ MaxReconfigurations = 0
  /\ OverlapIsShort

\* The store holds what the exchange has from day d on, up to its last row.
FetchedFrom(d) ==
  /\ \A t \in Ts : t <= LastTs(series) =>
       series[t] = IF Day[t] >= d THEN source[t] ELSE NoBar
  /\ cursor <= LastTs(series)
  /\ cursor # 0 => d <= Day[cursor] - 2
  /\ LastTs(series) # 0 => d <= Day[LastTs(series)] - 2

StoreInv == \E d \in Int : FetchedFrom(d)

LEMMA SourceLast ==
  ASSUME TypeOK, StoreInv
  PROVE  LastTs(series) <= LastTs(source)
<1>1. /\ MaxTs \in Nat /\ series \in Series /\ source \in Series
      /\ LastTs(series) \in 0 .. MaxTs /\ LastTs(source) \in 0 .. MaxTs
  BY LastTsFacts, SeriesAssumption DEF TypeOK
<1>2. LastTs(series) # 0 => LastTs(series) \in Times(source)
  BY <1>1, LastTsFacts DEF StoreInv, FetchedFrom, Times
<1>3. CASE LastTs(series) = 0
  BY <1>1, <1>3
<1>4. CASE LastTs(series) # 0
  BY <1>1, <1>2, <1>4, LastTsFacts
<1> QED BY <1>3, <1>4

(***************************************************************************)
(* What is fetched (_resolve_from_ts) adds every row after the last one    *)
(* and changes none.                                                       *)
(***************************************************************************)
LEMMA FetchAppends ==
  ASSUME AppendOnlyStore, TypeOK, StoreInv
  PROVE  /\ Upsert(series, Incoming) \in Series
         /\ Grows(series, Upsert(series, Incoming))
         /\ \E d \in Int :
              /\ \A t \in Ts : t <= LastTs(Upsert(series, Incoming)) =>
                   Upsert(series, Incoming)[t] = IF Day[t] >= d THEN source[t] ELSE NoBar
              /\ cursor # 0 => d <= Day[cursor] - 2
              /\ LastTs(series) # 0 => d <= Day[LastTs(series)] - 2
              /\ LastTs(Upsert(series, Incoming)) # 0 =>
                   d <= Day[LastTs(Upsert(series, Incoming))] - 2
<1> DEFINE w == Upsert(series, Incoming)
           D == FromDay(cursor, series, LastTs(source))
           L == LastTs(series)
           anchor == IF cursor # 0 THEN cursor ELSE L
<1>1. /\ MaxTs \in Nat /\ Overlap \in Nat /\ Overlap # 0
      /\ series \in Series /\ source \in Series /\ w \in Series
      /\ L \in 0 .. MaxTs /\ LastTs(source) \in 0 .. MaxTs /\ LastTs(w) \in 0 .. MaxTs
      /\ cursor \in 0 .. MaxTs
      /\ \A t \in Ts : t \in 1 .. MaxTs /\ Day[t] \in Nat
      /\ \A t \in 1 .. MaxTs : t \in Ts
  <2>1. series \in Series /\ source \in Series /\ cursor \in 0 .. MaxTs
    BY DEF TypeOK
  <2>2. w \in Series
    BY <2>1, SeriesTypes DEF Incoming
  <2> HIDE DEF w
  <2> QED BY <2>1, <2>2, LastTsFacts, SeriesAssumption DEF Ts
<1>2. PICK d \in Int : FetchedFrom(d)
  BY DEF StoreInv
<1>3. \A t \in Ts : w[t] = IF Day[t] >= D /\ source[t] # NoBar THEN source[t] ELSE series[t]
  BY DEF Upsert, Incoming, Fetch
<1> HIDE DEF w, D
<1>4. ASSUME anchor # 0
      PROVE  /\ anchor \in Ts /\ D \in Int /\ d <= D
             /\ \A t \in Ts : t >= L => Day[t] >= D
  <2>1. anchor \in Ts /\ anchor <= L
    BY <1>1, <1>2, <1>4 DEF FetchedFrom
  <2>2. d <= Day[anchor] - 2
    BY <1>2, <1>4 DEF FetchedFrom
  <2>3. \A t \in Ts : t >= L => Day[t] >= Day[anchor]
    BY <1>1, <2>1, SeriesAssumption
  <2>4. D = IF anchor - Overlap < 1 THEN 0 ELSE Day[anchor - Overlap]
    BY <1>4 DEF D, FromDay
  <2>5. IF anchor - Overlap < 1 THEN Day[anchor] <= 2
        ELSE Day[anchor] - 2 <= Day[anchor - Overlap]
    BY <2>1 DEF AppendOnlyStore, OverlapIsShort
  <2> HIDE DEF anchor
  <2>6. CASE anchor - Overlap < 1
    BY <1>1, <2>1, <2>2, <2>3, <2>4, <2>5, <2>6
  <2>7. CASE ~ (anchor - Overlap < 1)
    <3>1. anchor - Overlap \in Ts /\ anchor - Overlap <= anchor
      BY <1>1, <2>1, <2>7
    <3>2. Day[anchor - Overlap] <= Day[anchor] /\ Day[anchor - Overlap] \in Nat
      BY <1>1, <2>1, <3>1, SeriesAssumption
    <3> QED BY <1>1, <2>1, <2>2, <2>3, <2>4, <2>5, <2>7, <3>1, <3>2
  <2> QED BY <2>6, <2>7
<1>5. Grows(series, w)
  <2> SUFFICES ASSUME NEW t \in Ts, t <= L PROVE w[t] = series[t]
    BY DEF Grows
  <2>1. anchor # 0
    BY <1>1
  <2>2. Day[t] >= D => Day[t] >= d
    BY <1>1, <1>4, <2>1
  <2> QED BY <1>2, <1>3, <2>2 DEF FetchedFrom
<1>6. ASSUME NEW t \in Ts, L < t PROVE series[t] = NoBar
  BY <1>1, <1>6, AfterLast
<1>7. L <= LastTs(w)
  BY <1>1, <1>5, GrowsFacts
<1>8. CASE anchor # 0
  <2>1. ASSUME NEW t \in Ts PROVE t <= LastTs(w) => w[t] = IF Day[t] >= d THEN source[t] ELSE NoBar
    <3>1. CASE t <= L
      BY <1>2, <1>5, <3>1 DEF FetchedFrom, Grows
    <3>2. CASE ~ (t <= L)
      <4>1. series[t] = NoBar
        BY <1>1, <1>6, <3>2
      <4>2. Day[t] >= D /\ Day[t] >= d
        BY <1>1, <1>4, <1>8, <3>2
      <4> QED BY <1>3, <4>1, <4>2
    <3> QED BY <3>1, <3>2
  <2>2. LastTs(w) # 0 => d <= Day[LastTs(w)] - 2
    <3>1. L # 0
      BY <1>1, <1>4, <1>8, <1>2 DEF FetchedFrom
    <3>2. Day[L] <= Day[LastTs(w)]
      BY <1>1, <1>7, <3>1, SeriesAssumption
    <3> QED BY <1>1, <1>2, <3>1, <3>2 DEF FetchedFrom
  <2> QED BY <1>1, <1>2, <1>5, <2>1, <2>2 DEF FetchedFrom, w
<1>9. CASE anchor = 0
  <2>1. cursor = 0 /\ L = 0
    BY <1>9
  <2>2. D = IF LastTs(source) = 0 THEN 0 ELSE Day[LastTs(source)] - 2
    BY <1>9 DEF D, FromDay
  <2>3. D \in Int
    BY <1>1, <2>2
  <2>4. \A t \in Ts : w[t] = IF Day[t] >= D THEN source[t] ELSE NoBar
    BY <1>1, <1>3, <1>6, <2>1
  <2>5. LastTs(w) # 0 => D <= Day[LastTs(w)] - 2
    <3> SUFFICES ASSUME LastTs(w) # 0 PROVE D <= Day[LastTs(w)] - 2
      OBVIOUS
    <3>1. LastTs(w) \in Times(w) /\ LastTs(w) \in Ts
      BY <1>1, LastTsFacts
    <3>2. LastTs(w) \in Times(source)
      BY <2>4, <3>1 DEF Times
    <3>3. LastTs(source) # 0 /\ LastTs(source) \in Times(source) /\ LastTs(source) \in Ts
      BY <1>1, <3>2, LastTsFacts
    <3>4. Day[LastTs(source)] >= D
      BY <1>1, <2>2, <3>3
    <3>5. LastTs(source) \in Times(w)
      BY <2>4, <3>3, <3>4 DEF Times
    <3>6. LastTs(source) <= LastTs(w)
      BY <1>1, <3>5, LastTsFacts
    <3>7. Day[LastTs(source)] <= Day[LastTs(w)]
      BY <3>1, <3>3, <3>6, SeriesAssumption
    <3> QED BY <1>1, <2>2, <3>1, <3>3, <3>7
  <2> QED BY <1>1, <1>5, <2>1, <2>3, <2>4, <2>5 DEF w
<1> QED BY <1>8, <1>9
(***************************************************************************)
(* What an ingest puts into the store is what the exchange has.            *)
(***************************************************************************)
LEMMA IngestAppends ==
  ASSUME AppendOnlyStore, TypeOK, StoreInv, series' = Upsert(series, Incoming),
         source' = source, cursor' = cursor \/ cursor' = LastTs(series)
  PROVE  StoreInv' /\ series' \in Series /\ Grows(series, series')
<1> DEFINE w == Upsert(series, Incoming)
<1>1. w \in Series /\ Grows(series, w)
  BY FetchAppends
<1>2. PICK d \in Int :
        /\ \A t \in Ts : t <= LastTs(w) => w[t] = IF Day[t] >= d THEN source[t] ELSE NoBar
        /\ cursor # 0 => d <= Day[cursor] - 2
        /\ LastTs(series) # 0 => d <= Day[LastTs(series)] - 2
        /\ LastTs(w) # 0 => d <= Day[LastTs(w)] - 2
  BY FetchAppends
<1>3. /\ LastTs(series) \in 0 .. MaxTs /\ LastTs(w) \in 0 .. MaxTs /\ MaxTs \in Nat
      /\ LastTs(series) <= LastTs(w) /\ cursor <= LastTs(series) /\ cursor \in 0 .. MaxTs
  BY <1>1, GrowsFacts, LastTsFacts, SeriesAssumption
     DEF TypeOK, StoreInv, FetchedFrom
<1>4. series' = w
  OBVIOUS
<1> HIDE DEF w
<1>5. FetchedFrom(d)'
  <2>1. (cursor <= LastTs(series))'
    BY <1>3, <1>4
  <2>2. (cursor # 0 => d <= Day[cursor] - 2)'
    BY <1>2, <1>4
  <2> QED BY <1>2, <1>4, <2>1, <2>2 DEF FetchedFrom
<1> QED BY <1>1, <1>4, <1>5 DEF StoreInv

(***************************************************************************)
(* A minute printed after the last one changes nothing of what the store   *)
(* holds.                                                                  *)
(***************************************************************************)
LEMMA AppendKeepsStore ==
  ASSUME TypeOK, StoreInv, NEW t \in Ts, NEW bar \in Bars, SourceAppend(t, bar)
  PROVE  StoreInv'
<1>1. LastTs(series) <= LastTs(source) /\ LastTs(series) \in 0 .. MaxTs
      /\ LastTs(source) \in 0 .. MaxTs
  BY SourceLast, LastTsFacts DEF TypeOK
<1>2. PICK d \in Int : FetchedFrom(d)
  BY DEF StoreInv
<1>3. UNCHANGED <<series, cursor>> /\ source' = [source EXCEPT ![t] = bar]
      /\ t > LastTs(source)
  BY DEF SourceAppend, files
<1>4. \A u \in Ts : u <= LastTs(series) => source'[u] = source[u]
  BY <1>1, <1>3, SeriesAssumption DEF TypeOK, Series, Ts
<1>5. FetchedFrom(d)'
  BY <1>2, <1>3, <1>4 DEF FetchedFrom
<1> QED BY <1>5 DEF StoreInv

(***************************************************************************)
(* Every step leaves the settings alone and the store an extension of what *)
(* it was.                                                                 *)
(***************************************************************************)
LEMMA StoreStep ==
  ASSUME AppendOnlyStore, IInv, StoreInv, [Next]_vars
  PROVE  /\ StoreInv'
         /\ engine' = engine
         /\ Grows(series, series')
<1>1. ASSUME UNCHANGED <<series, source, engine>>, cursor' = cursor \/ cursor' = LastTs(series)
      PROVE  StoreInv' /\ engine' = engine /\ Grows(series, series')
  <2>1. PICK d \in Int : FetchedFrom(d)
    BY DEF StoreInv
  <2>2. FetchedFrom(d)'
    BY <1>1, <2>1, LastTsFacts DEF FetchedFrom, IInv, TypeOK
  <2>3. Grows(series, series')
    BY <1>1, GrowsSelf DEF IInv, TypeOK
  <2> QED BY <1>1, <2>2, <2>3 DEF StoreInv
<1>2. CASE Exchange
  <2>1. PICK t \in Ts, bar \in Bars : SourceAppend(t, bar) \/ SourceCorrect(t, bar)
    BY <1>2 DEF Exchange
  <2>2. ~ SourceCorrect(t, bar)
    BY DEF SourceCorrect, AppendOnlyStore, IInv, TypeOK
  <2>3. SourceAppend(t, bar)
    BY <2>1, <2>2
  <2>4. UNCHANGED <<series, engine>>
    BY <2>3 DEF SourceAppend, files
  <2> QED BY <2>3, <2>4, AppendKeepsStore, GrowsSelf DEF IInv, TypeOK
<1>3. CASE \E t \in Ts : Backfill(Day[t])
  BY <1>3 DEF Backfill, AppendOnlyStore, IInv, TypeOK
<1>4. CASE IngestUpsert \/ UpsertThenFails
  <2>1. series' = Upsert(series, Incoming) /\ source' = source /\ engine' = engine
        /\ (cursor' = cursor \/ cursor' = LastTs(series))
    BY <1>4 DEF IngestUpsert, UpsertThenFails, env
  <2> QED BY <2>1, IngestAppends DEF IInv
<1>5. CASE SaveCursor \/ IngestFails
  BY <1>1, <1>5 DEF SaveCursor, IngestFails, env
<1>6. CASE ServeCached \/ ForceFull \/ Crash \/ UNCHANGED vars
  BY <1>1, <1>6 DEF ServeCached, ForceFull, Crash, vars, env, files
<1>7. CASE Reconfigure
  BY <1>7, ReplayAssumption DEF Reconfigure, AppendOnlyStore, IInv, TypeOK
<1>8. CASE Replay
  BY <1>1, <1>8 DEF Replay, NothingToReplay, Reuse, Compute, WriteOutput,
                    WritePeriodic, WriteLatest, env, files
<1> QED BY <1>2, <1>3, <1>4, <1>5, <1>6, <1>7, <1>8 DEF Next, Refresh

(***************************************************************************)
(* Every checkpoint, on disk or about to be written, is a state of the     *)
(* replay of the store from scratch, and of a minute the cutoff will not   *)
(* take back: later rows do not change the states up to it (RunGrows).     *)
(***************************************************************************)
RunInv ==
  /\ latest # NoCheckpoint => OnRun(engine, Rows, latest.last, latest.state)
  /\ \A k \in Ts : periodic[k] # NoState => OnRun(engine, Rows, k, periodic[k])
  /\ plan # NoPlan => OnRun(engine, Rows, plan.checkpoint.last, plan.checkpoint.state)

LEMMA OnRunStays ==
  ASSUME TypeOK, TypeOK', engine' = engine, Grows(series, series'),
         NEW k \in Ts, NEW st, OnRun(engine, Rows, k, st)
  PROVE  OnRun(engine', Rows', k, st)
<1>1. Rows \in Series /\ Rows' \in Series /\ engine \in Engines
  BY SeriesTypes DEF TypeOK, Rows
<1>2. Grows(Rows, Rows')
  BY EligibleGrows DEF TypeOK, Rows
<1>3. k \in 0 .. MaxTs
  BY SeriesAssumption DEF Ts
<1> QED BY <1>1, <1>2, <1>3, OnRunGrows

(***************************************************************************)
(* What is resumed from is a checkpoint, so the plan's checkpoint is on    *)
(* the run as well, whatever the rows of the output file are.              *)
(***************************************************************************)
LEMMA PlanOnRun ==
  ASSUME TypeOK, RunInv, NEW m \in Mutations, HasRows(m)
  PROVE  OnRun(engine, Rows, ReplayPlan(m).checkpoint.last, ReplayPlan(m).checkpoint.state)
<1> DEFINE k  == ResumeTs(m)
           st == ResumeState(m)
           C  == CheckpointsUpto(ReplayStart)
<1>1. /\ MaxTs \in Nat /\ MaxTs \in 0 .. MaxTs /\ engine \in Engines /\ Rows \in Series
      /\ k \in 0 .. MaxTs /\ st \in States /\ BasePrefix(m) \in Frames
      /\ LastTs(Rows) \in 0 .. MaxTs
  BY SeriesAssumption, RowsType, ResumeType DEF TypeOK
<1>2. OnRun(engine, Rows, k, st)
  <2>1. CASE k = 0
    <3>1. st = Start
      BY <2>1 DEF ResumeState, ResumeMode
    <3>2. RunOf(engine, Rows)[0] = Start
      BY <1>1, RunOfUnfolds
    <3> QED BY <1>1, <2>1, <3>1, <3>2 DEF OnRun
  <2>2. CASE k # 0 /\ AppendOnly(m)
    <3>1. latest # NoCheckpoint /\ k = latest.last
      BY <2>2 DEF ResumeTs
    <3>2. st = latest.state
      BY <2>2 DEF ResumeState, ResumeMode
    <3> QED BY <3>1, <3>2 DEF RunInv
  <2>3. CASE k # 0 /\ ~ AppendOnly(m)
    <3>1. k = Max(C) /\ C # {}
      BY <2>3, Zenon DEF ResumeTs
    <3>2. C \in SUBSET (0 .. MaxTs)
      BY <1>1 DEF CheckpointsUpto, Ts
    <3>3. k \in C
      <4> HIDE DEF C, k
      <4> QED BY <1>1, <3>1, <3>2, MaxOfBounded
    <3>4. k \in Ts /\ periodic[k] # NoState
      BY <3>3 DEF CheckpointsUpto
    <3>5. st = periodic[k]
      BY <2>3 DEF ResumeState, ResumeMode
    <3> HIDE DEF k, st
    <3> QED BY <3>4, <3>5 DEF RunInv
  <2> QED BY <2>1, <2>2, <2>3
<1>3. CASE Tail(m) = {}
  BY <1>2, <1>3, PlanUnfolds
<1>4. CASE Tail(m) # {}
  <2>1. k < LastTs(Rows)
    <3>1. PICK t \in Times(Rows) : t > k
      BY <1>4 DEF Tail
    <3>2. t <= LastTs(Rows) /\ t \in Ts
      BY <1>1, <3>1, LastTsFacts DEF Times
    <3> HIDE DEF k
    <3> QED BY <1>1, <3>1, <3>2 DEF Ts
  <2>2. Grows(Rows, Rows)
    BY <1>1, GrowsSelf
  <2>3. /\ ReplayPlan(m).checkpoint.last = LastTs(Rows)
        /\ ReplayPlan(m).checkpoint.state =
             Extend(engine, BasePrefix(m), k, Rows, st).trace[MaxTs]
    BY <1>4, PlanUnfolds
  <2> HIDE DEF k, st
  <2> QED BY <1>1, <1>2, <2>1, <2>2, <2>3, ExtendOnRun
<1> QED BY <1>3, <1>4
StoreIInv == IInv /\ StoreInv /\ RunInv

LEMMA InitStoreIInv == ASSUME Init PROVE StoreIInv
<1>1. IInv
  BY InitIInv
<1>2. StoreInv
  <2>1. \A t \in Ts : EmptySeries[t] = NoBar
    BY DEF EmptySeries
  <2>2. Times(EmptySeries) = {}
    BY <2>1 DEF Times
  <2>3. LastTs(EmptySeries) = 0
    BY <2>2 DEF LastTs
  <2>4. FetchedFrom(0)
    BY <2>1, <2>3 DEF FetchedFrom, Init
  <2> QED BY <2>4 DEF StoreInv
<1>3. RunInv
  BY DEF Init, RunInv
<1> QED BY <1>1, <1>2, <1>3 DEF StoreIInv

(***************************************************************************)
(* Every checkpoint that is there after a step was there before it, or was *)
(* computed by it.                                                         *)
(***************************************************************************)
LEMMA CheckpointsCome ==
  ASSUME IInv, [Next]_vars
  PROVE  /\ \/ latest' = latest
            \/ plan # NoPlan /\ latest' = plan.checkpoint
         /\ \/ periodic' = periodic
            \/ /\ plan # NoPlan
               /\ periodic' = [periodic EXCEPT ![plan.checkpoint.last] =
                                 plan.checkpoint.state]
         /\ \/ plan' = NoPlan
            \/ plan' = plan
            \/ Compute /\ plan' = ReplayPlan(mutation)
<1>1. CASE UNCHANGED <<latest, periodic, plan>>
  BY <1>1
<1>2. CASE LoseMemory /\ UNCHANGED <<latest, periodic>>
  BY <1>2 DEF LoseMemory
<1>3. CASE Exchange \/ (\E t \in Ts : Backfill(Day[t])) \/ ForceFull
           \/ UNCHANGED vars
  BY <1>1, <1>3 DEF Exchange, SourceAppend, SourceCorrect, Backfill, ForceFull,
                    memory, files, vars
<1>4. CASE IngestUpsert \/ SaveCursor \/ IngestFails \/ UpsertThenFails
  BY <1>1, <1>4 DEF IngestUpsert, SaveCursor, IngestFails, UpsertThenFails
<1>5. CASE Crash \/ Reconfigure
  BY <1>2, <1>5 DEF Crash, Reconfigure, files
<1>6. CASE ServeCached
  BY <1>6 DEF ServeCached, Finish, files, IInv, TypeOK
<1>7. ASSUME Replay
      PROVE  /\ \/ latest' = latest
                \/ plan # NoPlan /\ latest' = plan.checkpoint
             /\ \/ periodic' = periodic
                \/ /\ plan # NoPlan
                   /\ periodic' = [periodic EXCEPT ![plan.checkpoint.last] =
                                     plan.checkpoint.state]
             /\ \/ plan' = NoPlan
                \/ plan' = plan
                \/ Compute /\ plan' = ReplayPlan(mutation)
  <2>1. CASE NothingToReplay \/ WriteOutput
    BY <2>1 DEF NothingToReplay, WriteOutput, files
  <2>2. CASE Reuse
    BY <2>2 DEF Reuse, Finish, files, IInv, TypeOK
  <2>3. CASE WritePeriodic
    <3>1. plan # NoPlan
      BY <2>3 DEF WritePeriodic, IInv, PhasesOK
    <3> QED BY <2>3, <3>1 DEF WritePeriodic
  <2>4. CASE WriteLatest
    <3>1. plan # NoPlan
      BY <2>4 DEF WriteLatest, IInv, PhasesOK
    <3>2. latest' = plan.checkpoint /\ periodic' = periodic
          /\ plan' = NoPlan
      BY <2>4 DEF WriteLatest, Finish
    <3> QED BY <3>1, <3>2 DEF IInv, TypeOK
  <2>5. CASE Compute
    <3>1. plan' = ReplayPlan(mutation)
          /\ latest' = latest /\ periodic' = periodic
      BY <2>5 DEF Compute, files
    <3> QED BY <2>5, <3>1 DEF IInv, TypeOK
  <2> QED BY <1>7, <2>1, <2>2, <2>3, <2>4, <2>5 DEF Replay
<1>8. CASE Replay
  BY <1>7, <1>8
<1> QED BY <1>3, <1>4, <1>5, <1>6, <1>8 DEF Next, Refresh

LEMMA NextRunInv ==
  ASSUME AppendOnlyStore, StoreIInv, [Next]_vars
  PROVE  StoreIInv'
<1>1. IInv /\ StoreInv /\ RunInv /\ IInv' /\ TypeOK /\ TypeOK'
  BY NextIInv DEF StoreIInv, IInv
<1>2. StoreInv' /\ engine' = engine /\ Grows(series, series')
  BY <1>1, StoreStep
<1>3. \A k \in Ts : \A st : OnRun(engine, Rows, k, st) => OnRun(engine', Rows', k, st)
  BY <1>1, <1>2, OnRunStays
<1>4. ASSUME plan # NoPlan
      PROVE  /\ plan.checkpoint.last \in Ts
             /\ OnRun(engine, Rows, plan.checkpoint.last, plan.checkpoint.state)
  BY <1>1, <1>4 DEF RunInv, TypeOK, Plans, Checkpoints
<1>5. latest' # NoCheckpoint => OnRun(engine', Rows', latest'.last, latest'.state)
  <2>1. CASE latest' = latest
    BY <1>1, <1>3, <2>1 DEF RunInv, TypeOK, Checkpoints
  <2>2. CASE plan # NoPlan /\ latest' = plan.checkpoint
    BY <1>3, <1>4, <2>2
  <2> QED BY <1>1, <2>1, <2>2, CheckpointsCome
<1>6. \A k \in Ts : periodic'[k] # NoState => OnRun(engine', Rows', k, periodic'[k])
  <2> SUFFICES ASSUME NEW k \in Ts, periodic'[k] # NoState
               PROVE  OnRun(engine', Rows', k, periodic'[k])
    OBVIOUS
  <2>1. CASE periodic' = periodic
    BY <1>1, <1>3, <2>1 DEF RunInv
  <2>2. ASSUME plan # NoPlan,
               periodic' = [periodic EXCEPT ![plan.checkpoint.last] =
                              plan.checkpoint.state]
        PROVE  OnRun(engine', Rows', k, periodic'[k])
    <3>1. \/ k = plan.checkpoint.last /\ periodic'[k] = plan.checkpoint.state
          \/ periodic'[k] = periodic[k]
      BY <1>1, <2>2 DEF TypeOK
    <3>2. OnRun(engine, Rows, k, periodic'[k])
      BY <1>1, <1>4, <2>2, <3>1 DEF RunInv
    <3> QED BY <1>3, <3>2
  <2> QED BY <1>1, <2>1, <2>2, CheckpointsCome
<1>7. ASSUME plan' # NoPlan
      PROVE  OnRun(engine', Rows', plan'.checkpoint.last, plan'.checkpoint.state)
  <2>1. CASE plan' = plan
    BY <1>3, <1>4, <1>7, <2>1
  <2>2. CASE Compute /\ plan' = ReplayPlan(mutation)
    <3>1. mutation \in Mutations /\ HasRows(mutation)
      BY <1>1, <2>2, PhaseHolds DEF Compute, Misses
    <3>2. OnRun(engine, Rows, plan'.checkpoint.last, plan'.checkpoint.state)
      BY <1>1, <2>2, <3>1, PlanOnRun
    <3>3. plan'.checkpoint.last \in Ts
      BY <1>1, <1>7 DEF TypeOK, Plans, Checkpoints
    <3> QED BY <1>3, <3>2, <3>3
  <2> QED BY <1>1, <1>7, <2>1, <2>2, CheckpointsCome
<1>8. RunInv'
  BY <1>5, <1>6, <1>7 DEF RunInv
<1> QED BY <1>1, <1>2, <1>8 DEF StoreIInv

(***************************************************************************)
(* StoreIInv is an invariant while the store only grows.                   *)
(***************************************************************************)
THEOREM StoreInvariance == ASSUME AppendOnlyStore PROVE Spec => []StoreIInv
<1>1. Init => StoreIInv
  BY InitStoreIInv
<1>2. StoreIInv /\ [Next]_vars => StoreIInv'
  BY NextRunInv
<1> QED BY <1>1, <1>2, PTL DEF Spec

-----------------------------------------------------------------------------
(***************************************************************************)
(* While the store only grows the output file is a replay of the store     *)
(* too, and so is what is published.                                       *)
(***************************************************************************)

\* The files are those of a refresh that saw the store s.
FilesAt(s) ==
  /\ Grows(s, series)
  /\ IsReplayOf(output, engine, Eligible(s))
  /\ latest # NoCheckpoint =>
       /\ latest.last <= LastTs(Eligible(s))
       /\ \E a \in Series : Grows(a, s) /\ latest.after = Watermark(a)
  /\ \A k \in Ts : periodic[k] # NoState => k <= LastTs(Eligible(s))

\* What is published is the replay of the store v, and the mutation of a
\* refresh under way was made no earlier.
ServedAt(v) ==
  /\ Grows(v, series)
  /\ served # NoFrame => IsReplayOf(served, engine, Eligible(v))
  /\ cache # NoFrame =>
       /\ served # NoFrame
       /\ cache.frame = served
       /\ \/ cache.after = NoWatermark
          \/ \E a \in Series : Grows(a, v) /\ cache.after = Watermark(a)
  /\ mutation # NoMutation =>
       \E a \in Series :
         Grows(v, a) /\ Grows(a, series) /\ mutation.after = Watermark(a)

\* What a refresh is about to write is the replay of the whole store.
PlansFit ==
  plan # NoPlan =>
    /\ IsReplayOf(plan.frame, engine, Rows)
    /\ plan.checkpoint.last = LastTs(Rows)
    /\ plan.checkpoint.after = mutation.after
    /\ pc \in {"periodic", "latest"} => output = plan.frame

FilesFit  == \E s \in Series : FilesAt(s)
ServedFit == \E v \in Series : ServedAt(v)

AppendInv == StoreIInv /\ FilesFit /\ ServedFit /\ PlansFit

(***************************************************************************)
(* Files that are those of a store have the states of its replay in the    *)
(* checkpoints and in the output file alike.                               *)
(***************************************************************************)
LEMMA OutputHasState ==
  ASSUME StoreIInv, NEW s \in Series, FilesAt(s),
         NEW k \in Ts, k <= LastTs(Eligible(s)), NEW st, OnRun(engine, Rows, k, st)
  PROVE  AgreesWithOutput(k, st)
<1>1. /\ Eligible(s) \in Series /\ Rows \in Series /\ engine \in Engines
      /\ output \in Frames /\ Grows(Eligible(s), Rows)
  BY SeriesTypes, EligibleGrows DEF StoreIInv, IInv, TypeOK, Rows, FilesAt
<1>2. /\ MaxTs \in Nat /\ k \in 0 .. MaxTs
      /\ LastTs(Eligible(s)) \in 0 .. MaxTs /\ k \in 0 .. LastTs(Eligible(s))
  BY <1>1, LastTsFacts, SeriesAssumption DEF Ts
<1>3. output.trace[k] = RunOf(engine, Eligible(s))[k]
  BY <1>1, <1>2, ReplayIsRun DEF FilesAt
<1>4. RunOf(engine, Rows)[k] = RunOf(engine, Eligible(s))[k]
  BY <1>1, <1>2, RunGrows
<1> QED BY <1>3, <1>4 DEF OnRun, AgreesWithOutput, FilesAt, IsReplayOf

LEMMA CheckpointsOnOutput ==
  ASSUME StoreIInv, FilesFit
  PROVE  CheckpointsAgree
<1>1. PICK s \in Series : FilesAt(s)
  BY DEF FilesFit
<1>2. ASSUME latest # NoCheckpoint PROVE AgreesWithOutput(latest.last, latest.state)
  <2>1. latest.last \in Ts /\ latest.last <= LastTs(Eligible(s))
    BY <1>1, <1>2 DEF FilesAt, StoreIInv, IInv, TypeOK, Checkpoints
  <2>2. OnRun(engine, Rows, latest.last, latest.state)
    BY <1>2 DEF StoreIInv, RunInv
  <2> QED BY <1>1, <2>1, <2>2, OutputHasState
<1>3. ASSUME NEW k \in Ts, periodic[k] # NoState PROVE AgreesWithOutput(k, periodic[k])
  <2>1. OnRun(engine, Rows, k, periodic[k]) /\ k <= LastTs(Eligible(s))
    BY <1>1, <1>3 DEF StoreIInv, RunInv, FilesAt
  <2> QED BY <1>1, <2>1, OutputHasState
<1> QED BY <1>2, <1>3 DEF CheckpointsAgree

(***************************************************************************)
(* What a replay resumes from, when it does: a checkpoint without a signal *)
(* in flight and the rows of the output file up to its minute.             *)
(***************************************************************************)
LEMMA ResumesOnOutput ==
  ASSUME StoreIInv, NEW s \in Series, FilesAt(s), NEW m \in Mutations,
         ResumeTs(m) # 0
  PROVE  /\ ResumeTs(m) \in Ts
         /\ ResumeTs(m) <= LastTs(Eligible(s))
         /\ ResumeState(m) = output.trace[ResumeTs(m)]
         /\ SignalTs(ResumeState(m)) = 0
         /\ BasePrefix(m) = Prefix(output, ResumeTs(m))
<1> DEFINE k == ResumeTs(m)
           C == CheckpointsUpto(ReplayStart)
<1>1. TypeOK /\ SettledCheckpoints /\ RunInv /\ MaxTs \in Nat
  BY SeriesAssumption DEF StoreIInv, IInv
<1>2. BasePrefix(m) = Prefix(output, k)
  BY DEF BasePrefix, ResumeMode
<1>3. CASE AppendOnly(m)
  <2>1. latest # NoCheckpoint /\ k = latest.last
    BY <1>3 DEF ResumeTs
  <2>2. ResumeState(m) = latest.state
    BY <1>3 DEF ResumeState, ResumeMode
  <2>3. latest.last \in Ts /\ latest.last <= LastTs(Eligible(s))
    BY <1>1, <2>1 DEF FilesAt, TypeOK, Checkpoints
  <2>4. OnRun(engine, Rows, latest.last, latest.state)
    BY <1>1, <2>1 DEF RunInv
  <2>5. AgreesWithOutput(latest.last, latest.state)
    BY <2>3, <2>4, OutputHasState
  <2>6. SignalTs(latest.state) = 0
    BY <1>3 DEF AppendOnly, HasPendingSignal
  <2> QED BY <1>2, <2>1, <2>2, <2>3, <2>5, <2>6 DEF AgreesWithOutput
<1>4. CASE ~ AppendOnly(m)
  <2>1. k = Max(C) /\ C # {}
    BY <1>4, Zenon DEF ResumeTs
  <2>2. C \in SUBSET (0 .. MaxTs)
    BY <1>1 DEF CheckpointsUpto, Ts
  <2>3. k \in C
    <3> HIDE DEF C, k
    <3> QED BY <1>1, <2>1, <2>2, MaxOfBounded
  <2>4. k \in Ts /\ periodic[k] # NoState
    BY <2>3 DEF CheckpointsUpto
  <2>5. ResumeState(m) = periodic[k]
    BY <1>4 DEF ResumeState, ResumeMode
  <2> HIDE DEF k
  <2>6. k <= LastTs(Eligible(s)) /\ OnRun(engine, Rows, k, periodic[k])
    BY <1>1, <2>4 DEF FilesAt, RunInv
  <2>7. AgreesWithOutput(k, periodic[k])
    BY <2>4, <2>6, OutputHasState
  <2>8. SignalTs(periodic[k]) = 0
    BY <1>1, <2>4 DEF SettledCheckpoints, HasPendingSignal
  <2> QED BY <1>2, <2>4, <2>5, <2>6, <2>7, <2>8 DEF AgreesWithOutput, k
<1> QED BY <1>3, <1>4

(***************************************************************************)
(* The replay computed over such files is the replay from scratch of the   *)
(* whole store, and its checkpoint that of the last row.                   *)
(***************************************************************************)
LEMMA PlanIsReplay ==
  ASSUME StoreIInv, NEW s \in Series, FilesAt(s), NEW m \in Mutations, HasRows(m)
  PROVE  /\ IsReplayOf(ReplayPlan(m).frame, engine, Rows)
         /\ ReplayPlan(m).checkpoint.last = LastTs(Rows)
<1>1. /\ TypeOK /\ MaxTs \in Nat /\ engine \in Engines
      /\ Rows \in Series /\ Eligible(s) \in Series /\ output \in Frames
      /\ Grows(Eligible(s), Rows) /\ IsReplayOf(output, engine, Eligible(s))
  BY SeriesTypes, EligibleGrows, SeriesAssumption
     DEF StoreIInv, IInv, TypeOK, Rows, FilesAt
<1>2. /\ LastTs(Rows) \in 0 .. MaxTs /\ LastTs(Eligible(s)) \in 0 .. MaxTs
      /\ LastTs(Eligible(s)) <= LastTs(Rows)
  BY <1>1, LastTsFacts, GrowsFacts
<1>3. CASE ResumeTs(m) = 0
  BY <1>1, <1>3, FullPlan, PlanUnfolds
<1>4. CASE ResumeTs(m) # 0
  <2> DEFINE k  == ResumeTs(m)
             st == ResumeState(m)
  <2>1. /\ k \in Ts /\ k <= LastTs(Eligible(s)) /\ st = output.trace[k]
        /\ SignalTs(st) = 0 /\ BasePrefix(m) = Prefix(output, k)
    BY <1>4, ResumesOnOutput
  <2>2. k \in 0 .. MaxTs /\ st \in States
    BY <1>1, ResumeType
  <2>3. Tail(m) = {t \in Times(Rows) : t > k}
    BY DEF Tail
  <2> HIDE DEF k, st
  <2>4. \A t \in Ts : t <= k => Eligible(s)[t] = Rows[t]
    BY <1>1, <1>2, <2>1 DEF Grows, Ts
  <2>5. CASE Tail(m) # {}
    <3>1. /\ ReplayPlan(m).frame = Extend(engine, Prefix(output, k), k, Rows, st)
          /\ ReplayPlan(m).checkpoint.last = LastTs(Rows)
      BY <2>1, <2>5, PlanUnfolds DEF k, st
    <3>2. IsReplayOf(Extend(engine, Prefix(output, k), k, Rows, st), engine, Rows)
      BY <1>1, <2>1, <2>2, <2>4, ResumedIsReplay
    <3> QED BY <3>1, <3>2
  <2>6. CASE Tail(m) = {}
    <3>1. ReplayPlan(m).frame = Prefix(output, k) /\ ReplayPlan(m).checkpoint.last = k
      BY <2>1, <2>6, PlanUnfolds DEF k
    <3>2. \A t \in Ts : t > k => Rows[t] = NoBar
      BY <2>3, <2>6 DEF Times
    <3>3. \A t \in Ts : Rows[t] = IF t <= k THEN Eligible(s)[t] ELSE NoBar
      BY <2>1, <2>4, <3>2 DEF Ts
    <3>4. SignalTs(output.trace[k]) = 0
      BY <2>1
    <3>5. IsReplayOf(Prefix(output, k), engine, Rows)
      BY <1>1, <2>2, <3>3, <3>4, PrefixIsReplay
    <3>6. LastTs(Rows) = k
      <4>1. LastTs(Rows) >= k /\ LastTs(Rows) # 0
        BY <1>2, <2>1 DEF Ts
      <4>2. LastTs(Rows) \in Times(Rows)
        BY <1>1, <4>1, LastTsFacts
      <4>3. ~ (LastTs(Rows) > k)
        BY <2>3, <2>6, <4>2
      <4> QED BY <1>2, <2>2, <4>1, <4>3
    <3> QED BY <3>1, <3>5, <3>6
  <2> QED BY <2>5, <2>6
<1> QED BY <1>3, <1>4
(***************************************************************************)
(* The steps there are without corrections and backfills.                  *)
(***************************************************************************)
Still == UNCHANGED <<series, output, latest, periodic, pc, mutation, plan, cache,
                     served, engine>>

LEMMA AloneSteps ==
  ASSUME AppendOnlyStore, IInv, [Next]_vars
  PROVE  \/ Still
         \/ IngestUpsert \/ IngestFails \/ UpsertThenFails \/ SaveCursor
         \/ ServeCached \/ ForceFull \/ Crash
         \/ Replay
<1>1. CASE Exchange
  <2>1. PICK t \in Ts, bar \in Bars : SourceAppend(t, bar) \/ SourceCorrect(t, bar)
    BY <1>1 DEF Exchange
  <2> QED BY <2>1 DEF SourceAppend, SourceCorrect, Still, files, memory
<1>2. CASE \E t \in Ts : Backfill(Day[t])
  BY <1>2 DEF Backfill, AppendOnlyStore, IInv, TypeOK
<1>3. CASE Reconfigure
  BY <1>3, ReplayAssumption DEF Reconfigure, AppendOnlyStore, IInv, TypeOK
<1>4. CASE UNCHANGED vars
  BY <1>4 DEF vars, Still
<1> QED BY <1>1, <1>2, <1>3, <1>4 DEF Next, Refresh

LEMMA FilesStay ==
  ASSUME NEW s \in Series, FilesAt(s), series \in Series, series' \in Series,
         Grows(series, series'), UNCHANGED <<output, latest, periodic, engine>>
  PROVE  FilesAt(s)'
<1>1. Grows(s, series')
  BY GrowsTransitive DEF FilesAt
<1> QED BY <1>1 DEF FilesAt

(***************************************************************************)
(* Once the output file is the replay of the whole store, the files are    *)
(* those of the store as it is.                                            *)
(***************************************************************************)
LEMMA FilesNow ==
  ASSUME TypeOK, FilesFit, UNCHANGED <<series, engine>>,
         IsReplayOf(output', engine, Rows),
         \/ latest' = latest
         \/ /\ latest'.last <= LastTs(Rows)
            /\ \E a \in Series : Grows(a, series) /\ latest'.after = Watermark(a),
         \A k \in Ts : periodic'[k] # NoState =>
           periodic[k] # NoState \/ k <= LastTs(Rows)
  PROVE  FilesFit'
<1>1. PICK s \in Series : FilesAt(s)
  BY DEF FilesFit
<1>2. /\ series \in Series /\ Eligible(s) \in Series /\ Rows \in Series
      /\ Grows(s, series) /\ Grows(Eligible(s), Rows) /\ Grows(series, series)
  BY <1>1, SeriesTypes, EligibleGrows, GrowsSelf DEF TypeOK, Rows, FilesAt
<1>3. /\ LastTs(Eligible(s)) <= LastTs(Rows)
      /\ LastTs(Eligible(s)) \in 0 .. MaxTs /\ LastTs(Rows) \in 0 .. MaxTs
      /\ MaxTs \in Nat
  BY <1>2, GrowsFacts, LastTsFacts, SeriesAssumption
<1>4. latest' # NoCheckpoint =>
        /\ latest'.last <= LastTs(Rows)
        /\ \E a \in Series : Grows(a, series) /\ latest'.after = Watermark(a)
  <2>1. CASE latest' = latest
    <3> SUFFICES ASSUME latest # NoCheckpoint
                 PROVE  /\ latest.last <= LastTs(Rows)
                        /\ \E a \in Series : Grows(a, series) /\ latest.after = Watermark(a)
      BY <2>1
    <3>1. latest.last <= LastTs(Eligible(s)) /\ latest.last \in Ts
      BY <1>1 DEF FilesAt, TypeOK, Checkpoints
    <3>2. PICK a \in Series : Grows(a, s) /\ latest.after = Watermark(a)
      BY <1>1 DEF FilesAt
    <3>3. Grows(a, series)
      BY <1>2, <3>2, GrowsTransitive
    <3> QED BY <1>3, <3>1, <3>2, <3>3 DEF Ts
  <2> QED BY <2>1
<1>5. \A k \in Ts : periodic'[k] # NoState => k <= LastTs(Rows)
  <2> SUFFICES ASSUME NEW k \in Ts, periodic'[k] # NoState PROVE k <= LastTs(Rows)
    OBVIOUS
  <2>1. CASE periodic[k] # NoState
    BY <1>1, <1>3, <2>1 DEF FilesAt, Ts
  <2> QED BY <2>1
<1>6. PICK w \in Series : w = series
  BY <1>2
<1>7. FilesAt(w)'
  BY <1>2, <1>4, <1>5, <1>6 DEF FilesAt, Rows
<1> QED BY <1>7 DEF FilesFit

(***************************************************************************)
(* A refresh that writes: what it holds.                                   *)
(***************************************************************************)
LEMMA WriterHolds ==
  ASSUME AppendInv, pc \in {"output", "periodic", "latest"}
  PROVE  /\ plan \in Plans /\ plan # NoPlan
         /\ IsReplayOf(plan.frame, engine, Rows)
         /\ plan.checkpoint.last = LastTs(Rows)
         /\ plan.checkpoint.last \in Ts
         /\ pc \in {"periodic", "latest"} => output = plan.frame
         /\ \E a \in Series :
              Grows(a, series) /\ plan.checkpoint.after = Watermark(a)
<1>1. plan \in Plans /\ plan # NoPlan /\ mutation # NoMutation
  BY PhaseHolds DEF AppendInv, StoreIInv, IInv, PhasesOK
<1>2. plan.checkpoint.last \in Ts
  BY <1>1 DEF Plans, Checkpoints
<1>3. PICK v \in Series : ServedAt(v)
  BY DEF AppendInv, ServedFit
<1>4. PICK a \in Series : Grows(a, series) /\ mutation.after = Watermark(a)
  BY <1>1, <1>3 DEF ServedAt
<1> QED BY <1>1, <1>2, <1>4 DEF AppendInv, PlansFit

LEMMA FilesStep ==
  ASSUME AppendOnlyStore, AppendInv, [Next]_vars
  PROVE  FilesFit'
<1>1. IInv /\ StoreInv /\ TypeOK /\ IInv' /\ TypeOK' /\ FilesFit
  BY NextIInv DEF AppendInv, StoreIInv, IInv
<1>2. engine' = engine /\ Grows(series, series')
  BY <1>1, StoreStep
<1>3. CASE UNCHANGED <<output, latest, periodic>>
  <2>1. PICK s \in Series : FilesAt(s)
    BY <1>1 DEF FilesFit
  <2>2. FilesAt(s)'
    BY <1>1, <1>2, <1>3, <2>1, FilesStay DEF TypeOK
  <2> QED BY <2>2 DEF FilesFit
<1>4. ASSUME WriteOutput PROVE FilesFit'
  <2>1. IsReplayOf(plan.frame, engine, Rows)
    BY <1>4, WriterHolds DEF WriteOutput
  <2>2. /\ UNCHANGED <<series, engine, latest, periodic>>
        /\ output' = plan.frame
    BY <1>4 DEF WriteOutput, env
  <2> QED BY <1>1, <2>1, <2>2, FilesNow
<1>5. ASSUME WritePeriodic PROVE FilesFit'
  <2> DEFINE c == plan.checkpoint
  <2>1. /\ IsReplayOf(output, engine, Rows)
        /\ c.last = LastTs(Rows) /\ c.last \in Ts
    BY <1>5, WriterHolds DEF WritePeriodic
  <2>2. /\ UNCHANGED <<series, engine, latest, output>>
        /\ periodic' = [periodic EXCEPT ![c.last] = c.state]
    BY <1>5 DEF WritePeriodic, env
  <2> HIDE DEF c
  <2>3. \A k \in Ts : periodic'[k] # NoState => periodic[k] # NoState \/ k <= LastTs(Rows)
    BY <1>1, <2>1, <2>2 DEF TypeOK, Ts
  <2> QED BY <1>1, <2>1, <2>2, <2>3, FilesNow
<1>6. ASSUME WriteLatest PROVE FilesFit'
  <2>1. /\ IsReplayOf(output, engine, Rows)
        /\ plan.checkpoint.last = LastTs(Rows)
        /\ plan.checkpoint.last \in Ts
        /\ \E a \in Series :
             Grows(a, series) /\ plan.checkpoint.after = Watermark(a)
    BY <1>6, WriterHolds DEF WriteLatest
  <2>2. /\ UNCHANGED <<series, engine, output, periodic>>
        /\ latest' = plan.checkpoint
    BY <1>6 DEF WriteLatest, env
  <2>3. latest'.last <= LastTs(Rows)
    BY <2>1, <2>2 DEF Ts
  <2> QED BY <1>1, <2>1, <2>2, <2>3, FilesNow
<1>7. CASE Replay
  BY <1>3, <1>4, <1>5, <1>6, <1>7 DEF Replay, NothingToReplay, Reuse, Compute, files
<1>8. CASE Still \/ IngestUpsert \/ IngestFails \/ UpsertThenFails \/ SaveCursor
           \/ ServeCached \/ ForceFull \/ Crash
  BY <1>3, <1>8 DEF Still, IngestUpsert, IngestFails, UpsertThenFails, SaveCursor,
                    ServeCached, ForceFull, Crash, files
<1> QED BY <1>1, <1>7, <1>8, AloneSteps

LEMMA PlansStep ==
  ASSUME AppendOnlyStore, AppendInv, [Next]_vars
  PROVE  PlansFit'
<1>1. /\ IInv /\ StoreIInv /\ FilesFit /\ TypeOK /\ PhasesOK /\ PhasesOK'
  BY NextIInv DEF AppendInv, StoreIInv, IInv
<1>2. CASE plan' = NoPlan
  BY <1>2 DEF PlansFit
<1>3. CASE Still
  BY <1>3 DEF Still, AppendInv, PlansFit, Rows
<1>4. CASE IngestUpsert \/ IngestFails \/ UpsertThenFails \/ SaveCursor \/ ForceFull
  <2>1. plan = NoPlan /\ plan' = plan
    BY <1>1, <1>4 DEF IngestUpsert, IngestFails, UpsertThenFails, SaveCursor,
                      ForceFull, PhasesOK
  <2> QED BY <1>2, <2>1
<1>5. CASE ServeCached \/ Crash
  <2>1. CASE Crash
    BY <1>2, <2>1 DEF Crash, LoseMemory
  <2>2. CASE ServeCached
    <3>1. plan' = NoPlan
      BY <2>2 DEF ServeCached, Finish
    <3> QED BY <1>1, <1>2, <3>1 DEF TypeOK
  <2> QED BY <1>5, <2>1, <2>2
<1>6. ASSUME Replay PROVE PlansFit'
  <2>1. CASE Reuse \/ WriteLatest
    BY <1>1, <1>2, <1>6, <2>1 DEF Reuse, WriteLatest, Finish, TypeOK
  <2>2. CASE NothingToReplay
    <3>1. plan = NoPlan /\ plan' = plan
      BY <1>1, <1>6, <2>2 DEF NothingToReplay, Misses, PhasesOK
    <3> QED BY <1>2, <3>1
  <2>3. CASE Compute
    <3>1. mutation \in Mutations /\ HasRows(mutation)
      BY <1>1, <1>6, <2>3, PhaseHolds DEF Compute, Misses
    <3>2. PICK s \in Series : FilesAt(s)
      BY <1>1 DEF FilesFit
    <3> DEFINE new == ReplayPlan(mutation)
    <3>3. /\ IsReplayOf(new.frame, engine, Rows)
          /\ new.checkpoint.last = LastTs(Rows)
          /\ new.checkpoint.after = mutation.after
      BY <1>1, <3>1, <3>2, PlanIsReplay, PlanUnfolds
    <3>4. /\ plan' = new
          /\ pc' = "output"
          /\ UNCHANGED <<engine, series, mutation>>
      BY <2>3 DEF Compute, env, files
    <3> HIDE DEF new
    <3> QED BY <1>1, <1>6, <3>3, <3>4 DEF PlansFit, TypeOK, Rows
  <2>4. CASE WriteOutput \/ WritePeriodic
    <3>1. /\ plan' = plan /\ UNCHANGED <<engine, series, mutation>>
          /\ output' = plan.frame
      BY <1>6, <2>4, WriterHolds DEF WriteOutput, WritePeriodic, env
    <3> QED BY <1>1, <1>6, <3>1 DEF AppendInv, PlansFit, Rows
  <2> QED BY <1>6, <2>1, <2>2, <2>3, <2>4 DEF Replay
<1> QED BY <1>1, <1>3, <1>4, <1>5, <1>6, AloneSteps
(***************************************************************************)
(* A refresh that ends with a frame publishes the replay of the store it   *)
(* saw and caches it under its watermark.                                  *)
(***************************************************************************)
LEMMA ServedNow ==
  ASSUME TypeOK, NEW frame \in Frames, Finish(frame), UNCHANGED <<series, engine>>,
         NEW w \in Series, Grows(w, series), IsReplayOf(frame, engine, Eligible(w)),
         NEW a \in Series, Grows(a, w), mutation.after = Watermark(a)
  PROVE  ServedAt(w)'
<1>1. /\ mutation' = NoMutation
      /\ served' = frame
      /\ cache' = [after |-> Watermark(a), frame |-> frame]
  BY DEF Finish
<1>2. mutation' = NoMutation
  BY <1>1 DEF TypeOK
<1>3. cache'.frame = served' /\ cache'.after = Watermark(a) /\ served' # NoFrame
  BY <1>1, NoValueAssumption
<1>4. Grows(w, series')
  OBVIOUS
<1> QED BY <1>1, <1>2, <1>3, <1>4 DEF ServedAt

\* What a refresh that is under way saw.
LEMMA RefreshSaw ==
  ASSUME IInv, pc # "idle",
         NEW v \in Series, ServedAt(v)
  PROVE  \E a \in Series : /\ Grows(v, a) /\ Grows(a, series)
                           /\ mutation.after = Watermark(a)
<1>1. mutation # NoMutation
  BY DEF IInv, PhasesOK
<1> QED BY <1>1 DEF ServedAt

\* What the files answer is what the refresh saw.
LEMMA ReuseSaw ==
  ASSUME AppendInv, Reuse,
         NEW s \in Series, FilesAt(s),
         NEW a \in Series, Grows(a, series), mutation.after = Watermark(a)
  PROVE  Grows(a, s)
<1>1. latest # NoCheckpoint /\ mutation.after = latest.after
  BY DEF Reuse, Reusable
<1>2. PICK b \in Series : Grows(b, s) /\ latest.after = Watermark(b)
  BY <1>1 DEF FilesAt
<1>3. series \in Series /\ Grows(s, series)
  BY DEF AppendInv, StoreIInv, IInv, TypeOK, FilesAt
<1>4. Grows(b, series) /\ Watermark(a) = Watermark(b)
  BY <1>1, <1>2, <1>3, GrowsTransitive
<1>5. a = b
  BY <1>3, <1>4, SameWatermark
<1> QED BY <1>2, <1>5

(***************************************************************************)
(* The store whose replay is published only grows.                         *)
(***************************************************************************)
LEMMA ServedStep ==
  ASSUME AppendOnlyStore, AppendInv, [Next]_vars, NEW v \in Series, ServedAt(v)
  PROVE  \E w \in Series : Grows(v, w) /\ ServedAt(w)'
<1>1. /\ IInv /\ StoreInv /\ StoreIInv /\ TypeOK /\ TypeOK' /\ FilesFit /\ PhasesOK
      /\ series \in Series /\ series' \in Series
      /\ Rows = Eligible(series)
  BY NextIInv DEF AppendInv, StoreIInv, IInv, TypeOK, Rows
<1>2. engine' = engine /\ Grows(series, series')
  BY <1>1, StoreStep
<1>3. Grows(v, v) /\ Grows(v, series) /\ Grows(v, series') /\ Grows(series, series)
  BY <1>1, <1>2, GrowsSelf, GrowsTransitive DEF ServedAt
<1>4. ASSUME UNCHANGED <<cache, served>>,
             mutation' # NoMutation =>
               \E a \in Series : /\ Grows(v, a) /\ Grows(a, series')
                                 /\ mutation'.after = Watermark(a)
      PROVE  ServedAt(v)'
  BY <1>2, <1>3, <1>4 DEF ServedAt
<1>5. ASSUME UNCHANGED <<cache, served, series>>,
             mutation' = NoMutation \/ mutation' = mutation
      PROVE  ServedAt(v)'
  BY <1>4, <1>5 DEF ServedAt
<1>6. CASE Still \/ SaveCursor
  BY <1>3, <1>5, <1>6 DEF Still, SaveCursor
<1>7. CASE IngestUpsert \/ IngestFails \/ UpsertThenFails
  <2>1. UNCHANGED <<cache, served>>
    BY <1>7 DEF IngestUpsert, IngestFails, UpsertThenFails
  <2>2. \/ mutation'.after = Watermark(series')
        \/ mutation'.after = Watermark(series)
    <3>1. CASE IngestUpsert
      <4> DEFINE m == [changed     |-> ChangedTs(series, Incoming) # {},
                       append_only |-> RetroTs(series, Incoming) = {},
                       earliest    |-> EarliestRetro(series, Incoming),
                       after       |-> Watermark(Upsert(series, Incoming))]
      <4>1. /\ series' = Upsert(series, Incoming)
            /\ mutation' = m
        BY <3>1, Zenon DEF IngestUpsert
      <4>2. m.after = Watermark(Upsert(series, Incoming))
        OBVIOUS
      <4> HIDE DEF m
      <4> QED BY <1>1, <2>1, <4>1, <4>2 DEF TypeOK
    <3>2. CASE IngestFails \/ UpsertThenFails
      <4>1. mutation' = NoChange(Watermark(series))
        BY <3>2 DEF IngestFails, UpsertThenFails
      <4>2. NoChange(Watermark(series)).after = Watermark(series)
        BY DEF NoChange
      <4> QED BY <1>1, <2>1, <4>1, <4>2 DEF TypeOK
    <3> QED BY <1>7, <3>1, <3>2
  <2>3. Grows(series', series')
    BY <1>1, GrowsSelf
  <2>4. ServedAt(v)'
    <3>1. \E a \in Series : /\ Grows(v, a) /\ Grows(a, series')
                              /\ mutation'.after = Watermark(a)
      BY <1>1, <1>2, <1>3, <2>2, <2>3
    <3> QED BY <1>4, <2>1, <3>1
  <2> QED BY <1>3, <2>4
<1>8. CASE ServeCached
  <2>1. /\ pc # "idle"
        /\ cache # NoFrame /\ cache.after = mutation.after
        /\ Finish(cache.frame) /\ UNCHANGED <<series, engine>>
    BY <1>8 DEF ServeCached, CacheHit, env, files
  <2>2. cache.frame \in Frames /\ cache.frame = served /\ served # NoFrame
        /\ IsReplayOf(cache.frame, engine, Eligible(v))
    BY <1>1, <2>1 DEF ServedAt, TypeOK
  <2>3. PICK a \in Series : mutation.after = Watermark(a)
    BY <1>1, <2>1, RefreshSaw
  <2>4. Watermark(a) # NoWatermark
    BY SeriesTypes, ReplayAssumption
  <2>5. PICK b \in Series : Grows(b, v) /\ cache.after = Watermark(b)
    BY <2>1, <2>3, <2>4 DEF ServedAt
  <2>6. mutation.after = Watermark(b)
    BY <2>1, <2>5
  <2> DEFINE frame == cache.frame
  <2>7. frame \in Frames /\ Finish(frame) /\ IsReplayOf(frame, engine, Eligible(v))
    BY <2>1, <2>2
  <2> HIDE DEF frame
  <2>8. ServedAt(v)'
    BY <1>1, <1>3, <2>1, <2>5, <2>6, <2>7, ServedNow
  <2> QED BY <1>3, <2>8
<1>9. CASE ForceFull
  <2>1. /\ served' = FullReplay(engine, Rows)
        /\ cache' = [after |-> NoWatermark, frame |-> FullReplay(engine, Rows)]
        /\ mutation' = mutation /\ series' = series
        /\ mutation = NoMutation
    BY <1>1, <1>9 DEF ForceFull, env, files, PhasesOK
  <2>2. IsReplayOf(FullReplay(engine, Rows), engine, Rows)
    BY <1>1, FullIsReplay, SeriesTypes DEF TypeOK
  <2> DEFINE full == FullReplay(engine, Rows)
  <2>3. full \in Frames
    <3>1. 0 \in 0 .. MaxTs /\ engine \in Engines /\ Rows \in Series /\ Start \in States
      BY <1>1, SeriesTypes, SeriesAssumption, EngineAssumption DEF TypeOK
    <3> QED BY <3>1, EmptyFrameType, ExtendType DEF FullReplay
  <2>4. /\ served' = full /\ cache'.frame = full /\ cache'.after = NoWatermark
        /\ IsReplayOf(full, engine, Rows)
    BY <2>1, <2>2
  <2> HIDE DEF full
  <2>5. full # NoFrame
    BY <2>3, NoValueAssumption
  <2>6. PICK w \in Series : w = series
    BY <1>1
  <2>7. ServedAt(w)'
    BY <1>1, <1>2, <1>3, <2>1, <2>4, <2>5, <2>6 DEF ServedAt
  <2> QED BY <1>3, <2>6, <2>7
<1>10. CASE Crash
  BY <1>3, <1>4, <1>10 DEF Crash, LoseMemory, files, ServedAt
<1>11. ASSUME Replay
       PROVE  \E w \in Series : Grows(v, w) /\ ServedAt(w)'
  <2>1. CASE NothingToReplay
    BY <1>1, <1>3, <1>5, <1>11, <2>1 DEF NothingToReplay, files, TypeOK
  <2>2. CASE Compute \/ WriteOutput \/ WritePeriodic
    BY <1>3, <1>5, <2>2 DEF Compute, WriteOutput, WritePeriodic, files
  <2>3. CASE Reuse
    <3>1. PICK s \in Series : FilesAt(s)
      BY <1>1 DEF FilesFit
    <3>2. /\ pc # "idle" /\ Finish(output)
          /\ UNCHANGED <<series, engine>>
      BY <2>3 DEF Reuse, Misses, env, files
    <3>3. PICK a \in Series : /\ Grows(v, a) /\ Grows(a, series)
                              /\ mutation.after = Watermark(a)
      BY <1>1, <1>11, <3>2, RefreshSaw
    <3>4. Grows(a, s)
      BY <1>11, <2>3, <3>1, <3>3, ReuseSaw
    <3>5. Grows(v, s)
      BY <3>3, <3>4, GrowsTransitive
    <3>6. output \in Frames /\ IsReplayOf(output, engine, Eligible(s)) /\ Grows(s, series)
      BY <1>1, <3>1 DEF TypeOK, FilesAt
    <3>7. ServedAt(s)'
      BY <1>1, <1>11, <3>2, <3>3, <3>4, <3>6, ServedNow
    <3> QED BY <3>5, <3>7
  <2>4. CASE WriteLatest
    <3>1. /\ pc = "latest" /\ Finish(plan.frame)
          /\ UNCHANGED <<series, engine>>
      BY <2>4 DEF WriteLatest, env
    <3>2. /\ plan \in Plans
          /\ IsReplayOf(plan.frame, engine, Rows)
      BY <1>11, <3>1, WriterHolds
    <3>3. PICK a \in Series : /\ Grows(v, a) /\ Grows(a, series)
                              /\ mutation.after = Watermark(a)
      BY <1>1, <1>11, <3>1, RefreshSaw
    <3> DEFINE frame == plan.frame
    <3>4. /\ frame \in Frames /\ Finish(frame)
          /\ IsReplayOf(frame, engine, Eligible(series))
      BY <1>1, <3>1, <3>2 DEF Plans
    <3> HIDE DEF frame
    <3>5. PICK w \in Series : w = series
      BY <1>1
    <3>6. ServedAt(w)'
      BY <1>1, <1>3, <1>11, <3>1, <3>3, <3>4, <3>5, ServedNow
    <3> QED BY <1>3, <3>5, <3>6
  <2> QED BY <1>11, <2>1, <2>2, <2>3, <2>4 DEF Replay
<1> QED BY <1>1, <1>6, <1>7, <1>8, <1>9, <1>10, <1>11, AloneSteps

LEMMA InitAppendInv == ASSUME Init PROVE AppendInv
<1>1. StoreIInv /\ TypeOK
  BY InitStoreIInv DEF StoreIInv, IInv
<1>2. EmptySeries \in Series /\ Grows(EmptySeries, EmptySeries)
  BY GrowsSelf DEF EmptySeries, Series
<1>3. PICK s \in Series : s = EmptySeries
  BY <1>2
<1>4. IsReplayOf(EmptyFrame, engine, Eligible(s))
  BY <1>1, <1>3, EmptyIsReplay DEF TypeOK
<1>5. FilesAt(s)
  BY <1>2, <1>3, <1>4 DEF Init, FilesAt
<1>6. ServedAt(s)
  BY <1>2, <1>3 DEF Init, ServedAt
<1>7. PlansFit
  BY DEF Init, PlansFit
<1> QED BY <1>1, <1>5, <1>6, <1>7 DEF AppendInv, FilesFit, ServedFit

LEMMA NextAppendInv ==
  ASSUME AppendOnlyStore, AppendInv, [Next]_vars
  PROVE  AppendInv'
<1>1. StoreIInv'
  BY NextRunInv DEF AppendInv
<1>2. ServedFit'
  <2>1. PICK v \in Series : ServedAt(v)
    BY DEF AppendInv, ServedFit
  <2>2. PICK w \in Series : ServedAt(w)'
    BY <2>1, ServedStep
  <2> QED BY <2>2 DEF ServedFit
<1> QED BY <1>1, <1>2, FilesStep, PlansStep DEF AppendInv

(***************************************************************************)
(* AppendInv is an invariant while the store only grows.                   *)
(***************************************************************************)
THEOREM AppendInvariance == ASSUME AppendOnlyStore PROVE Spec => []AppendInv
<1>1. Init => AppendInv
  BY InitAppendInv
<1>2. AppendInv /\ [Next]_vars => AppendInv'
  BY NextAppendInv
<1> QED BY <1>1, <1>2, PTL DEF Spec

(***************************************************************************)
(* The output file is a replay from scratch of the store up to some        *)
(* minute, whatever was resumed, reused or cut short by a crash, for every *)
(* timeline, engine, overlap, cutoff and checkpoint interval               *)
(* (run_true_incremental_replay): at minute n, the end of the store that   *)
(* the last written output saw.                                            *)
(***************************************************************************)
THEOREM OutputHolds == ASSUME AppendOnlyStore PROVE Spec => []OutputIsReplay
<1>1. AppendInv => OutputIsReplay
  <2> SUFFICES ASSUME AppendInv PROVE OutputIsReplay
    OBVIOUS
  <2>1. PICK s \in Series : FilesAt(s)
    BY DEF AppendInv, FilesFit
  <2>2. s = Upto(series, LastTs(s)) /\ LastTs(s) \in 0 .. MaxTs
    BY <2>1, GrowsFacts, LastTsFacts
       DEF FilesAt, AppendInv, StoreIInv, IInv, TypeOK
  <2>3. IsReplayOf(output, engine, Eligible(Upto(series, LastTs(s))))
    BY <2>1, <2>2 DEF FilesAt
  <2> QED BY <2>2, <2>3 DEF OutputIsReplay
<1> QED BY <1>1, AppendInvariance, PTL

(***************************************************************************)
(* Every checkpoint on disk is the state the output file records at its    *)
(* minute, even between the writes of the files and after a crash there.   *)
(***************************************************************************)
THEOREM CheckpointsHold == ASSUME AppendOnlyStore PROVE Spec => []CheckpointsAgree
<1>1. AppendInv => CheckpointsAgree
  BY CheckpointsOnOutput DEF AppendInv
<1> QED BY <1>1, AppendInvariance, PTL
(***************************************************************************)
(* latest.json never goes back: what replaces it is the checkpoint of the  *)
(* last row of a store that contains the one of the old checkpoint.        *)
(***************************************************************************)
THEOREM LatestOnlyAdvances == ASSUME AppendOnlyStore PROVE Spec => LatestNeverRewinds
<1> DEFINE Forward == latest # NoCheckpoint => latest'.last >= latest.last
<1>1. AppendInv /\ [Next]_vars => Forward
  <2> SUFFICES ASSUME AppendInv, [Next]_vars, latest # NoCheckpoint
               PROVE  latest'.last >= latest.last
    OBVIOUS
  <2>1. IInv /\ TypeOK /\ OnRun(engine, Rows, latest.last, latest.state)
    BY DEF AppendInv, StoreIInv, IInv, RunInv
  <2>2. latest.last \in Ts /\ latest.last <= LastTs(Rows) /\ LastTs(Rows) \in 0 .. MaxTs
    BY <2>1, RowsType DEF TypeOK, Checkpoints, OnRun
  <2>3. CASE latest' = latest
    BY <2>2, <2>3 DEF Ts
  <2>4. CASE plan # NoPlan /\ latest' = plan.checkpoint
    BY <2>2, <2>4 DEF AppendInv, PlansFit, Ts
  <2> QED BY <2>1, <2>3, <2>4, CheckpointsCome
<1>2. AppendInv /\ [Next]_vars => [Forward]_latest
  BY <1>1
<1> QED BY <1>2, AppendInvariance, PTL DEF Spec, LatestNeverRewinds

(***************************************************************************)
(* A replay that ends without a row had none: the store keeps no row.      *)
(***************************************************************************)
LEMMA NothingMeansNoRows ==
  ASSUME AppendInv, NEW m \in Mutations, ~ HasRows(m)
  PROVE  Rows = EmptySeries
<1>1. /\ TypeOK /\ StoreIInv /\ MaxTs \in Nat
      /\ Rows \in Series /\ series \in Series /\ LastTs(Rows) \in 0 .. MaxTs
  BY RowsType, SeriesAssumption DEF AppendInv, StoreIInv, IInv, TypeOK
<1>2. PICK s \in Series : FilesAt(s)
  BY DEF AppendInv, FilesFit
<1>3. Grows(Eligible(s), Rows) /\ Eligible(s) \in Series
      /\ LastTs(Eligible(s)) \in 0 .. MaxTs
      /\ LastTs(Eligible(s)) <= LastTs(Rows)
  BY <1>1, <1>2, EligibleGrows, SeriesTypes, LastTsFacts, GrowsFacts DEF FilesAt, Rows
<1>4. Tail(m) = {} /\ Times(BasePrefix(m).rows) = {}
  BY DEF HasRows
<1>5. LastTs(Rows) = 0
  <2>1. CASE ResumeTs(m) = 0
    BY <1>1, <1>4, <2>1, LastTsFacts DEF Tail, Times, Ts
  <2>2. CASE ResumeTs(m) # 0
    <3> DEFINE k == ResumeTs(m)
    <3>1. k \in Ts /\ k <= LastTs(Eligible(s)) /\ BasePrefix(m) = Prefix(output, k)
      BY <1>1, <1>2, <2>2, ResumesOnOutput
    <3>2. Tail(m) = {t \in Times(Rows) : t > k}
      BY DEF Tail
    <3> HIDE DEF k
    <3>3. SUFFICES ASSUME LastTs(Rows) # 0 PROVE FALSE
      OBVIOUS
    <3>4. LastTs(Rows) \in Times(Rows)
      BY <1>1, <3>3, LastTsFacts
    <3>5. LastTs(Rows) = k
      BY <1>1, <1>3, <1>4, <3>1, <3>2, <3>4 DEF Ts
    <3>6. Eligible(s)[k] # NoBar
      BY <1>3, <3>1, <3>4, <3>5 DEF Grows, Times
    <3>7. Prefix(output, k).rows = Upto(Eligible(s), k)
      BY <1>2 DEF Prefix, FilesAt, IsReplayOf
    <3>8. Upto(Eligible(s), k)[k] = Eligible(s)[k]
      BY <3>1 DEF Upto, Ts
    <3>9. k \in Times(Prefix(output, k).rows)
      BY <3>1, <3>6, <3>7, <3>8 DEF Times
    <3> QED BY <1>4, <3>1, <3>9
  <2> QED BY <2>1, <2>2
<1>6. \A t \in Ts : Rows[t] = NoBar
  BY <1>1, <1>5, LastTsFacts DEF Times
<1>7. Rows = EmptySeries
  BY <1>1, <1>6 DEF Series, EmptySeries
<1> QED BY <1>7

\* Two stores that extend each other are the same.
LEMMA GrowsBothWays ==
  ASSUME NEW r \in Series, NEW s \in Series, Grows(r, s), Grows(s, r)
  PROVE  r = s
<1>1. LastTs(r) \in 0 .. MaxTs /\ LastTs(s) \in 0 .. MaxTs /\ MaxTs \in Nat
      /\ LastTs(r) <= LastTs(s) /\ LastTs(s) <= LastTs(r)
  BY GrowsFacts, LastTsFacts, SeriesAssumption
<1>2. LastTs(r) = LastTs(s) /\ Grows(s, s)
  BY <1>1, GrowsSelf
<1> QED BY <1>2, SameLast

LEMMA EndPublishes ==
  ASSUME AppendOnlyStore, AppendInv, [Next]_vars, RefreshEnds,
         mutation.after = Watermark(series)
  PROVE  IsReplayOf(served', engine, Rows)
<1>1. /\ IInv /\ TypeOK /\ StoreIInv
      /\ series \in Series /\ Rows \in Series /\ Rows = Eligible(series)
      /\ pc \in {"replay", "latest"} /\ pc' = "idle"
      /\ served' # NoFrame /\ Grows(series, series)
  BY RowsType, GrowsSelf DEF AppendInv, StoreIInv, IInv, TypeOK, RefreshEnds, Rows
<1>2. PICK v \in Series : ServedAt(v)
  BY DEF AppendInv, ServedFit
<1>3. PICK s \in Series : FilesAt(s)
  BY DEF AppendInv, FilesFit
<1>4. CASE ServeCached
  <2>1. cache # NoFrame /\ cache.after = Watermark(series) /\ served' = cache.frame
    BY <1>4 DEF ServeCached, CacheHit, Finish
  <2>2. Watermark(series) # NoWatermark
    BY <1>1, SeriesTypes, ReplayAssumption
  <2>3. PICK a \in Series : Grows(a, v) /\ cache.after = Watermark(a)
    BY <1>2, <2>1, <2>2 DEF ServedAt
  <2>4. Grows(v, series) /\ Grows(a, series) /\ Watermark(a) = Watermark(series)
    BY <1>1, <1>2, <2>1, <2>3, GrowsTransitive DEF ServedAt
  <2>5. a = series
    BY <1>1, <2>4, SameWatermark
  <2>6. v = series
    BY <1>1, <2>3, <2>4, <2>5, GrowsBothWays
  <2> QED BY <1>1, <1>2, <2>1, <2>6 DEF ServedAt
<1>5. CASE NothingToReplay
  <2>1. served' = served /\ served # NoFrame
    BY <1>1, <1>5 DEF NothingToReplay
  <2>2. Rows = EmptySeries
    <3>1. CASE Times(series) = {}
      BY <1>1, <3>1 DEF Times, Eligible, Kept, EmptySeries
    <3>2. CASE ~ HasRows(mutation)
      <4>1. mutation \in Mutations
        BY <1>1, PhaseHolds
      <4> QED BY <3>2, <4>1, NothingMeansNoRows
    <3> QED BY <1>5, <3>1, <3>2 DEF NothingToReplay
  <2>3. Grows(Eligible(v), Rows) /\ Eligible(v) \in Series
    BY <1>1, <1>2, EligibleGrows, SeriesTypes DEF ServedAt
  <2>4. Times(Eligible(v)) = {}
    BY <1>1, <2>2, <2>3, GrowsFacts DEF EmptySeries, Times
  <2>5. Eligible(v) = Rows
    BY <2>2, <2>3, <2>4 DEF Times, Series, EmptySeries
  <2> QED BY <1>2, <2>1, <2>5 DEF ServedAt
<1>6. CASE Reuse
  <2>1. Grows(series, s)
    BY <1>1, <1>3, <1>6, ReuseSaw
  <2>2. s = series
    BY <1>1, <1>3, <2>1, GrowsBothWays DEF FilesAt
  <2>3. served' = output
    BY <1>6 DEF Reuse, Finish
  <2> QED BY <1>1, <1>3, <2>2, <2>3 DEF FilesAt
<1>7. CASE WriteLatest
  <2>1. served' = plan.frame /\ pc = "latest"
    BY <1>7 DEF WriteLatest, Finish
  <2> QED BY <1>1, <2>1, WriterHolds
<1>8. CASE Still \/ IngestUpsert \/ IngestFails \/ UpsertThenFails \/ SaveCursor
           \/ ForceFull \/ Crash \/ Compute \/ WriteOutput
           \/ WritePeriodic
  BY <1>1, <1>8 DEF Still, IngestUpsert, IngestFails, UpsertThenFails, SaveCursor,
                    ForceFull, Crash, LoseMemory, Compute, WriteOutput,
                    WritePeriodic, TypeOK
<1> QED BY <1>1, <1>4, <1>5, <1>6, <1>7, <1>8, AloneSteps DEF Replay

(***************************************************************************)
(* A refresh that saw the whole store publishes the replay of the whole    *)
(* store, whether the answer came from the cache, the files or the engine  *)
(* (get_pair_replay).                                                      *)
(***************************************************************************)
THEOREM StoreIsPublished == ASSUME AppendOnlyStore PROVE Spec => PublishesTheStore
<1> DEFINE Publishes == RefreshEnds /\ mutation.after = Watermark(series)
                          => IsReplayOf(served', engine, Rows)
<1>1. AppendInv /\ [Next]_vars => Publishes
  BY EndPublishes
<1> QED BY <1>1, AppendInvariance, PTL DEF Spec, PublishesTheStore
-----------------------------------------------------------------------------
(***************************************************************************)
(* The abstract specification.  Its own copies of the replay operators are *)
(* those of this module.                                                   *)
(***************************************************************************)
LEMMA SameReplay ==
  ASSUME NEW f, NEW e, NEW s
  PROVE  /\ Published!IsReplayOf(f, e, s) <=> IsReplayOf(f, e, s)
         /\ Published!Eligible(s) = Eligible(s)
<1>1. Published!Ts = Ts
  BY DEF Published!Ts, Ts
<1>2. Published!Times(s) = Times(s)
  BY <1>1 DEF Published!Times, Times
<1>3. Published!Eligible(s) = Eligible(s)
  BY <1>1, <1>2 DEF Published!Eligible, Eligible, Published!Kept, Kept
<1>4. \A st, t, bar : Published!Advance(e, st, t, bar) = Advance(e, st, t, bar)
  BY DEF Published!Advance, Advance
<1>5. \A st : Published!PendingMark(st) = PendingMark(st)
  BY DEF Published!PendingMark, PendingMark
<1> QED BY <1>1, <1>3, <1>4, <1>5 DEF Published!IsReplayOf, IsReplayOf

LEMMA SameSeries ==
  /\ Published!Ts = Ts
  /\ Published!Series = Series
  /\ Published!EmptySeries = EmptySeries
  /\ \A s : Published!Times(s) = Times(s)
  /\ \A s : Published!LastTs(s) = LastTs(s)
  /\ \A s, n : Published!Upto(s, n) = Upto(s, n)
<1>1. Published!Ts = Ts
  BY DEF Published!Ts, Ts
<1>2. \A s : Published!Times(s) = Times(s)
  BY <1>1 DEF Published!Times, Times
<1>3. \A s : Published!LastTs(s) = LastTs(s)
  <2>1. \A S : Published!Max(S) = Max(S)
    BY DEF Published!Max, Max
  <2> QED BY <1>2, <2>1 DEF Published!LastTs, LastTs
<1> QED BY <1>1, <1>2, <1>3
        DEF Published!Series, Series, Published!EmptySeries, EmptySeries,
            Published!Upto, Upto

(***************************************************************************)
(* Every step of the refresh grows the store, publishes a replay of it     *)
(* that takes no minute back, restarts, or is not seen by a reader.        *)
(***************************************************************************)
LEMMA StepPublishes ==
  ASSUME AppendOnlyStore, AppendInv, [Next]_vars
  PROVE  [Published!Next]_(Published!vars)
<1>1. /\ IInv /\ TypeOK /\ TypeOK' /\ StoreInv /\ AppendInv'
      /\ series \in Series /\ series' \in Series /\ engine \in Engines
  BY NextIInv, NextAppendInv DEF AppendInv, StoreIInv, IInv, TypeOK
<1>2. engine' = engine /\ Grows(series, series')
  BY <1>1, StoreStep
<1>3. CASE served' = served
  <2>1. Upto(series', LastTs(series)) = series
    BY <1>1, <1>2, GrowsFacts
  <2>2. Published!Grow
    BY <1>1, <1>2, <1>3, <2>1, SameSeries DEF Published!Grow
  <2> QED BY <2>2 DEF Published!Next
<1>4. CASE served' # served
  <2>1. series' = series
    BY <1>1, <1>4, AloneSteps
       DEF Still, IngestUpsert, IngestFails, UpsertThenFails, SaveCursor, ServeCached,
           ForceFull, Crash, Replay, NothingToReplay, Reuse, Compute, WriteOutput,
           WritePeriodic, WriteLatest, files
  <2>2. CASE served' = NoFrame
    BY <1>1, <1>2, <2>1, <2>2 DEF Published!Next, Published!Restart
  <2>3. CASE served' # NoFrame
    <3>1. PICK v \in Series : ServedAt(v)
      BY DEF AppendInv, ServedFit
    <3>2. PICK w \in Series : Grows(v, w) /\ ServedAt(w)'
      BY <3>1, ServedStep
    <3>3. IsReplayOf(served', engine, Eligible(w)) /\ Grows(w, series)
      BY <1>2, <2>1, <2>3, <3>2 DEF ServedAt
    <3>4. w = Upto(series, LastTs(w)) /\ LastTs(w) \in 0 .. MaxTs
      BY <1>1, <3>3, GrowsFacts, LastTsFacts
    <3>5. Published!ReplayOfThePast(served')
      <4>1. IsReplayOf(served', engine, Eligible(Upto(series, LastTs(w))))
        BY <3>3, <3>4
      <4>2. Published!IsReplayOf(served', engine,
              Published!Eligible(Published!Upto(series, LastTs(w))))
        BY <4>1, SameReplay, SameSeries
      <4> QED BY <3>4, <4>2 DEF Published!ReplayOfThePast
    <3>6. served # NoFrame => Times(served.rows) \subseteq Times(served'.rows)
      <4> SUFFICES ASSUME served # NoFrame
                   PROVE  Times(served.rows) \subseteq Times(served'.rows)
        OBVIOUS
      <4>1. served.rows = Eligible(v) /\ served'.rows = Eligible(w)
        BY <3>1, <3>3 DEF ServedAt, IsReplayOf
      <4>2. /\ Grows(Eligible(v), Eligible(w))
            /\ Eligible(v) \in Series /\ Eligible(w) \in Series
        BY <3>2, EligibleGrows, SeriesTypes
      <4> QED BY <4>1, <4>2, GrowsFacts
    <3>7. Published!Publish
      BY <1>2, <2>1, <2>3, <3>5, <3>6, SameSeries DEF Published!Publish
    <3> QED BY <3>7 DEF Published!Next
  <2> QED BY <2>2, <2>3
<1> QED BY <1>3, <1>4

(***************************************************************************)
(* The refresh implements PublishedReplay: what a reader of the            *)
(* snapshot sees is nothing, or a replay from scratch of the store up to a *)
(* minute, and no refresh takes a minute back, for every timeline, engine, *)
(* overlap and cutoff and through any failed ingest, failed save or crash. *)
(***************************************************************************)
THEOREM Implements == ASSUME AppendOnlyStore PROVE Spec => ImplementsPublishedReplay
<1>1. Init => Published!Init
  BY SameSeries, ReplayAssumption DEF Init, Published!Init
<1>2. AppendInv /\ [Next]_vars => [Published!Next]_(Published!vars)
  BY StepPublishes
<1> QED BY <1>1, <1>2, AppendInvariance, PTL
        DEF Spec, ImplementsPublishedReplay, Published!Spec
=============================================================================
