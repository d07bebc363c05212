---------------------------- MODULE SharedReplay ----------------------------
(***************************************************************************)
(* Several threads of the server run the incremental replay of one pair    *)
(* over the same files (signal_replay/incremental.py): the refresh, one at *)
(* a time under refresh_lock, and the API requests, which take no lock and *)
(* bring no ingest result: _unified_snapshot (ui/app.py) over the days of  *)
(* the refresh, build_unified_spread_series over a window of its own.      *)
(*                                                                         *)
(* Every read and every write of a file is a step.  A file is written to a *)
(* temporary name and moved over the target, but that name is made of the  *)
(* target and the process id: two threads that write the same target share *)
(* it.  A thread may empty what the other wrote, find its file already     *)
(* moved, or go on writing into the file that was moved.                   *)
(*                                                                         *)
(* The store only grows at its end and the settings stay: corrections, the *)
(* backfill and other settings are in IncrementalReplay.  A run served     *)
(* from _PAIR_REPLAY_CACHE touches no file and is not a step: any run may  *)
(* miss it, for its key has the dates and a request overwrites the         *)
(* watermark of the refresh.                                               *)
(***************************************************************************)
EXTENDS ReplayFrames

CONSTANTS
  Requests,           \* API requests that replay the pair
  Overlapping,        \* whether two replays of the pair overlap in time
  Restarts,           \* whether the server is killed and restarted
  From,               \* first minute each caller loads: its start_date
  Engine,             \* engine signature of the settings
  CheckpointInterval, \* ui.incremental_checkpoint_interval_minutes
  Nothing,            \* a file that is absent or cannot be read
  NoTemp,             \* no file of that temporary name
  NoWatermark         \* watermark_after of a caller without ingest result

Refresh == "refresh"
Callers == Requests \cup {Refresh}

ASSUME SharedAssumption ==
  /\ Refresh \notin Requests
  /\ Overlapping \in BOOLEAN
  /\ Restarts \in BOOLEAN
  /\ From \in [Callers -> Ts]
  /\ Engine \in Engines
  /\ CheckpointInterval \in Nat \ {0}
  /\ NoWatermark \notin Watermarks

\* The files of the pair, in the order they are written: the output, the
\* periodic checkpoint of a minute (named by the minute), latest.json.
OutputFile == 0
LatestFile == MaxTs + 1
Files == 0 .. MaxTs + 1

Mutations == [changed : BOOLEAN, after : Watermarks \cup {NoWatermark}]

Checkpoints ==
  [last : Ts, state : States, after : Watermarks \cup {NoWatermark},
   last_periodic : 0 .. MaxTs]

Contents == Frames \cup Checkpoints

ASSUME NothingAssumption ==
  /\ Nothing \notin Contents
  /\ NoTemp \notin Contents \cup {Nothing}

VARIABLES
  series,   \* the minute store of the pair
  files,    \* what each file holds
  temp,     \* what the temporary file of each file holds
  job       \* where each caller stands, and what it has read

vars == <<series, files, temp, job>>

(***************************************************************************)
(* A caller reads the output, then latest.json, then perhaps a periodic    *)
(* checkpoint, and writes the files of todo: it opens the temporary file,  *)
(* fills it, and moves it.  holds says where the file it opened is now:    *)
(* still under the temporary name, moved over the target by another        *)
(* thread, or replaced there by a later one.                               *)
(***************************************************************************)
Places == {"idle", "output", "latest", "checkpoint", "open", "fill", "move",
           "done"}

Jobs ==
  [at : Places, rows : Series, mutation : Mutations,
   output : Frames \cup {Nothing}, latest : Checkpoints \cup {Nothing},
   frame : Frames \cup {Nothing}, checkpoint : Checkpoints \cup {Nothing},
   todo : SUBSET Files, holds : {"none", "temp", "target", "gone"}]

Writes(j) == j.at \in {"open", "fill", "move"}

Idle ==
  [at |-> "idle", rows |-> EmptySeries,
   mutation |-> [changed |-> FALSE, after |-> NoWatermark],
   output |-> Nothing, latest |-> Nothing, frame |-> Nothing,
   checkpoint |-> Nothing, todo |-> {}, holds |-> "none"]

\* The caller has its result: a refresh publishes it, a request answers it.
Done(j, frame) ==
  [Idle EXCEPT !.at = "done", !.mutation = j.mutation, !.frame = frame]

-----------------------------------------------------------------------------
(* The decisions of run_true_incremental_replay, on what the caller read.  *)

HasPendingSignal(st) == SignalTs(st) # 0

\* _has_source_history_expansion
HistoryExpanded(j) ==
  /\ j.output # Nothing
  /\ Times(j.rows) # {}
  /\ Times(j.output.rows) # {}
  /\ Min(Times(j.rows)) < Min(Times(j.output.rows))

Reusable(j) ==
  /\ ~ j.mutation.changed
  /\ j.latest # Nothing
  /\ j.mutation.after = j.latest.after
  /\ ~ HistoryExpanded(j)

FromScratch(j) == j.latest = Nothing \/ HistoryExpanded(j)

AppendOnly(j) == ~ FromScratch(j) /\ ~ HasPendingSignal(j.latest.state)

\* The rows of the output up to the minute the replay resumes after.
BasePrefix(j, k) ==
  IF k = 0 \/ j.output = Nothing THEN EmptyFrame ELSE Prefix(j.output, k)

NewRows(j, k) == {t \in Times(j.rows) : t > k}

LastPeriodic(j) == IF j.latest = Nothing THEN 0 ELSE j.latest.last_periodic

\* _should_emit_periodic_checkpoint
ShouldEmit(j, last, st) ==
  /\ ~ HasPendingSignal(st)
  /\ LastPeriodic(j) = 0 \/ last - LastPeriodic(j) >= CheckpointInterval

\* The caller computes its files from the state st of minute k, or ends with
\* an error when that leaves no row (k = 0 is the replay from scratch).
Planned(j, k, st) ==
  LET empty == NewRows(j, k) = {}
      base  == BasePrefix(j, k)
      frame == IF empty THEN base ELSE Extend(Engine, base, k, j.rows, st)
      last  == IF empty THEN k ELSE LastTs(j.rows)
      final == IF empty THEN st ELSE frame.trace[MaxTs]
      emit  == ~ empty /\ ShouldEmit(j, last, final)
  IN  IF empty /\ Times(base.rows) = {} THEN Idle
      ELSE [j EXCEPT !.at = "open", !.output = Nothing, !.latest = Nothing,
                     !.frame = frame,
                     !.checkpoint =
                       [last |-> last, state |-> final,
                        after |-> j.mutation.after,
                        last_periodic |-> IF emit THEN last
                                          ELSE LastPeriodic(j)],
                     !.todo = {OutputFile, LatestFile} \cup
                              (IF emit THEN {last} ELSE {})]

-----------------------------------------------------------------------------
Init ==
  /\ series = EmptySeries
  /\ files = [n \in Files |-> Nothing]
  /\ temp = [n \in Files |-> NoTemp]
  /\ job = [p \in Callers |-> Idle]

\* The rows of the store from the first minute of a caller's window.
Window(p, s) == [t \in Ts |-> IF t < From[p] THEN NoBar ELSE s[t]]

Appended(s) == {r \in Series : Upto(r, LastTs(s)) = s}

\* The caller has its rows: load_pair_minute_series and apply_day_cutoff.
Loads(p, s, mutation) ==
  /\ job[p] = Idle
  /\ Overlapping \/ \A q \in Callers : job[q] = Idle
  /\ job' = [job EXCEPT ![p] =
       IF Times(Window(p, s)) = {} THEN Idle
       ELSE [Idle EXCEPT !.at = "output", !.rows = Eligible(Window(p, s)),
                         !.mutation = mutation]]
  /\ UNCHANGED <<files, temp>>

\* A refresh: what the exchange printed since is appended to the store.
StartRefresh(s) ==
  /\ s \in Appended(series)
  /\ series' = s
  /\ Loads(Refresh, s, [changed |-> s # series, after |-> Watermark(s)])

StartRequest(p) ==
  /\ Loads(p, series, [changed |-> FALSE, after |-> NoWatermark])
  /\ UNCHANGED series

-----------------------------------------------------------------------------
(* Reading the files.                                                      *)

\* The file a caller writes now: the first of those left.
Target(j) == Min(j.todo)

Writing(q, n) == job[q].at \in {"fill", "move"} /\ Target(job[q]) = n

\* Somebody writes into the file itself: a reader may find half of it.
InPlace(n) ==
  \E q \in Callers : /\ Writing(q, n)
                     /\ job[q].at = "fill"
                     /\ job[q].holds = "target"

Readings(n) == {files[n]} \cup (IF InPlace(n) THEN {Nothing} ELSE {})

Moves(p, j) ==
  /\ job' = [job EXCEPT ![p] = j]
  /\ UNCHANGED <<series, files, temp>>

ReadOutput(p) ==
  /\ job[p].at = "output"
  /\ \E output \in Readings(OutputFile) :
       Moves(p, [job[p] EXCEPT !.at = "latest", !.output = output])

\* latest.json read, the caller reuses the output, resumes, or starts over.
ReadLatest(p) ==
  /\ job[p].at = "latest"
  /\ \E latest \in Readings(LatestFile) :
       LET j == [job[p] EXCEPT !.latest = latest]
       IN  \/ /\ Reusable(j)
              /\ Moves(p, IF j.output = Nothing THEN Idle
                          ELSE Done(j, j.output))
           \/ /\ ~ Reusable(j)
              /\ FromScratch(j)
              /\ Moves(p, Planned(j, 0, Start))
           \/ /\ ~ Reusable(j)
              /\ AppendOnly(j)
              /\ Moves(p, Planned(j, latest.last, latest.state))
           \/ /\ ~ Reusable(j)
              /\ ~ FromScratch(j)
              /\ ~ AppendOnly(j)
              /\ Moves(p, [j EXCEPT !.at = "checkpoint"])

\* Mutant: the run goes on after the start of the overlap window, in the
\* state of the checkpoint found before it.
ResumeAtOverlap(p) ==
  /\ job[p].at = "checkpoint"
  /\ \E torn \in SUBSET {k \in Ts : InPlace(k)} :
       LET near == {k \in Ts \ torn : /\ files[k] # Nothing
                                      /\ k <= job[p].latest.last - Overlap}
       IN  Moves(p, IF near = {} THEN Planned(job[p], 0, Start)
                    ELSE Planned(job[p], job[p].latest.last - Overlap,
                                 files[Max(near)].state))

\* _load_nearest_checkpoint: the last readable one before the overlap.
ReadCheckpoint(p) ==
  /\ job[p].at = "checkpoint"
  /\ \E torn \in SUBSET {k \in Ts : InPlace(k)} :
       LET near == {k \in Ts \ torn : /\ files[k] # Nothing
                                      /\ k <= job[p].latest.last - Overlap}
       IN  Moves(p, IF near = {} THEN Planned(job[p], 0, Start)
                    ELSE Planned(job[p], Max(near), files[Max(near)].state))

-----------------------------------------------------------------------------
(* Writing a file: _write_replay_output_atomic, _atomic_write_text.        *)

Content(j) == IF Target(j) = OutputFile THEN j.frame ELSE j.checkpoint

\* Opened for writing: created, or emptied under another writer's hands.
Open(p) ==
  /\ job[p].at = "open"
  /\ temp' = [temp EXCEPT ![Target(job[p])] = Nothing]
  /\ job' = [job EXCEPT ![p].at = "fill", ![p].holds = "temp"]
  /\ UNCHANGED <<series, files>>

\* What a write leaves: the content, or garbage where another wrote too.
Written(p, old) ==
  {Content(job[p])} \cup
  (IF \/ old # Nothing
      \/ job[p].holds = "target"
      \/ \E q \in Callers \ {p} : Writing(q, Target(job[p]))
   THEN {Nothing} ELSE {})

\* The content goes where the opened file is now.
Fill(p) ==
  LET n == Target(job[p])
  IN  /\ job[p].at = "fill"
      /\ CASE job[p].holds = "temp" ->
                /\ \E c \in Written(p, temp[n]) : temp' = [temp EXCEPT ![n] = c]
                /\ UNCHANGED files
           [] job[p].holds = "target" ->
                /\ \E c \in Written(p, files[n]) : files' = [files EXCEPT ![n] = c]
                /\ UNCHANGED temp
           [] OTHER -> UNCHANGED <<files, temp>>
      /\ job' = [job EXCEPT ![p].at = "move"]
      /\ UNCHANGED series

\* The open files of the other writers of n after n was moved once more.
Displaced(j, n) ==
  IF j.at \in {"fill", "move"} /\ Target(j) = n
  THEN [j EXCEPT !.holds = IF @ = "temp" THEN "target" ELSE "gone"]
  ELSE j

\* Mutant: the next file is started with the last one still held.
OnwardHolding(j) ==
  LET left == j.todo \ {Target(j)}
  IN  IF left = {} THEN Done(j, j.frame)
      ELSE [j EXCEPT !.at = "open", !.todo = left]

\* The writer goes on to its next file, or is done.
Onward(j) ==
  LET left == j.todo \ {Target(j)}
  IN  IF left = {} THEN Done(j, j.frame)
      ELSE [j EXCEPT !.at = "open", !.todo = left, !.holds = "none"]

\* os.replace.
Move(p) ==
  LET n == Target(job[p])
  IN  /\ job[p].at = "move"
      /\ temp[n] # NoTemp
      /\ files' = [files EXCEPT ![n] = temp[n]]
      /\ temp' = [temp EXCEPT ![n] = NoTemp]
      /\ job' = [q \in Callers |-> IF q = p THEN Onward(job[p])
                                   ELSE Displaced(job[q], n)]
      /\ UNCHANGED series

\* Another thread has moved the file: FileNotFoundError ends the run.
MoveFails(p) ==
  /\ job[p].at = "move"
  /\ temp[Target(job[p])] = NoTemp
  /\ Moves(p, Idle)

Return(p) ==
  /\ job[p].at = "done"
  /\ Moves(p, Idle)

-----------------------------------------------------------------------------
\* The server is restarted; the new process has temporary names of its own.
Crash ==
  /\ Restarts
  /\ temp' = [n \in Files |-> NoTemp]
  /\ job' = [p \in Callers |-> Idle]
  /\ UNCHANGED <<series, files>>

Replays(p) ==
  \/ ReadOutput(p) \/ ReadLatest(p) \/ ReadCheckpoint(p)
  \/ Open(p) \/ Fill(p) \/ Move(p) \/ MoveFails(p) \/ Return(p)

Next ==
  \/ \E s \in Series : StartRefresh(s)
  \/ \E p \in Requests : StartRequest(p)
  \/ \E p \in Callers : Replays(p)
  \/ Crash

Spec == Init /\ [][Next]_vars

-----------------------------------------------------------------------------
(* Properties.                                                             *)

\* What a file may hold: a periodic checkpoint is of the minute of its name.
Kind(n) ==
  IF n = OutputFile THEN Frames
  ELSE {c \in Checkpoints : n = LatestFile \/ c.last = n}

\* A caller has what its place needs: a file to write, or one it holds open.
Coherent(j) ==
  /\ j.at = "checkpoint" => j.latest # Nothing
  /\ Writes(j) => /\ j.todo # {}
                  /\ j.todo \subseteq {OutputFile, j.checkpoint.last, LatestFile}
                  /\ j.frame # Nothing
                  /\ j.checkpoint # Nothing
  /\ j.at \in {"fill", "move"} <=> j.holds # "none"

TypeOK ==
  /\ series \in Series
  /\ files \in [Files -> Contents \cup {Nothing}]
  /\ temp \in [Files -> Contents \cup {Nothing, NoTemp}]
  /\ \A n \in Files : /\ files[n] \in Kind(n) \cup {Nothing}
                     /\ temp[n] \in Kind(n) \cup {Nothing, NoTemp}
  /\ job \in [Callers -> Jobs]
  /\ \A p \in Callers : Coherent(job[p])

(***************************************************************************)
(* Every checkpoint on disk holds the state that a replay of the store     *)
(* from scratch has at its minute: whichever threads wrote the files, in   *)
(* whatever order, into one temporary file or into the file itself, and    *)
(* wherever the server was killed, what is resumed is never wrong, even    *)
(* when rows of the output are.                                            *)
(***************************************************************************)
CheckpointsAreReplayStates ==
  \A p \in Callers :
    LET run == ReplayFrom(Engine, Eligible(Window(p, series)), Start, 0)
    IN  \A n \in Files \ {OutputFile} :
          files[n] # Nothing => files[n].state = run[files[n].last]

(***************************************************************************)
(* A refresh that found new minutes publishes a replay from scratch of the *)
(* store, be it from the first minute of another caller's window.          *)
(***************************************************************************)
RefreshIsDeterministic ==
  LET j == job[Refresh]
  IN  j.at = "done" /\ j.mutation.changed =>
        \E p \in Callers :
          IsReplayOf(j.frame, Engine, Eligible(Window(p, series)))
=============================================================================
