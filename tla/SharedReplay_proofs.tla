------------------------- MODULE SharedReplay_proofs -------------------------
(***************************************************************************)
(* What holds of the files of a pair for every set of requests, timeline,  *)
(* engine and cutoff, however the replays of the pair overlap, share their *)
(* temporary files and are killed.                                         *)
(***************************************************************************)
EXTENDS SharedReplay, ReplayFrames_proofs

(***************************************************************************)
(* The names of the files are numbers, in the order they are written.      *)
(***************************************************************************)
LEMMA FileNames ==
  /\ MaxTs \in Nat /\ Files = 0 .. MaxTs + 1 /\ MaxTs + 1 \in Nat
  /\ OutputFile \in Files /\ LatestFile \in Files /\ LatestFile # OutputFile
  /\ \A t \in Ts : t \in Files /\ t # OutputFile /\ t # LatestFile
  /\ \A n \in Files : Kind(n) \subseteq Contents
  /\ \A n \in Files : n # OutputFile => Kind(n) \subseteq Checkpoints
<1>1. MaxTs \in Nat
  BY SeriesAssumption
<1>2. \A n \in Files : Kind(n) \subseteq Contents
  BY DEF Kind, Contents
<1>3. \A n \in Files : n # OutputFile => Kind(n) \subseteq Checkpoints
  BY DEF Kind
<1> QED BY <1>1, <1>2, <1>3 DEF Files, OutputFile, LatestFile, Ts

(***************************************************************************)
(* A caller that runs no replay.                                           *)
(***************************************************************************)
LEMMA IdleType == Idle \in Jobs /\ Coherent(Idle)
<1>1. EmptySeries \in Series
  BY DEF EmptySeries, Series
<1>2. [changed |-> FALSE, after |-> NoWatermark] \in Mutations
  BY DEF Mutations
<1>3. Idle \in Jobs
  BY <1>1, <1>2 DEF Idle, Jobs, Places
<1>4. Coherent(Idle)
  BY DEF Idle, Coherent, Writes
<1> QED BY <1>3, <1>4

(***************************************************************************)
(* A caller that has its result.                                           *)
(***************************************************************************)
LEMMA DoneType ==
  ASSUME NEW j \in Jobs, NEW frame \in Frames
  PROVE  Done(j, frame) \in Jobs /\ Coherent(Done(j, frame))
<1>1. /\ Idle \in Jobs /\ j.mutation \in Mutations
      /\ Idle.rows = EmptySeries /\ Idle.todo = {} /\ Idle.holds = "none"
  BY IdleType DEF Idle, Jobs
<1>2. Done(j, frame) \in Jobs
  BY <1>1 DEF Done, Jobs, Places
<1>3. /\ Done(j, frame).at = "done"
      /\ Done(j, frame).holds = "none"
  BY <1>1 DEF Done, Jobs
<1>4. Coherent(Done(j, frame))
  BY <1>3 DEF Coherent, Writes
<1> QED BY <1>2, <1>4

(***************************************************************************)
(* What a run plans to write: a frame, and a checkpoint of a minute of the *)
(* timeline (run_true_incremental_replay).                                 *)
(***************************************************************************)
LEMMA PlannedType ==
  ASSUME NEW j \in Jobs, j.holds = "none", NEW k \in 0 .. MaxTs, NEW st \in States
  PROVE  Planned(j, k, st) \in Jobs /\ Coherent(Planned(j, k, st))
<1> DEFINE empty == NewRows(j, k) = {}
           base  == BasePrefix(j, k)
           frame == IF empty THEN base ELSE Extend(Engine, base, k, j.rows, st)
           last  == IF empty THEN k ELSE LastTs(j.rows)
           final == IF empty THEN st ELSE frame.trace[MaxTs]
           emit  == ~ empty /\ ShouldEmit(j, last, final)
           check == [last |-> last, state |-> final, after |-> j.mutation.after,
                     last_periodic |-> IF emit THEN last ELSE LastPeriodic(j)]
           new   == [j EXCEPT !.at = "open", !.output = Nothing,
                              !.latest = Nothing, !.frame = frame,
                              !.checkpoint = check,
                              !.todo = {OutputFile, LatestFile} \cup
                                       (IF emit THEN {last} ELSE {})]
<1>1. /\ MaxTs \in Nat /\ Engine \in Engines /\ j.rows \in Series
      /\ j.output \in Frames \cup {Nothing}
      /\ j.latest \in Checkpoints \cup {Nothing} /\ j.mutation \in Mutations
  BY SeriesAssumption, SharedAssumption DEF Jobs
<1>2. CASE empty /\ Times(base.rows) = {}
  <2>1. Planned(j, k, st) = Idle
    BY <1>2, Zenon DEF Planned
  <2> QED BY <2>1, IdleType
<1>3. CASE ~ (empty /\ Times(base.rows) = {})
  <2>1. Planned(j, k, st) = new
    BY <1>3, Zenon DEF Planned
  <2>2. base \in Frames
    BY <1>1, PrefixType, EmptyFrameType DEF BasePrefix
  <2>3. frame \in Frames
    <3> HIDE DEF base
    <3> QED BY <1>1, <2>2, ExtendType
  <2>4. last \in Ts
    <3>1. CASE empty
      <4>1. k # 0
        BY <1>3, <3>1 DEF BasePrefix, EmptyFrame, EmptySeries, Times
      <4> QED BY <1>1, <3>1, <4>1 DEF Ts
    <3>2. CASE ~ empty
      <4>1. Times(j.rows) # {}
        BY <3>2 DEF NewRows
      <4> QED BY <1>1, <3>2, <4>1, LastTsFacts DEF Times
    <3> QED BY <3>1, <3>2
  <2>5. final \in States
    <3> HIDE DEF frame
    <3>1. frame.trace[MaxTs] \in States
      BY <1>1, <2>3 DEF Frames
    <3> QED BY <3>1
  <2>6. LastPeriodic(j) \in 0 .. MaxTs
    BY <1>1 DEF LastPeriodic, Checkpoints
  <2> HIDE DEF frame, last, final, emit, empty, base
  <2>7. check \in Checkpoints
    <3>1. (IF emit THEN last ELSE LastPeriodic(j)) \in 0 .. MaxTs
      BY <1>1, <2>4, <2>6 DEF Ts
    <3>2. j.mutation.after \in Watermarks \cup {NoWatermark}
      BY <1>1 DEF Mutations
    <3> QED BY <2>4, <2>5, <3>1, <3>2 DEF Checkpoints
  <2>8. check.last = last
    OBVIOUS
  <2> HIDE DEF check
  <2>9. {OutputFile, LatestFile} \cup (IF emit THEN {last} ELSE {}) \in SUBSET Files
    BY <2>4, FileNames
  <2>10. new \in Jobs
    BY <2>3, <2>7, <2>9 DEF Jobs, Places
  <2>11. frame # Nothing /\ check # Nothing
    BY <2>3, <2>7, NothingAssumption DEF Contents
  <2>12. Coherent(new)
    BY <2>8, <2>11 DEF Coherent, Writes, Jobs
  <2> QED BY <2>1, <2>10, <2>12
<1> QED BY <1>2, <1>3

(***************************************************************************)
(* The file a caller writes is one of those left, and what it writes there *)
(* is of its kind.                                                         *)
(***************************************************************************)
LEMMA TargetType ==
  ASSUME NEW j \in Jobs, Coherent(j), Writes(j)
  PROVE  /\ Target(j) \in j.todo /\ Target(j) \in Files
         /\ Content(j) \in Kind(Target(j))
         /\ Content(j) = j.frame \/ Content(j) = j.checkpoint
         /\ Target(j) # OutputFile => Content(j) = j.checkpoint
<1>1. j.todo \in SUBSET (0 .. MaxTs + 1) /\ j.todo # {} /\ MaxTs + 1 \in Nat
  BY FileNames DEF Jobs, Files, Coherent
<1>2. Target(j) \in j.todo
  BY <1>1, MinOfBounded DEF Target
<1>3. Target(j) \in {OutputFile, j.checkpoint.last, LatestFile}
  BY <1>2 DEF Coherent
<1>4. /\ j.frame \in Frames /\ j.checkpoint \in Checkpoints
  BY DEF Jobs, Coherent
<1>5. Content(j) \in Kind(Target(j))
  BY <1>3, <1>4 DEF Content, Kind
<1> QED BY <1>1, <1>2, <1>5 DEF Content, Files

(***************************************************************************)
(* The invariant holds while nothing is on disk.                           *)
(***************************************************************************)
LEMMA InitType == Init => TypeOK
<1> SUFFICES ASSUME Init PROVE TypeOK
  OBVIOUS
<1>1. EmptySeries \in Series
  BY DEF EmptySeries, Series
<1>2. Idle \in Jobs /\ Coherent(Idle)
  BY IdleType
<1> QED BY <1>1, <1>2 DEF Init, TypeOK

(***************************************************************************)
(* A step in which one caller goes on and no file changes.                 *)
(***************************************************************************)
LEMMA MovesType ==
  ASSUME TypeOK, NEW p \in Callers, NEW j \in Jobs, Coherent(j), Moves(p, j)
  PROVE  TypeOK'
<1>1. job' = [job EXCEPT ![p] = j] /\ UNCHANGED <<series, files, temp>>
  BY DEF Moves
<1>2. job' \in [Callers -> Jobs]
  BY <1>1 DEF TypeOK
<1>3. \A q \in Callers : Coherent(job'[q])
  BY <1>1 DEF TypeOK
<1> QED BY <1>1, <1>2, <1>3 DEF TypeOK

(***************************************************************************)
(* A refresh or a request starts: what was printed is appended, and the    *)
(* rows of the window are loaded.                                          *)
(***************************************************************************)
LEMMA LoadsType ==
  ASSUME TypeOK, NEW p \in Callers, NEW s \in Series, NEW m \in Mutations,
         Loads(p, s, m), series' \in Series
  PROVE  TypeOK'
<1> DEFINE loaded == [Idle EXCEPT !.at = "output", !.rows = Eligible(Window(p, s)),
                                  !.mutation = m]
           j == IF Times(Window(p, s)) = {} THEN Idle ELSE loaded
<1>1. Window(p, s) \in Series
  BY DEF Window, Series
<1>2. Eligible(Window(p, s)) \in Series
  BY <1>1, SeriesTypes
<1>3. loaded \in Jobs
  BY <1>2, IdleType DEF Jobs, Places
<1>4. loaded.at = "output" /\ loaded.holds = "none"
  BY IdleType DEF Idle, Jobs
<1>5. Coherent(loaded)
  BY <1>4 DEF Coherent, Writes
<1>6. j \in Jobs /\ Coherent(j)
  BY <1>3, <1>5, IdleType
<1>7. job' = [job EXCEPT ![p] = j] /\ UNCHANGED <<files, temp>>
  BY Zenon DEF Loads
<1> HIDE DEF j
<1>8. job' \in [Callers -> Jobs] /\ \A q \in Callers : Coherent(job'[q])
  BY <1>6, <1>7 DEF TypeOK
<1> QED BY <1>7, <1>8 DEF TypeOK

LEMMA StartsType ==
  ASSUME TypeOK,
         \/ \E s \in Series : StartRefresh(s)
         \/ \E p \in Requests : StartRequest(p)
  PROVE  TypeOK'
<1>1. CASE \E s \in Series : StartRefresh(s)
  <2>1. PICK s \in Series : StartRefresh(s)
    BY <1>1
  <2> DEFINE m == [changed |-> s # series, after |-> Watermark(s)]
  <2>2. m \in Mutations
    BY SeriesTypes DEF Mutations
  <2>3. series' = s /\ Loads(Refresh, s, m)
    BY <2>1 DEF StartRefresh
  <2> HIDE DEF m
  <2> QED BY <2>2, <2>3, LoadsType DEF Callers
<1>2. CASE \E p \in Requests : StartRequest(p)
  <2>1. PICK p \in Requests : StartRequest(p)
    BY <1>2
  <2>2. [changed |-> FALSE, after |-> NoWatermark] \in Mutations
    BY DEF Mutations
  <2>3. /\ series \in Series /\ series' = series /\ p \in Callers
        /\ Loads(p, series, [changed |-> FALSE, after |-> NoWatermark])
    BY <2>1 DEF StartRequest, TypeOK, Callers
  <2> QED BY <2>2, <2>3, LoadsType
<1> QED BY <1>1, <1>2

(***************************************************************************)
(* What a caller reads of a file is of its kind, or cannot be read.        *)
(***************************************************************************)
LEMMA ReadingsType ==
  ASSUME TypeOK, NEW n \in Files, NEW c \in Readings(n)
  PROVE  c \in Kind(n) \cup {Nothing} /\ (c = files[n] \/ c = Nothing)
  BY DEF TypeOK, Readings

(***************************************************************************)
(* The last periodic checkpoint before the overlap.                        *)
(***************************************************************************)
LEMMA NearestType ==
  ASSUME TypeOK, NEW near \in SUBSET Ts, \A k \in near : files[k] # Nothing,
         near # {}
  PROVE  /\ Max(near) \in near /\ Max(near) \in 0 .. MaxTs /\ Max(near) \in Files
         /\ Max(near) # OutputFile
         /\ files[Max(near)] \in Checkpoints /\ files[Max(near)].last = Max(near)
         /\ files[Max(near)].state \in States
<1>1. near \in SUBSET (0 .. MaxTs) /\ MaxTs \in Nat
  BY FileNames DEF Ts
<1>2. Max(near) \in near
  BY <1>1, MaxOfBounded
<1>3. /\ Max(near) \in Files /\ Max(near) # OutputFile /\ Max(near) # LatestFile
  BY <1>2, FileNames
<1>4. files[Max(near)] \in Kind(Max(near))
  BY <1>2, <1>3 DEF TypeOK
<1>5. files[Max(near)] \in Checkpoints /\ files[Max(near)].last = Max(near)
  BY <1>3, <1>4 DEF Kind
<1> QED BY <1>1, <1>2, <1>3, <1>5 DEF Checkpoints

(***************************************************************************)
(* A step that reads a file.                                               *)
(***************************************************************************)
LEMMA ReadsType ==
  ASSUME TypeOK, NEW p \in Callers,
         ReadOutput(p) \/ ReadLatest(p) \/ ReadCheckpoint(p)
  PROVE  TypeOK'
<1>1. /\ job[p] \in Jobs /\ Coherent(job[p])
      /\ job[p].at \in {"output", "latest", "checkpoint"} => job[p].holds = "none"
  BY DEF TypeOK, Coherent, Jobs
<1>2. CASE ReadOutput(p)
  <2>1. PICK output \in Readings(OutputFile) :
          Moves(p, [job[p] EXCEPT !.at = "latest", !.output = output])
    BY <1>2 DEF ReadOutput
  <2> DEFINE j == [job[p] EXCEPT !.at = "latest", !.output = output]
  <2>2. output \in Frames \cup {Nothing}
    BY <2>1, ReadingsType, FileNames DEF Kind
  <2>3. j \in Jobs
    BY <1>1, <2>2 DEF Jobs, Places
  <2>4. j.at = "latest" /\ j.holds = "none"
    BY <1>1, <1>2 DEF ReadOutput, Jobs
  <2>5. Coherent(j)
    BY <2>4 DEF Coherent, Writes
  <2> HIDE DEF j
  <2> QED BY <2>1, <2>3, <2>5, MovesType DEF j
<1>3. CASE ReadLatest(p)
  <2>1. PICK latest \in Readings(LatestFile) :
          LET j == [job[p] EXCEPT !.latest = latest]
          IN  \/ /\ Reusable(j)
                 /\ Moves(p, IF j.output = Nothing THEN Idle ELSE Done(j, j.output))
              \/ /\ ~ Reusable(j)
                 /\ FromScratch(j)
                 /\ Moves(p, Planned(j, 0, Start))
              \/ /\ ~ Reusable(j)
                 /\ AppendOnly(j)
                 /\ Moves(p, Planned(j, latest.last, latest.state))
              \/ /\ ~ Reusable(j)
                 /\ ~ FromScratch(j)
                 /\ ~ AppendOnly(j)
                 /\ Moves(p, [j EXCEPT !.at = "checkpoint"])
    BY <1>3, Zenon DEF ReadLatest
  <2> DEFINE j == [job[p] EXCEPT !.latest = latest]
             reused == IF j.output = Nothing THEN Idle ELSE Done(j, j.output)
             looks == [j EXCEPT !.at = "checkpoint"]
  <2>2. latest \in Checkpoints \cup {Nothing}
    BY <2>1, ReadingsType, FileNames
  <2>3. /\ j \in Jobs /\ j.latest = latest /\ j.holds = "none" /\ j.at = "latest"
    BY <1>1, <1>3, <2>2 DEF Jobs, ReadLatest
  <2>4. reused \in Jobs /\ Coherent(reused)
    <3>1. CASE j.output = Nothing
      BY <3>1, IdleType
    <3>2. CASE j.output # Nothing
      <4>1. j.output \in Frames
        BY <2>3, <3>2 DEF Jobs
      <4> HIDE DEF j
      <4> QED BY <2>3, <3>2, <4>1, DoneType
    <3> QED BY <3>1, <3>2
  <2>5. 0 \in 0 .. MaxTs /\ Start \in States
    BY FileNames, EngineAssumption
  <2>6. ASSUME latest # Nothing
        PROVE  latest.last \in 0 .. MaxTs /\ latest.state \in States
    BY <2>2, <2>6, FileNames DEF Checkpoints, Ts
  <2>7. ASSUME ~ FromScratch(j) PROVE latest # Nothing
    BY <2>3, <2>7 DEF FromScratch
  <2>8. AppendOnly(j) => ~ FromScratch(j)
    BY DEF AppendOnly
  <2>9. ASSUME ~ FromScratch(j) PROVE looks \in Jobs /\ Coherent(looks)
    <3>1. looks \in Jobs
      BY <2>3 DEF Jobs, Places
    <3>2. looks.at = "checkpoint" /\ looks.holds = "none" /\ looks.latest # Nothing
      BY <2>3, <2>7, <2>9 DEF Jobs
    <3> HIDE DEF looks
    <3> QED BY <3>1, <3>2 DEF Coherent, Writes
  <2> HIDE DEF j, reused
  <2>10. \/ Moves(p, reused)
         \/ Moves(p, Planned(j, 0, Start))
         \/ AppendOnly(j) /\ Moves(p, Planned(j, latest.last, latest.state))
         \/ ~ FromScratch(j) /\ Moves(p, looks)
    BY <2>1, Zenon DEF j, reused
  <2> HIDE DEF looks
  <2>11. CASE Moves(p, reused)
    BY <2>4, <2>11, MovesType
  <2>12. CASE Moves(p, Planned(j, 0, Start))
    BY <2>3, <2>5, <2>12, PlannedType, MovesType
  <2>13. CASE AppendOnly(j) /\ Moves(p, Planned(j, latest.last, latest.state))
    <3>1. latest.last \in 0 .. MaxTs /\ latest.state \in States
      BY <2>6, <2>7, <2>8, <2>13
    <3>2. Planned(j, latest.last, latest.state) \in Jobs
          /\ Coherent(Planned(j, latest.last, latest.state))
      BY <2>3, <3>1, PlannedType
    <3> QED BY <2>13, <3>2, MovesType
  <2>14. CASE ~ FromScratch(j) /\ Moves(p, looks)
    BY <2>9, <2>14, MovesType
  <2> QED BY <2>10, <2>11, <2>12, <2>13, <2>14
<1>4. CASE ReadCheckpoint(p)
  <2>1. PICK torn \in SUBSET {k \in Ts : InPlace(k)} :
          LET near == {k \in Ts \ torn : /\ files[k] # Nothing
                                         /\ k <= job[p].latest.last - Overlap}
          IN  Moves(p, IF near = {} THEN Planned(job[p], 0, Start)
                       ELSE Planned(job[p], Max(near), files[Max(near)].state))
    BY <1>4, Zenon DEF ReadCheckpoint
  <2> DEFINE near == {k \in Ts \ torn : /\ files[k] # Nothing
                                        /\ k <= job[p].latest.last - Overlap}
  <2>2. near \in SUBSET Ts /\ \A k \in near : files[k] # Nothing
    OBVIOUS
  <2>3. job[p].holds = "none"
    BY <1>1, <1>4 DEF ReadCheckpoint
  <2> HIDE DEF near
  <2>4. CASE near = {}
    <3>1. Moves(p, Planned(job[p], 0, Start))
      BY <2>1, <2>4, Zenon DEF near
    <3>2. 0 \in 0 .. MaxTs /\ Start \in States
      BY FileNames, EngineAssumption
    <3> QED BY <1>1, <2>3, <3>1, <3>2, PlannedType, MovesType
  <2>5. CASE near # {}
    <3> DEFINE k == Max(near)
    <3>1. Moves(p, Planned(job[p], k, files[k].state))
      BY <2>1, <2>5, Zenon DEF near
    <3>2. k \in 0 .. MaxTs /\ files[k].state \in States
      BY <2>2, <2>5, NearestType
    <3> HIDE DEF k
    <3>3. /\ Planned(job[p], k, files[k].state) \in Jobs
          /\ Coherent(Planned(job[p], k, files[k].state))
      BY <1>1, <2>3, <3>2, PlannedType
    <3> QED BY <3>1, <3>3, MovesType
  <2> QED BY <2>4, <2>5
<1> QED BY <1>2, <1>3, <1>4

(***************************************************************************)
(* A step that writes a file: the temporary file is opened and filled.     *)
(***************************************************************************)
LEMMA FillsType ==
  ASSUME TypeOK, NEW p \in Callers, Open(p) \/ Fill(p)
  PROVE  TypeOK'
<1> DEFINE n == Target(job[p])
<1>1. /\ job[p] \in Jobs /\ Coherent(job[p]) /\ Writes(job[p])
  BY DEF TypeOK, Open, Fill, Writes
<1>2. n \in Files /\ Content(job[p]) \in Kind(n) /\ Kind(n) \subseteq Contents
  BY <1>1, TargetType, FileNames
<1> HIDE DEF n
<1>3. CASE Open(p)
  <2>1. /\ temp' = [temp EXCEPT ![n] = Nothing] /\ UNCHANGED <<series, files>>
        /\ job' = [job EXCEPT ![p].at = "fill", ![p].holds = "temp"]
    BY <1>3 DEF Open, n
  <2> DEFINE j == [job[p] EXCEPT !.at = "fill", !.holds = "temp"]
  <2>2. j \in Jobs
    BY <1>1 DEF Jobs, Places
  <2>3. /\ j.at = "fill" /\ j.holds = "temp" /\ j.todo = job[p].todo
        /\ j.checkpoint = job[p].checkpoint /\ j.frame = job[p].frame
    BY <1>1 DEF Jobs
  <2>4. job' = [job EXCEPT ![p] = j]
    BY <2>1 DEF TypeOK
  <2> HIDE DEF j
  <2>5. Coherent(j)
    BY <1>1, <2>3 DEF Coherent, Writes
  <2>6. job' \in [Callers -> Jobs] /\ \A q \in Callers : Coherent(job'[q])
    BY <2>2, <2>4, <2>5 DEF TypeOK
  <2>7. /\ temp' \in [Files -> Contents \cup {Nothing, NoTemp}]
        /\ \A m \in Files : temp'[m] \in Kind(m) \cup {Nothing, NoTemp}
    BY <1>2, <2>1 DEF TypeOK
  <2> QED BY <2>1, <2>6, <2>7 DEF TypeOK
<1>4. CASE Fill(p)
  <2>1. /\ job[p].at = "fill" /\ UNCHANGED series
        /\ job' = [job EXCEPT ![p].at = "move"]
    BY <1>4 DEF Fill
  <2>2. \/ \E c \in Written(p, temp[n]) :
             temp' = [temp EXCEPT ![n] = c] /\ files' = files
        \/ \E c \in Written(p, files[n]) :
             files' = [files EXCEPT ![n] = c] /\ temp' = temp
        \/ temp' = temp /\ files' = files
    BY <1>4 DEF Fill, n
  <2>3. \A old : Written(p, old) \subseteq {Content(job[p]), Nothing}
    BY DEF Written
  <2>4. /\ temp' \in [Files -> Contents \cup {Nothing, NoTemp}]
        /\ files' \in [Files -> Contents \cup {Nothing}]
        /\ \A m \in Files : /\ temp'[m] \in Kind(m) \cup {Nothing, NoTemp}
                           /\ files'[m] \in Kind(m) \cup {Nothing}
    BY <1>2, <2>2, <2>3 DEF TypeOK
  <2> DEFINE j == [job[p] EXCEPT !.at = "move"]
  <2>5. j \in Jobs
    BY <1>1 DEF Jobs, Places
  <2>6. /\ j.at = "move" /\ j.holds = job[p].holds /\ j.todo = job[p].todo
        /\ j.checkpoint = job[p].checkpoint /\ j.frame = job[p].frame
    BY <1>1 DEF Jobs
  <2>7. job' = [job EXCEPT ![p] = j]
    BY <2>1 DEF TypeOK
  <2> HIDE DEF j
  <2>8. Coherent(j)
    BY <1>1, <2>1, <2>6 DEF Coherent, Writes
  <2>9. job' \in [Callers -> Jobs] /\ \A q \in Callers : Coherent(job'[q])
    BY <2>5, <2>7, <2>8 DEF TypeOK
  <2> QED BY <2>1, <2>4, <2>9 DEF TypeOK
<1> QED BY <1>3, <1>4

(***************************************************************************)
(* A writer that moved its file goes on; the others that had it open now   *)
(* hold the target, or a file that is gone.                                *)
(***************************************************************************)
LEMMA OnwardType ==
  ASSUME NEW j \in Jobs, Coherent(j), Writes(j), NEW n \in Files
  PROVE  /\ Onward(j) \in Jobs /\ Coherent(Onward(j))
         /\ Displaced(j, n) \in Jobs /\ Coherent(Displaced(j, n))
<1> DEFINE left == j.todo \ {Target(j)}
           next == [j EXCEPT !.at = "open", !.todo = left, !.holds = "none"]
           moved == [j EXCEPT !.holds = IF @ = "temp" THEN "target" ELSE "gone"]
<1>1. j.frame \in Frames /\ left \in SUBSET Files
  BY DEF Jobs, Coherent
<1>2. next \in Jobs
  BY <1>1 DEF Jobs, Places
<1>3. ASSUME left # {} PROVE Coherent(next)
  <2>1. /\ next.at = "open" /\ next.holds = "none" /\ next.todo = left
        /\ next.checkpoint = j.checkpoint /\ next.frame = j.frame
    BY DEF Jobs
  <2> HIDE DEF next
  <2> QED BY <1>3, <2>1 DEF Coherent, Writes
<1>4. Onward(j) = IF left = {} THEN Done(j, j.frame) ELSE next
  BY Zenon DEF Onward
<1>5. ASSUME j.at \in {"fill", "move"} PROVE moved \in Jobs /\ Coherent(moved)
  <2>1. moved \in Jobs
    BY DEF Jobs
  <2>2. /\ moved.at = j.at /\ moved.holds # "none" /\ moved.todo = j.todo
        /\ moved.checkpoint = j.checkpoint /\ moved.frame = j.frame
        /\ moved.latest = j.latest
    BY DEF Jobs
  <2> HIDE DEF moved
  <2> QED BY <1>5, <2>1, <2>2 DEF Coherent, Writes
<1>6. \/ j.at \in {"fill", "move"} /\ Displaced(j, n) = moved
      \/ Displaced(j, n) = j
  BY Zenon DEF Displaced
<1> HIDE DEF next, moved, left
<1>7. Onward(j) \in Jobs /\ Coherent(Onward(j))
  BY <1>1, <1>2, <1>3, <1>4, DoneType
<1> QED BY <1>5, <1>6, <1>7

LEMMA MoveType ==
  ASSUME TypeOK, NEW p \in Callers, Move(p)
  PROVE  TypeOK'
<1> DEFINE n == Target(job[p])
<1>1. /\ job[p] \in Jobs /\ Coherent(job[p]) /\ Writes(job[p])
  BY DEF TypeOK, Move, Writes
<1>2. n \in Files /\ Kind(n) \subseteq Contents
  BY <1>1, TargetType, FileNames
<1>3. /\ temp[n] # NoTemp /\ UNCHANGED series
      /\ files' = [files EXCEPT ![n] = temp[n]]
      /\ temp' = [temp EXCEPT ![n] = NoTemp]
      /\ job' = [q \in Callers |-> IF q = p THEN Onward(job[p])
                                   ELSE Displaced(job[q], n)]
  BY Zenon DEF Move
<1> HIDE DEF n
<1>4. ASSUME NEW q \in Callers
      PROVE  job'[q] \in Jobs /\ Coherent(job'[q])
  <2>1. job[q] \in Jobs /\ Coherent(job[q])
    BY DEF TypeOK
  <2>2. CASE q = p
    BY <1>1, <1>2, <1>3, <2>2, OnwardType
  <2>3. CASE q # p /\ Writes(job[q])
    BY <1>2, <1>3, <2>1, <2>3, OnwardType
  <2>4. CASE q # p /\ ~ Writes(job[q])
    BY <1>3, <2>1, <2>4 DEF Displaced, Writes
  <2> QED BY <2>2, <2>3, <2>4
<1>5. job' \in [Callers -> Jobs]
  BY <1>3, <1>4
<1>6. /\ temp' \in [Files -> Contents \cup {Nothing, NoTemp}]
      /\ files' \in [Files -> Contents \cup {Nothing}]
      /\ \A m \in Files : /\ temp'[m] \in Kind(m) \cup {Nothing, NoTemp}
                         /\ files'[m] \in Kind(m) \cup {Nothing}
  BY <1>2, <1>3 DEF TypeOK
<1> QED BY <1>3, <1>4, <1>5, <1>6 DEF TypeOK

(***************************************************************************)
(* Every step keeps the types.                                             *)
(***************************************************************************)
LEMMA NextType == TypeOK /\ [Next]_vars => TypeOK'
<1> SUFFICES ASSUME TypeOK, [Next]_vars PROVE TypeOK'
  OBVIOUS
<1>1. CASE \/ \E s \in Series : StartRefresh(s)
           \/ \E p \in Requests : StartRequest(p)
  BY <1>1, StartsType
<1>2. ASSUME NEW p \in Callers, Replays(p) PROVE TypeOK'
  <2>1. CASE ReadOutput(p) \/ ReadLatest(p) \/ ReadCheckpoint(p)
    BY <2>1, ReadsType
  <2>2. CASE Open(p) \/ Fill(p)
    BY <2>2, FillsType
  <2>3. CASE Move(p)
    BY <2>3, MoveType
  <2>4. CASE MoveFails(p) \/ Return(p)
    BY <2>4, IdleType, MovesType DEF MoveFails, Return
  <2> QED BY <1>2, <2>1, <2>2, <2>3, <2>4 DEF Replays
<1>3. CASE Crash
  <2>1. /\ temp' = [n \in Files |-> NoTemp] /\ job' = [p \in Callers |-> Idle]
        /\ UNCHANGED <<series, files>>
    BY <1>3 DEF Crash
  <2> QED BY <2>1, IdleType DEF TypeOK
<1>4. CASE UNCHANGED vars
  BY <1>4 DEF vars, TypeOK
<1> QED BY <1>1, <1>2, <1>3, <1>4 DEF Next

(***************************************************************************)
(* Every file holds, or cannot be read as, what its name says, whichever   *)
(* threads shared its temporary file (_atomic_write_text), and a thread    *)
(* holds a file open exactly while it writes one of its own run.           *)
(***************************************************************************)
THEOREM SharedTypes == Spec => []TypeOK
<1> QED BY InitType, NextType, PTL DEF Spec

-----------------------------------------------------------------------------
(***************************************************************************)
(* All callers over the days of the refresh, as _unified_snapshot is: the  *)
(* store they replay is one, and every checkpoint is a state of its run.   *)
(* That of a caller with a window of its own (build_unified_spread_series) *)
(* is not.                                                                 *)
(***************************************************************************)
SameWindow == \A p \in Callers : From[p] = From[Refresh]

\* The rows that a replay of the store covers now.
Shown == Eligible(Window(Refresh, series))

OnStore(c) == OnRun(Engine, Shown, c.last, c.state)

\* A caller loaded what was shown then, and read or made states of its run.
JobStates(j) ==
  /\ Grows(j.rows, Shown)
  /\ j.latest # Nothing => OnStore(j.latest)
  /\ j.checkpoint # Nothing => OnStore(j.checkpoint)

FileStates ==
  \A n \in Files : n # OutputFile =>
    /\ files[n] # Nothing => OnStore(files[n])
    /\ temp[n] \notin {Nothing, NoTemp} => OnStore(temp[n])

StatesInv == FileStates /\ \A p \in Callers : JobStates(job[p])

SharedInv == TypeOK /\ StatesInv

LEMMA ShownType ==
  ASSUME TypeOK
  PROVE  Shown \in Series /\ Engine \in Engines
<1>1. Window(Refresh, series) \in Series
  BY DEF TypeOK, Window, Series
<1> QED BY <1>1, SeriesTypes, SharedAssumption DEF Shown

(***************************************************************************)
(* What is appended to the store is appended to what is shown of it.       *)
(***************************************************************************)
LEMMA ShownGrows ==
  ASSUME TypeOK, series' \in Series, Grows(series, series')
  PROVE  /\ Shown' \in Series /\ Grows(Shown, Shown')
         /\ \A r \in Series : Grows(r, Shown) => Grows(r, Shown')
         /\ \A c \in Checkpoints : OnStore(c) => OnStore(c)'
<1> DEFINE old == Window(Refresh, series)
           new == Window(Refresh, series')
<1>1. series \in Series /\ old \in Series /\ new \in Series
  BY DEF TypeOK, Window, Series
<1>2. Grows(old, new)
  <2>1. Times(old) \subseteq Times(series)
    BY DEF Times, Window
  <2>2. LastTs(old) <= LastTs(series)
    <3> HIDE DEF old
    <3>1. /\ LastTs(old) \in 0 .. MaxTs /\ LastTs(series) \in 0 .. MaxTs
          /\ LastTs(old) # 0 => LastTs(old) \in Times(series)
      BY <1>1, <2>1, LastTsFacts
    <3>2. LastTs(old) # 0 => LastTs(old) <= LastTs(series)
      BY <1>1, <3>1, LastTsFacts
    <3> QED BY <3>1, <3>2, SeriesAssumption
  <2>3. LastTs(old) \in 0 .. MaxTs /\ LastTs(series) \in 0 .. MaxTs /\ MaxTs \in Nat
    BY <1>1, LastTsFacts, SeriesAssumption
  <2> SUFFICES ASSUME NEW t \in Ts, t <= LastTs(old) PROVE new[t] = old[t]
    BY DEF Grows
  <2>4. t <= LastTs(series)
    BY <2>2, <2>3 DEF Ts
  <2>5. series'[t] = series[t]
    BY <2>4 DEF Grows
  <2> QED BY <2>5 DEF Window
<1>3. Shown = Eligible(old) /\ Shown' = Eligible(new)
  BY DEF Shown, Window
<1> HIDE DEF old, new
<1>4. Shown \in Series /\ Shown' \in Series /\ Grows(Shown, Shown')
  BY <1>1, <1>2, <1>3, EligibleGrows, SeriesTypes
<1>5. \A r \in Series : Grows(r, Shown) => Grows(r, Shown')
  BY <1>4, GrowsTransitive
<1>6. ASSUME NEW c \in Checkpoints, OnStore(c)
      PROVE  OnRun(Engine, Shown', c.last, c.state)
  <2>1. c.last \in 0 .. MaxTs /\ Engine \in Engines
    BY FileNames, SharedAssumption DEF Checkpoints, Ts
  <2> QED BY <1>4, <1>6, <2>1, OnRunGrows DEF OnStore
<1> QED BY <1>4, <1>5, <1>6 DEF OnStore

(***************************************************************************)
(* A caller without rows, states and files holds nothing wrong.            *)
(***************************************************************************)
LEMMA RestStates ==
  ASSUME TypeOK, NEW j, NEW frame
  PROVE  JobStates(Idle) /\ JobStates(Done(j, frame))
<1>1. Grows(EmptySeries, Shown)
  <2>1. EmptySeries \in Series /\ Times(EmptySeries) = {}
    BY DEF EmptySeries, Series, Times
  <2>2. LastTs(EmptySeries) = 0
    BY <2>1 DEF LastTs
  <2> QED BY <2>2, FileNames DEF Grows, Ts
<1>2. Idle.rows = EmptySeries /\ Idle.latest = Nothing /\ Idle.checkpoint = Nothing
  BY DEF Idle
<1>3. /\ Done(j, frame).rows = EmptySeries /\ Done(j, frame).latest = Nothing
      /\ Done(j, frame).checkpoint = Nothing
  BY DEF Done, Idle
<1> QED BY <1>1, <1>2, <1>3 DEF JobStates

LEMMA InitStates == Init => StatesInv
<1> SUFFICES ASSUME Init PROVE StatesInv
  OBVIOUS
<1>1. TypeOK
  BY InitType
<1> QED BY <1>1, RestStates DEF Init, StatesInv, FileStates

(***************************************************************************)
(* A run resumed from a state of the store's run, over rows the store had, *)
(* plans a checkpoint of that run, whatever the rows of the output are.    *)
(***************************************************************************)
LEMMA PlannedStates ==
  ASSUME TypeOK, NEW j \in Jobs, j.holds = "none", Grows(j.rows, Shown),
         NEW k \in 0 .. MaxTs, NEW st \in States, OnRun(Engine, Shown, k, st)
  PROVE  JobStates(Planned(j, k, st))
<1> DEFINE empty == NewRows(j, k) = {}
           base  == BasePrefix(j, k)
           frame == IF empty THEN base ELSE Extend(Engine, base, k, j.rows, st)
           last  == IF empty THEN k ELSE LastTs(j.rows)
           final == IF empty THEN st ELSE frame.trace[MaxTs]
           emit  == ~ empty /\ ShouldEmit(j, last, final)
           check == [last |-> last, state |-> final, after |-> j.mutation.after,
                     last_periodic |-> IF emit THEN last ELSE LastPeriodic(j)]
           new   == [j EXCEPT !.at = "open", !.output = Nothing,
                              !.latest = Nothing, !.frame = frame,
                              !.checkpoint = check,
                              !.todo = {OutputFile, LatestFile} \cup
                                       (IF emit THEN {last} ELSE {})]
<1>1. CASE empty /\ Times(base.rows) = {}
  <2>1. Planned(j, k, st) = Idle
    BY <1>1, Zenon DEF Planned
  <2> QED BY <2>1, RestStates
<1>2. CASE ~ (empty /\ Times(base.rows) = {})
  <2>1. Planned(j, k, st) = new
    BY <1>2, Zenon DEF Planned
  <2>2. OnRun(Engine, Shown, last, final)
    <3>1. CASE empty
      BY <3>1
    <3>2. CASE ~ empty
      <4>1. /\ j.rows \in Series /\ Shown \in Series /\ Engine \in Engines
            /\ MaxTs \in Nat /\ LastTs(j.rows) \in 0 .. MaxTs
        BY ShownType, LastTsFacts, SeriesAssumption DEF Jobs
      <4>2. k < LastTs(j.rows)
        <5>1. PICK t \in Times(j.rows) : t > k
          BY <3>2 DEF NewRows
        <5>2. t <= LastTs(j.rows) /\ t \in Ts
          BY <4>1, <5>1, LastTsFacts DEF Times
        <5> QED BY <4>1, <5>1, <5>2 DEF Ts
      <4>3. base \in Frames
        BY PrefixType, EmptyFrameType DEF BasePrefix, Jobs
      <4>4. last = LastTs(j.rows) /\ final = Extend(Engine, base, k, j.rows, st).trace[MaxTs]
        BY <3>2
      <4> HIDE DEF base, last, final
      <4> QED BY <4>1, <4>2, <4>3, <4>4, ExtendOnRun
    <3> QED BY <3>1, <3>2
  <2>3. check.last = last /\ check.state = final
    OBVIOUS
  <2> HIDE DEF check, frame, last, final, emit
  <2>4. new.rows = j.rows /\ new.latest = Nothing /\ new.checkpoint = check
    BY DEF Jobs
  <2> HIDE DEF new
  <2> QED BY <2>1, <2>2, <2>3, <2>4 DEF JobStates, OnStore
<1> QED BY <1>1, <1>2

LEMMA StartOnRun ==
  ASSUME TypeOK
  PROVE  OnRun(Engine, Shown, 0, Start)
<1>1. LastTs(Shown) \in 0 .. MaxTs /\ MaxTs \in Nat
  BY ShownType, LastTsFacts, SeriesAssumption
<1>2. RunOf(Engine, Shown)[0] = Start
  BY ShownType, RunOfUnfolds
<1> QED BY <1>1, <1>2 DEF OnRun

(***************************************************************************)
(* A step in which one caller goes on and no file changes.                 *)
(***************************************************************************)
LEMMA MovesStates ==
  ASSUME SharedInv, NEW p \in Callers, NEW j, JobStates(j), Moves(p, j)
  PROVE  StatesInv'
<1>1. job' = [job EXCEPT ![p] = j] /\ UNCHANGED <<series, files, temp>>
  BY DEF Moves
<1>2. Shown' = Shown
  BY <1>1 DEF Shown, Window
<1>3. FileStates'
  BY <1>1, <1>2 DEF SharedInv, StatesInv, FileStates, OnStore
<1>4. \A q \in Callers : JobStates(job[q])'
  BY <1>1, <1>2 DEF SharedInv, StatesInv, TypeOK, JobStates, OnStore
<1> QED BY <1>3, <1>4 DEF StatesInv

(***************************************************************************)
(* The rows of a caller are those shown of the store when it starts.       *)
(***************************************************************************)
LEMMA LoadsStates ==
  ASSUME SameWindow, SharedInv, TypeOK', NEW p \in Callers, NEW m,
         Loads(p, series', m), Grows(series, series')
  PROVE  StatesInv'
<1>1. TypeOK /\ series' \in Series
  BY DEF SharedInv, TypeOK
<1>2. /\ Shown' \in Series /\ Grows(Shown', Shown')
      /\ \A r \in Series : Grows(r, Shown) => Grows(r, Shown')
      /\ \A c \in Checkpoints : OnStore(c) => OnStore(c)'
  BY <1>1, ShownGrows, GrowsSelf
<1> DEFINE loaded == [Idle EXCEPT !.at = "output",
                                  !.rows = Eligible(Window(p, series')),
                                  !.mutation = m]
           j == IF Times(Window(p, series')) = {} THEN Idle ELSE loaded
<1>3. job' = [job EXCEPT ![p] = j] /\ UNCHANGED <<files, temp>>
  BY Zenon DEF Loads
<1>4. Window(p, series') = Window(Refresh, series')
  BY DEF SameWindow, Window
<1>5. loaded.rows = Shown' /\ loaded.latest = Nothing /\ loaded.checkpoint = Nothing
  <2>1. Eligible(Window(p, series')) = Shown'
    BY <1>4 DEF Shown, Window
  <2> QED BY <2>1 DEF Idle
<1>6. Idle.rows = EmptySeries /\ Idle.latest = Nothing /\ Idle.checkpoint = Nothing
  BY DEF Idle
<1>7. Grows(EmptySeries, Shown)
  BY <1>1, <1>6, RestStates DEF JobStates
<1>8. j.latest = Nothing /\ j.checkpoint = Nothing /\ Grows(j.rows, Shown')
  <2>1. EmptySeries \in Series
    BY DEF EmptySeries, Series
  <2> HIDE DEF loaded
  <2> QED BY <1>2, <1>5, <1>6, <1>7, <2>1
<1> HIDE DEF j
<1>9. \A q \in Callers : JobStates(job[q])'
  <2> SUFFICES ASSUME NEW q \in Callers PROVE JobStates(job[q])'
    OBVIOUS
  <2>1. CASE q = p
    <3>1. job'[q] = j
      BY <1>1, <1>3, <2>1 DEF TypeOK
    <3> QED BY <1>8, <3>1 DEF JobStates
  <2>2. CASE q # p
    <3>1. job'[q] = job[q] /\ JobStates(job[q])
      BY <1>1, <1>3, <2>2 DEF SharedInv, StatesInv, TypeOK
    <3>2. /\ job[q].rows \in Series /\ job[q].latest \in Checkpoints \cup {Nothing}
          /\ job[q].checkpoint \in Checkpoints \cup {Nothing}
      BY <1>1 DEF TypeOK, Jobs
    <3>3. Grows(job'[q].rows, Shown')
      BY <1>2, <3>1, <3>2 DEF JobStates
    <3>4. (job[q].latest # Nothing => OnStore(job[q].latest))'
      BY <1>2, <3>1, <3>2 DEF JobStates, OnStore
    <3>5. (job[q].checkpoint # Nothing => OnStore(job[q].checkpoint))'
      BY <1>2, <3>1, <3>2 DEF JobStates, OnStore
    <3> QED BY <3>3, <3>4, <3>5 DEF JobStates
  <2> QED BY <2>1, <2>2
<1>10. FileStates'
  <2>1. \A n \in Files : n # OutputFile =>
          /\ files[n] \in Checkpoints \cup {Nothing}
          /\ temp[n] \in Checkpoints \cup {Nothing, NoTemp}
    BY <1>1, FileNames DEF TypeOK
  <2> QED BY <1>2, <1>3, <2>1 DEF SharedInv, StatesInv, FileStates, OnStore
<1> QED BY <1>9, <1>10 DEF StatesInv

LEMMA StartsStates ==
  ASSUME SameWindow, SharedInv, TypeOK',
         \/ \E s \in Series : StartRefresh(s)
         \/ \E p \in Requests : StartRequest(p)
  PROVE  StatesInv'
<1>1. CASE \E s \in Series : StartRefresh(s)
  <2>1. PICK s \in Series : StartRefresh(s)
    BY <1>1
  <2>2. Refresh \in Callers /\ series' = s
        /\ Loads(Refresh, series', [changed |-> s # series, after |-> Watermark(s)])
    BY <2>1 DEF StartRefresh, Callers
  <2>3. Upto(s, LastTs(series)) = series
    BY <2>1 DEF StartRefresh, Appended
  <2>4. ASSUME NEW t \in Ts, t <= LastTs(series) PROVE s[t] = series[t]
    <3>1. Upto(s, LastTs(series))[t] = s[t]
      BY <2>4 DEF Upto
    <3> QED BY <2>3, <3>1
  <2>5. Grows(series, series')
    BY <2>2, <2>4 DEF Grows
  <2> QED BY <2>2, <2>5, LoadsStates
<1>2. CASE \E p \in Requests : StartRequest(p)
  <2>1. PICK p \in Requests : StartRequest(p)
    BY <1>2
  <2>2. p \in Callers /\ series' = series
        /\ Loads(p, series', [changed |-> FALSE, after |-> NoWatermark])
    BY <2>1 DEF StartRequest, Callers
  <2>3. Grows(series, series')
    BY <2>2, GrowsSelf DEF SharedInv, TypeOK
  <2> QED BY <2>2, <2>3, LoadsStates
<1> QED BY <1>1, <1>2

(***************************************************************************)
(* A step that reads a file.                                               *)
(***************************************************************************)
LEMMA ReadsStates ==
  ASSUME SharedInv, NEW p \in Callers,
         ReadOutput(p) \/ ReadLatest(p) \/ ReadCheckpoint(p)
  PROVE  StatesInv'
<1>1. /\ TypeOK /\ FileStates /\ job[p] \in Jobs /\ Coherent(job[p])
      /\ JobStates(job[p])
      /\ job[p].at \in {"output", "latest", "checkpoint"} => job[p].holds = "none"
  BY DEF SharedInv, StatesInv, TypeOK, Coherent, Jobs
<1>2. CASE ReadOutput(p)
  <2>1. PICK output \in Readings(OutputFile) :
          Moves(p, [job[p] EXCEPT !.at = "latest", !.output = output])
    BY <1>2 DEF ReadOutput
  <2> DEFINE j == [job[p] EXCEPT !.at = "latest", !.output = output]
  <2>2. /\ j.rows = job[p].rows /\ j.latest = job[p].latest
        /\ j.checkpoint = job[p].checkpoint
    BY <1>1 DEF Jobs
  <2>3. JobStates(j)
    <3> HIDE DEF j
    <3> QED BY <1>1, <2>2 DEF JobStates
  <2> QED BY <2>1, <2>3, MovesStates
<1>3. CASE ReadLatest(p)
  <2>1. PICK latest \in Readings(LatestFile) :
          LET j == [job[p] EXCEPT !.latest = latest]
          IN  \/ /\ Reusable(j)
                 /\ Moves(p, IF j.output = Nothing THEN Idle ELSE Done(j, j.output))
              \/ /\ ~ Reusable(j)
                 /\ FromScratch(j)
                 /\ Moves(p, Planned(j, 0, Start))
              \/ /\ ~ Reusable(j)
                 /\ AppendOnly(j)
                 /\ Moves(p, Planned(j, latest.last, latest.state))
              \/ /\ ~ Reusable(j)
                 /\ ~ FromScratch(j)
                 /\ ~ AppendOnly(j)
                 /\ Moves(p, [j EXCEPT !.at = "checkpoint"])
    BY <1>3, Zenon DEF ReadLatest
  <2> DEFINE j == [job[p] EXCEPT !.latest = latest]
             reused == IF j.output = Nothing THEN Idle ELSE Done(j, j.output)
             looks == [j EXCEPT !.at = "checkpoint"]
  <2>2. latest \in Checkpoints \cup {Nothing} /\ (latest # Nothing => OnStore(latest))
    <3>1. /\ latest \in Checkpoints \cup {Nothing}
          /\ latest = files[LatestFile] \/ latest = Nothing
      BY <1>1, <2>1, ReadingsType, FileNames
    <3> QED BY <1>1, <3>1, FileNames DEF FileStates
  <2>3. /\ j \in Jobs /\ j.latest = latest /\ j.holds = "none"
        /\ j.rows = job[p].rows /\ j.checkpoint = job[p].checkpoint
    BY <1>1, <1>3, <2>2 DEF Jobs, ReadLatest
  <2>4. Grows(j.rows, Shown)
    BY <1>1, <2>3 DEF JobStates
  <2>5. JobStates(reused)
    BY <1>1, RestStates
  <2>6. JobStates(looks)
    <3>1. looks.rows = job[p].rows /\ looks.latest = latest
          /\ looks.checkpoint = job[p].checkpoint
      BY <2>3 DEF Jobs
    <3> HIDE DEF looks
    <3> QED BY <1>1, <2>2, <3>1 DEF JobStates
  <2>7. AppendOnly(j) => latest # Nothing
    BY <2>3 DEF AppendOnly, FromScratch
  <2> HIDE DEF j, reused
  <2>8. \/ Moves(p, reused)
        \/ Moves(p, Planned(j, 0, Start))
        \/ AppendOnly(j) /\ Moves(p, Planned(j, latest.last, latest.state))
        \/ Moves(p, looks)
    BY <2>1, Zenon DEF j, reused
  <2> HIDE DEF looks
  <2>9. CASE Moves(p, Planned(j, 0, Start))
    <3>1. 0 \in 0 .. MaxTs /\ Start \in States
      BY FileNames, EngineAssumption
    <3>2. JobStates(Planned(j, 0, Start))
      BY <1>1, <2>3, <2>4, <3>1, StartOnRun, PlannedStates
    <3> QED BY <2>9, <3>2, MovesStates
  <2>10. CASE AppendOnly(j) /\ Moves(p, Planned(j, latest.last, latest.state))
    <3>1. /\ latest.last \in 0 .. MaxTs /\ latest.state \in States
          /\ OnRun(Engine, Shown, latest.last, latest.state)
      BY <2>2, <2>7, <2>10, FileNames DEF Checkpoints, Ts, OnStore
    <3>2. JobStates(Planned(j, latest.last, latest.state))
      BY <1>1, <2>3, <2>4, <3>1, PlannedStates
    <3> QED BY <2>10, <3>2, MovesStates
  <2> QED BY <2>5, <2>6, <2>8, <2>9, <2>10, MovesStates
<1>4. CASE ReadCheckpoint(p)
  <2>1. PICK torn \in SUBSET {k \in Ts : InPlace(k)} :
          LET near == {k \in Ts \ torn : /\ files[k] # Nothing
                                         /\ k <= job[p].latest.last - Overlap}
          IN  Moves(p, IF near = {} THEN Planned(job[p], 0, Start)
                       ELSE Planned(job[p], Max(near), files[Max(near)].state))
    BY <1>4, Zenon DEF ReadCheckpoint
  <2> DEFINE near == {k \in Ts \ torn : /\ files[k] # Nothing
                                        /\ k <= job[p].latest.last - Overlap}
  <2>2. near \in SUBSET Ts /\ \A k \in near : files[k] # Nothing
    OBVIOUS
  <2>3. job[p].holds = "none" /\ Grows(job[p].rows, Shown)
    BY <1>1, <1>4 DEF ReadCheckpoint, JobStates
  <2> HIDE DEF near
  <2>4. CASE near = {}
    <3>1. Moves(p, Planned(job[p], 0, Start))
      BY <2>1, <2>4, Zenon DEF near
    <3>2. 0 \in 0 .. MaxTs /\ Start \in States
      BY FileNames, EngineAssumption
    <3>3. JobStates(Planned(job[p], 0, Start))
      BY <1>1, <2>3, <3>2, StartOnRun, PlannedStates
    <3> QED BY <3>1, <3>3, MovesStates
  <2>5. CASE near # {}
    <3> DEFINE k == Max(near)
    <3>1. Moves(p, Planned(job[p], k, files[k].state))
      BY <2>1, <2>5, Zenon DEF near
    <3>2. /\ k \in near /\ k \in 0 .. MaxTs /\ k \in Files /\ k # OutputFile
          /\ files[k].last = k /\ files[k].state \in States
      BY <1>1, <2>2, <2>5, NearestType
    <3> HIDE DEF k
    <3>3. files[k] # Nothing
      BY <2>2, <3>2
    <3>4. OnRun(Engine, Shown, k, files[k].state)
      BY <1>1, <3>2, <3>3 DEF FileStates, OnStore
    <3>5. JobStates(Planned(job[p], k, files[k].state))
      BY <1>1, <2>3, <3>2, <3>4, PlannedStates
    <3> QED BY <3>1, <3>5, MovesStates
  <2> QED BY <2>4, <2>5
<1> QED BY <1>2, <1>3, <1>4

(***************************************************************************)
(* What is written into a file other than the output is a checkpoint of    *)
(* the writer, or unreadable.                                              *)
(***************************************************************************)
LEMMA WritesStates ==
  ASSUME SharedInv, NEW p \in Callers, Open(p) \/ Fill(p)
  PROVE  StatesInv'
<1> DEFINE n == Target(job[p])
<1>1. /\ TypeOK /\ FileStates /\ job[p] \in Jobs /\ Coherent(job[p])
      /\ JobStates(job[p]) /\ Writes(job[p])
  BY DEF SharedInv, StatesInv, TypeOK, Open, Fill, Writes
<1>2. n \in Files /\ (n # OutputFile => Content(job[p]) = job[p].checkpoint)
  BY <1>1, TargetType
<1>3. OnStore(job[p].checkpoint)
  BY <1>1 DEF JobStates, Coherent
<1> HIDE DEF n
<1>4. UNCHANGED series /\ Shown' = Shown
  BY DEF Open, Fill, Shown, Window
<1>5. /\ \/ temp' = temp
         \/ \E c \in {Content(job[p]), Nothing} : temp' = [temp EXCEPT ![n] = c]
      /\ \/ files' = files
         \/ \E c \in {Content(job[p]), Nothing} : files' = [files EXCEPT ![n] = c]
  <2>1. \A old : Written(p, old) \subseteq {Content(job[p]), Nothing}
    BY DEF Written
  <2>2. CASE Open(p)
    BY <2>2 DEF Open, n
  <2>3. CASE Fill(p)
    BY <2>1, <2>3 DEF Fill, n
  <2> QED BY <2>2, <2>3
<1>6. FileStates'
  BY <1>1, <1>2, <1>3, <1>4, <1>5 DEF FileStates, OnStore, TypeOK
<1>7. \A q \in Callers : JobStates(job[q])'
  <2> SUFFICES ASSUME NEW q \in Callers PROVE JobStates(job[q])'
    OBVIOUS
  <2>1. /\ job'[q].rows = job[q].rows /\ job'[q].latest = job[q].latest
        /\ job'[q].checkpoint = job[q].checkpoint
    BY <1>1 DEF Open, Fill, TypeOK, Jobs
  <2>2. JobStates(job[q])
    BY DEF SharedInv, StatesInv
  <2> QED BY <1>4, <2>1, <2>2 DEF JobStates, OnStore
<1> QED BY <1>6, <1>7 DEF StatesInv

(***************************************************************************)
(* A file that is moved over its target brings what it holds there.        *)
(***************************************************************************)
LEMMA MoveStates ==
  ASSUME SharedInv, NEW p \in Callers, Move(p)
  PROVE  StatesInv'
<1> DEFINE n == Target(job[p])
<1>1. /\ TypeOK /\ FileStates /\ job[p] \in Jobs /\ Coherent(job[p])
      /\ JobStates(job[p]) /\ Writes(job[p])
  BY DEF SharedInv, StatesInv, TypeOK, Move, Writes
<1>2. n \in Files
  BY <1>1, TargetType
<1>3. /\ temp[n] # NoTemp /\ UNCHANGED series
      /\ files' = [files EXCEPT ![n] = temp[n]]
      /\ temp' = [temp EXCEPT ![n] = NoTemp]
      /\ job' = [q \in Callers |-> IF q = p THEN Onward(job[p])
                                   ELSE Displaced(job[q], n)]
  BY Zenon DEF Move
<1> HIDE DEF n
<1>4. Shown' = Shown
  BY <1>3 DEF Shown, Window
<1>5. FileStates'
  BY <1>1, <1>2, <1>3, <1>4 DEF FileStates, OnStore, TypeOK
<1>6. JobStates(Onward(job[p]))
  <2> DEFINE j == job[p]
             left == j.todo \ {Target(j)}
             next == [j EXCEPT !.at = "open", !.todo = left, !.holds = "none"]
  <2>1. Onward(j) = IF left = {} THEN Done(j, j.frame) ELSE next
    BY Zenon DEF Onward
  <2>2. next.rows = j.rows /\ next.latest = j.latest /\ next.checkpoint = j.checkpoint
    BY <1>1 DEF Jobs
  <2>3. JobStates(Done(j, j.frame))
    BY <1>1, RestStates
  <2> HIDE DEF next
  <2>4. JobStates(next)
    BY <1>1, <2>2 DEF JobStates
  <2> HIDE DEF left, j
  <2>5. JobStates(Onward(j))
    BY <2>1, <2>3, <2>4
  <2> QED BY <2>5 DEF j
<1>7. ASSUME NEW q \in Callers
      PROVE  JobStates(Displaced(job[q], n))
  <2>1. job[q] \in Jobs /\ JobStates(job[q])
    BY DEF SharedInv, StatesInv, TypeOK
  <2> DEFINE moved == [job[q] EXCEPT !.holds = IF @ = "temp" THEN "target" ELSE "gone"]
  <2>2. Displaced(job[q], n) = moved \/ Displaced(job[q], n) = job[q]
    BY Zenon DEF Displaced
  <2>3. /\ moved.rows = job[q].rows /\ moved.latest = job[q].latest
        /\ moved.checkpoint = job[q].checkpoint
    BY <2>1 DEF Jobs
  <2> HIDE DEF moved
  <2>4. JobStates(moved)
    BY <2>1, <2>3 DEF JobStates
  <2> QED BY <2>1, <2>2, <2>4
<1>8. \A q \in Callers : JobStates(job[q])'
  <2> SUFFICES ASSUME NEW q \in Callers PROVE JobStates(job[q])'
    OBVIOUS
  <2>1. JobStates(job'[q])
    BY <1>3, <1>6, <1>7
  <2> QED BY <1>4, <2>1 DEF JobStates, OnStore
<1> QED BY <1>5, <1>8 DEF StatesInv

LEMMA NextStates ==
  ASSUME SameWindow, SharedInv, [Next]_vars
  PROVE  SharedInv'
<1>1. TypeOK /\ TypeOK'
  BY NextType DEF SharedInv
<1>2. CASE \/ \E s \in Series : StartRefresh(s)
           \/ \E p \in Requests : StartRequest(p)
  BY <1>1, <1>2, StartsStates DEF SharedInv
<1>3. ASSUME NEW p \in Callers, Replays(p) PROVE StatesInv'
  <2>1. CASE ReadOutput(p) \/ ReadLatest(p) \/ ReadCheckpoint(p)
    BY <2>1, ReadsStates
  <2>2. CASE Open(p) \/ Fill(p)
    BY <2>2, WritesStates
  <2>3. CASE Move(p)
    BY <2>3, MoveStates
  <2>4. CASE MoveFails(p) \/ Return(p)
    BY <1>1, <2>4, RestStates, MovesStates DEF MoveFails, Return
  <2> QED BY <1>3, <2>1, <2>2, <2>3, <2>4 DEF Replays
<1>4. CASE Crash
  <2>1. /\ temp' = [n \in Files |-> NoTemp] /\ job' = [p \in Callers |-> Idle]
        /\ UNCHANGED <<series, files>>
    BY <1>4 DEF Crash
  <2>2. Shown' = Shown
    BY <2>1 DEF Shown, Window
  <2>3. JobStates(Idle)
    BY <1>1, RestStates
  <2>4. FileStates'
    BY <2>1, <2>2 DEF SharedInv, StatesInv, FileStates, OnStore
  <2>5. \A q \in Callers : JobStates(job[q])'
    BY <2>1, <2>2, <2>3 DEF JobStates, OnStore
  <2> QED BY <1>1, <2>4, <2>5 DEF StatesInv, SharedInv
<1>5. CASE UNCHANGED vars
  <2>1. /\ Shown' = Shown /\ UNCHANGED <<files, temp, job>>
    BY <1>5 DEF vars, Shown, Window
  <2>2. FileStates'
    BY <2>1 DEF SharedInv, StatesInv, FileStates, OnStore
  <2>3. \A q \in Callers : JobStates(job[q])'
    BY <2>1 DEF SharedInv, StatesInv, JobStates, OnStore
  <2> QED BY <1>1, <2>2, <2>3 DEF StatesInv, SharedInv
<1> QED BY <1>1, <1>2, <1>3, <1>4, <1>5 DEF Next, SharedInv

(***************************************************************************)
(* Every checkpoint on disk (latest.json, checkpoints/<ts>.json) holds the *)
(* state that a replay of the store from scratch has at its minute: for    *)
(* every number of unlocked requests over the days of the refresh          *)
(* (_unified_snapshot), every timeline, engine, cutoff and overlap, with   *)
(* replays that overlap, read between each other's writes, share their     *)
(* temporary files (_atomic_write_text) and are killed anywhere.           *)
(***************************************************************************)
THEOREM SharedCheckpoints ==
  ASSUME SameWindow PROVE Spec => []CheckpointsAreReplayStates
<1>1. Init => SharedInv
  BY InitType, InitStates DEF SharedInv
<1>2. SharedInv /\ [Next]_vars => SharedInv'
  BY NextStates
<1>3. SharedInv => CheckpointsAreReplayStates
  <2> SUFFICES ASSUME SharedInv, NEW p \in Callers, NEW n \in Files \ {OutputFile},
                      files[n] # Nothing
               PROVE  files[n].state = RunOf(Engine, Eligible(Window(p, series)))[files[n].last]
    BY DEF CheckpointsAreReplayStates, RunOf
  <2>1. Eligible(Window(p, series)) = Shown
    BY DEF SameWindow, Window, Shown
  <2> QED BY <2>1 DEF SharedInv, StatesInv, FileStates, OnStore, OnRun
<1> QED BY <1>1, <1>2, <1>3, PTL DEF Spec
=============================================================================
