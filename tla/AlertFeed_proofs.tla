--------------------------- MODULE AlertFeed_proofs ---------------------------
(***************************************************************************)
(* The three feeds of alerts, for any rows, limits, load factors, failed   *)
(* calls and crashes: the saved cursor of the roots passes none that was   *)
(* not put to the chats; every variable keeps its type; the alerts of a    *)
(* topic tell one story; no alert that counts as delivered is put to the   *)
(* chats again before its mark expires.                                    *)
(*                                                                         *)
(* The loop over the shocks is a recursive function; that it exists, and   *)
(* what it computes, is proved by induction over the rows.                 *)
(***************************************************************************)
EXTENDS AlertFeed, FiniteSetTheorems, WellFoundedInduction, TLAPS

Roots == Of("root")

Queued == {alert.row : alert \in queue}

\* What the roots need of a state's form.
RootShape(state) ==
  /\ DOMAIN state = {"cursor", "sent", "topics", "episodes"}
  /\ DOMAIN state.cursor = Feeds /\ state.cursor["root"] \in Int
  /\ DOMAIN state.sent = Feeds /\ DOMAIN state.sent["root"] = Fingerprints

\* A root the cursor passed was seen, or is among those of "ahead".
Passed(state, ahead) ==
  \A r \in visible \cap Roots :
    TsOf[r] < state.cursor["root"] => r \in tried \cup late \cup dropped \cup ahead

\* A marked root was seen, or is among those of "ahead".
MarkedSeen(state, ahead) ==
  \A r \in Rows : \A v \in 0 .. MaxVersion :
    state.sent["root"][<<r, v>>] # Never => r \in tried \cup ahead

Shapes ==
  /\ visible \subseteq Rows
  /\ version \in [Rows -> 0 .. MaxVersion]
  /\ RootShape(mem) /\ RootShape(disk)
  /\ feed \in Feeds

CursorInv ==
  /\ Shapes
  /\ pc = "load" => queue = {}
  /\ disk.cursor["root"] <= mem.cursor["root"]
  /\ Passed(mem, Queued) /\ Passed(disk, {})
  /\ MarkedSeen(mem, Queued) /\ MarkedSeen(disk, {})

-----------------------------------------------------------------------------
(* The cursor of the roots.  The other feeds only matter in that they      *)
(* leave the roots' cursor and marks alone: what their policies compute is *)
(* anything here.                                                          *)

LEMMA Ordered ==
  ASSUME NEW r \in Roots, NEW s \in Roots, TsOf[r] < TsOf[s]
  PROVE  r < s
<1>1. r \in Nat /\ s \in Nat /\ TsOf[r] \in Nat /\ TsOf[s] \in Nat
  BY FeedAssumption DEF Roots, Of
<1>2. ~(s < r) /\ r # s
  BY <1>1, FeedAssumption DEF Roots, Of
<1> QED BY <1>1, <1>2

\* The loop comes to every row before one it comes to.
LEMMA ReachedIsDownward ==
  ASSUME NEW rows \in SUBSET Rows, NEW fresh \in SUBSET rows,
         NEW s \in Reached(rows, fresh), NEW r \in rows, r < s
  PROVE  r \in Reached(rows, fresh)
<1> DEFINE Below(x) == {y \in fresh : y < x}
<1>1. IsFiniteSet(Rows) /\ Rows \subseteq Nat /\ Limit \in Nat
  BY FeedAssumption
<1>2. IsFiniteSet(Below(s)) /\ Cardinality(Below(s)) \in Nat
  BY <1>1, FS_Subset, FS_CardinalityType
<1>3. Below(r) \in SUBSET Below(s)
  <2>1. r \in Nat /\ s \in Nat /\ \A y \in fresh : y \in Nat
    BY <1>1 DEF Reached
  <2>2. SUFFICES ASSUME NEW y \in fresh, y < r
                 PROVE  y < s
    OBVIOUS
  <2> QED BY <2>1, <2>2
<1>4. Cardinality(Below(r)) <= Cardinality(Below(s)) /\ Cardinality(Below(r)) \in Nat
  BY <1>2, <1>3, FS_Subset, FS_CardinalityType
<1>5. Cardinality(Below(s)) < Limit
  BY DEF Reached
<1> HIDE DEF Below
<1>6. Cardinality(Below(r)) < Limit
  BY <1>1, <1>2, <1>4, <1>5
<1> QED BY <1>6 DEF Reached, Below

LEMMA LoadIsWaiting ==
  ASSUME NEW f \in Feeds
  PROVE  Load(f) \subseteq Waiting(f) /\ Waiting(f) \subseteq visible \cap Of(f)
  BY DEF Load, Waiting, Newest, Oldest

\* A root behind the cursor the policy sets was behind the old one, or left
\* out of the load, or marked, or is told now.
LEMMA RootOutcome ==
  ASSUME Shapes, NEW done \in RootOutcomes(Load("root"))
  PROVE  /\ RootShape(done.state)
         /\ mem.cursor["root"] <= done.state.cursor["root"]
         /\ \A r \in visible \cap Roots : TsOf[r] < done.state.cursor["root"] =>
              \/ TsOf[r] < mem.cursor["root"]
              \/ r \in LeftOut("root")
              \/ mem.sent["root"][Fingerprint(r)] # Never
              \/ r \in {alert.row : alert \in done.alerts}
         /\ \A r \in Rows : \A v \in 0 .. MaxVersion :
              done.state.sent["root"][<<r, v>>] # Never =>
                \/ mem.sent["root"][<<r, v>>] # Never
                \/ r \in {alert.row : alert \in done.alerts}
<1> DEFINE rows    == Load("root")
           fresh   == {r \in rows : IsFresh(r)}
           reached == Reached(rows, fresh)
           taken   == reached \cap fresh
           sent    == Marked(mem.sent["root"], {Fingerprint(r) : r \in taken})
<1>1. PICK last \in Latest(reached) :
        done = Outcome([mem EXCEPT !.sent["root"] = Cleaned(sent),
                                   !.cursor["root"] = TsOf[last]],
                       PlainAlerts(taken), TRUE)
  BY DEF RootOutcomes, RootCursor
<1>2. /\ last \in reached /\ reached \subseteq rows
      /\ rows \subseteq Waiting("root") /\ Waiting("root") \subseteq visible \cap Roots
      /\ visible \subseteq Rows
  BY LoadIsWaiting DEF Latest, Reached, Roots, Feeds, Shapes
<1>3. TsOf[last] \in Nat /\ TsOf[last] >= mem.cursor["root"]
  BY <1>2, FeedAssumption DEF Waiting, Feeds
<1> HIDE DEF sent
<1>4. /\ done.alerts = PlainAlerts(taken)
      /\ done.state.cursor["root"] = TsOf[last]
      /\ done.state.sent["root"] = Cleaned(sent)
      /\ DOMAIN done.state = DOMAIN mem
      /\ DOMAIN done.state.cursor = DOMAIN mem.cursor
      /\ DOMAIN done.state.sent = DOMAIN mem.sent
  BY <1>1 DEF Outcome, Shapes, RootShape, Feeds
<1>5. {alert.row : alert \in done.alerts} = taken
  <2> HIDE DEF taken
  <2>1. \A r : Plain(r).row = r
    BY DEF Plain
  <2>2. {Plain(r).row : r \in taken} = taken
    BY <2>1
  <2>3. {alert.row : alert \in PlainAlerts(taken)} = {Plain(r).row : r \in taken}
    BY Zenon DEF PlainAlerts
  <2> QED BY <1>4, <2>2, <2>3
<1>6. RootShape(done.state)
  BY <1>3, <1>4 DEF Shapes, RootShape, Cleaned
<1>7. ASSUME NEW r \in visible \cap Roots, TsOf[r] < TsOf[last],
             ~(TsOf[r] < mem.cursor["root"]), r \notin LeftOut("root"),
             mem.sent["root"][Fingerprint(r)] = Never
      PROVE  r \in taken
  <2>1. TsOf[r] \in Nat /\ mem.cursor["root"] \in Int
    BY <1>2, FeedAssumption DEF Shapes, RootShape
  <2>2. r \in Waiting("root")
    BY <1>7, <2>1 DEF Waiting, Roots
  <2>3. r < last
    BY <1>2, <1>7, Ordered
  <2>4. r \in rows
    BY <1>2, <1>7, <2>2, <2>3 DEF LeftOut
  <2>5. r \in fresh
    BY <1>7, <2>4 DEF IsFresh, Roots, Of
  <2>6. r \in reached
    BY <1>2, <2>3, <2>4, ReachedIsDownward
  <2> QED BY <2>5, <2>6
<1>8. ASSUME NEW r \in Rows, NEW v \in 0 .. MaxVersion,
             Cleaned(sent)[<<r, v>>] # Never,
             mem.sent["root"][<<r, v>>] = Never
      PROVE  r \in taken
  <2>1. <<r, v>> \in Fingerprints
    BY DEF Fingerprints
  <2>2. sent[<<r, v>>] # Never
    BY <1>8, <2>1 DEF Cleaned
  <2>3. PICK s \in taken : <<r, v>> = Fingerprint(s)
    BY <1>8, <2>1, <2>2 DEF sent, Marked
  <2> QED BY <2>3 DEF Fingerprint
<1> QED BY <1>3, <1>4, <1>5, <1>6, <1>7, <1>8

\* The other policies leave the roots' cursor and marks alone.
LEMMA OtherOutcome ==
  ASSUME Shapes, NEW f \in Feeds, f # "root", NEW rows, NEW done \in Outcomes(f, rows)
  PROVE  /\ RootShape(done.state)
         /\ done.state.cursor["root"] = mem.cursor["root"]
         /\ done.state.sent["root"] = mem.sent["root"]
<1>1. CASE f = "shock"
  <2>1. PICK sent, last, topics, episodes, alerts, changed :
          done = Outcome([mem EXCEPT !.sent["shock"] = sent, !.cursor["shock"] = last,
                                     !.topics = topics, !.episodes = episodes],
                         alerts, changed)
    BY <1>1 DEF Outcomes, ShockOutcomes
  <2> QED BY <1>1, <2>1 DEF Outcome, Shapes, RootShape, Feeds
<1>2. CASE f = "news"
  <2>1. PICK sent, last, alerts :
          done = Outcome([mem EXCEPT !.sent["news"] = sent, !.cursor["news"] = last],
                         alerts, TRUE)
    BY <1>2 DEF Outcomes, NewsOutcomes
  <2> QED BY <2>1 DEF Outcome, Shapes, RootShape, Feeds
<1> QED BY <1>1, <1>2 DEF Feeds

-----------------------------------------------------------------------------
(* The steps.                                                              *)

LEMMA EmptyIsSafe == RootShape(EmptyState) /\ MarkedSeen(EmptyState, {})
<1>1. RootShape(EmptyState)
  BY DEF RootShape, EmptyState, Feeds, Never
<1>2. MarkedSeen(EmptyState, {})
  BY DEF MarkedSeen, EmptyState, Fingerprints, Feeds
<1> QED BY <1>1, <1>2

LEMMA CursorInit == Init => CursorInv
<1> SUFFICES ASSUME Init PROVE CursorInv
  OBVIOUS
<1>1. RootShape(EmptyState)
  BY EmptyIsSafe
<1>2. MarkedSeen(EmptyState, {})
  BY EmptyIsSafe
<1>3. MaxVersion \in Nat
  BY FeedAssumption
<1>4. Shapes
  BY <1>1, <1>3 DEF Init, Shapes, Feeds
<1>5. Queued = {}
  BY DEF Init, Queued
<1>6. Passed(EmptyState, {})
  BY DEF Init, Passed
<1>7. EmptyState.cursor["root"] <= EmptyState.cursor["root"]
  BY <1>1 DEF RootShape
<1> QED BY <1>2, <1>4, <1>5, <1>6, <1>7 DEF Init, CursorInv

\* The state of the bot and what is queued may change as Select does.
LEMMA SelectKeeps ==
  ASSUME CursorInv, Select
  PROVE  CursorInv'
<1>1. PICK done \in Outcomes(feed, Load(feed)) :
        /\ mem' = done.state /\ queue' = done.alerts
        /\ IF done.alerts = {} /\ ~done.changed
           THEN feed' = After[feed] /\ UNCHANGED pc
           ELSE pc' = "send" /\ UNCHANGED feed
  BY DEF Select
<1>2. /\ pc = "load" /\ queue = {} /\ Queued = {}
      /\ dropped' = dropped \cup LeftOut(feed)
      /\ UNCHANGED <<visible, version, disk, tried, late>>
  BY DEF Select, CursorInv, Queued, tables
<1>3. pc' = "load" => queue' = {}
  BY <1>1
<1>4. Roots' = Roots
  BY DEF Roots, Of
<1>5. Passed(disk, {})' /\ MarkedSeen(disk, {})' /\ RootShape(disk)'
  BY <1>2, <1>4 DEF CursorInv, Passed, MarkedSeen, Shapes, RootShape
<1>6. mem.cursor["root"] \in Int /\ disk.cursor["root"] \in Int
  BY DEF CursorInv, Shapes, RootShape
<1>f. feed' \in Feeds
  BY <1>1 DEF CursorInv, Shapes, After, Feeds
<1>7. CASE feed = "root"
  <2>1. done \in RootOutcomes(Load("root"))
    BY <1>1, <1>7 DEF Outcomes
  <2>2. /\ RootShape(done.state)
        /\ mem.cursor["root"] <= done.state.cursor["root"]
        /\ \A r \in visible \cap Roots : TsOf[r] < done.state.cursor["root"] =>
             \/ TsOf[r] < mem.cursor["root"]
             \/ r \in LeftOut("root")
             \/ mem.sent["root"][Fingerprint(r)] # Never
             \/ r \in Queued'
        /\ \A r \in Rows : \A v \in 0 .. MaxVersion :
             done.state.sent["root"][<<r, v>>] # Never =>
               mem.sent["root"][<<r, v>>] # Never \/ r \in Queued'
    BY <1>1, <2>1, RootOutcome DEF CursorInv, Queued
  <2>3. Shapes'
    BY <1>1, <1>2, <1>5, <1>f, <2>2 DEF CursorInv, Shapes, RootShape
  <2>4. disk'.cursor["root"] <= mem'.cursor["root"]
    BY <1>1, <1>2, <1>6, <2>2 DEF CursorInv, RootShape
  <2>5. MarkedSeen(mem, Queued)'
    BY <1>1, <1>2, <2>2 DEF CursorInv, MarkedSeen
  <2>6. ASSUME NEW r \in visible \cap Roots, TsOf[r] < done.state.cursor["root"]
        PROVE  r \in tried \cup late \cup dropped' \cup Queued'
    <3>1. r \in Rows /\ version[r] \in 0 .. MaxVersion
      BY DEF CursorInv, Shapes
    <3>2. mem.sent["root"][Fingerprint(r)] # Never => r \in tried
      BY <1>2, <3>1 DEF CursorInv, MarkedSeen, Fingerprint
    <3>3. TsOf[r] < mem.cursor["root"] => r \in tried \cup late \cup dropped
      BY <1>2 DEF CursorInv, Passed
    <3> QED BY <1>2, <1>7, <2>2, <2>6, <3>2, <3>3
  <2>7. Passed(mem, Queued)'
    BY <1>1, <1>2, <1>4, <2>6 DEF Passed
  <2> QED BY <1>3, <1>5, <2>3, <2>4, <2>5, <2>7 DEF CursorInv
<1>8. CASE feed # "root"
  <2>1. /\ RootShape(done.state)
        /\ done.state.cursor["root"] = mem.cursor["root"]
        /\ done.state.sent["root"] = mem.sent["root"]
    BY <1>1, <1>8, OtherOutcome DEF CursorInv, Shapes
  <2>2. Shapes'
    BY <1>1, <1>2, <1>5, <1>f, <2>1 DEF CursorInv, Shapes, RootShape
  <2>3. Passed(mem, Queued)' /\ MarkedSeen(mem, Queued)'
    BY <1>1, <1>2, <1>4, <2>1 DEF CursorInv, Passed, MarkedSeen
  <2>4. disk'.cursor["root"] <= mem'.cursor["root"]
    BY <1>1, <1>2, <2>1 DEF CursorInv
  <2> QED BY <1>3, <1>5, <2>2, <2>3, <2>4 DEF CursorInv
<1> QED BY <1>7, <1>8

LEMMA ArriveKeeps ==
  ASSUME CursorInv, NEW r \in Rows, Arrive(r)
  PROVE  CursorInv'
<1>1. /\ visible' = visible \cup {r}
      /\ late' = IF TsOf[r] <= mem.cursor[KindOf[r]] THEN late \cup {r} ELSE late
      /\ UNCHANGED <<version, mem, disk, pc, feed, queue, tried, dropped>>
  BY DEF Arrive, place
<1>2. Shapes'
  BY <1>1 DEF CursorInv, Shapes, RootShape
<1>3. Queued' = Queued /\ Roots' = Roots
  BY <1>1 DEF Queued, Roots, Of
<1>4. /\ TsOf[r] \in Nat
      /\ mem.cursor["root"] \in Int /\ disk.cursor["root"] \in Int
      /\ disk.cursor["root"] <= mem.cursor["root"]
  BY FeedAssumption DEF CursorInv, Shapes, RootShape
<1>5. r \in Roots /\ TsOf[r] < mem.cursor["root"] => r \in late'
  BY <1>1, <1>4 DEF Roots, Of
<1>6. Passed(mem, Queued)'
  BY <1>1, <1>3, <1>5 DEF CursorInv, Passed
<1>7. r \in Roots /\ TsOf[r] < disk.cursor["root"] => r \in late'
  BY <1>4, <1>5
<1>8. Passed(disk, {})'
  BY <1>1, <1>3, <1>7 DEF CursorInv, Passed
<1> QED BY <1>1, <1>2, <1>3, <1>6, <1>8 DEF CursorInv, MarkedSeen

LEMMA SendKeeps ==
  ASSUME CursorInv, Send
  PROVE  CursorInv'
<1>1. PICK alert \in queue, reached \in SUBSET Chats, ok \in SUBSET Chats :
        /\ queue' = queue \ {alert}
        /\ mem' = [mem EXCEPT !.sent = Unmark(@, alert, ok)]
        /\ tried' = tried \cup {alert.row}
  BY Zenon DEF Send
<1>2. pc = "send" /\ UNCHANGED <<visible, version, disk, pc, feed, late, dropped>>
  BY DEF Send, tables
<1>3. Queued \subseteq Queued' \cup {alert.row} /\ Roots' = Roots
  BY <1>1, <1>2 DEF Queued, Roots, Of
<1>4. /\ DOMAIN mem' = DOMAIN mem
      /\ mem'.cursor = mem.cursor
      /\ mem'.sent = Unmark(mem.sent, alert, ok)
  BY <1>1 DEF CursorInv, Shapes, RootShape
<1>5. /\ DOMAIN mem'.sent = DOMAIN mem.sent
      /\ DOMAIN mem'.sent["root"] = DOMAIN mem.sent["root"]
      /\ \A p \in Fingerprints :
           mem'.sent["root"][p] # Never => mem.sent["root"][p] # Never
  BY <1>4 DEF Unmark, CursorInv, Shapes, RootShape, Feeds
<1>6. Shapes'
  BY <1>2, <1>4, <1>5 DEF CursorInv, Shapes, RootShape
<1>7. Passed(mem, Queued)'
  BY <1>1, <1>2, <1>3, <1>4 DEF CursorInv, Passed
<1>8. MarkedSeen(mem, Queued)'
  BY <1>1, <1>2, <1>3, <1>5 DEF CursorInv, MarkedSeen, Fingerprints
<1>9. Passed(disk, {})' /\ MarkedSeen(disk, {})'
  BY <1>1, <1>2, <1>3 DEF CursorInv, Passed, MarkedSeen
<1> QED BY <1>2, <1>4, <1>6, <1>7, <1>8, <1>9 DEF CursorInv

\* With nothing queued the file may be written.
LEMMA WriteKeeps ==
  ASSUME CursorInv, queue = {}, disk' = mem, feed' \in Feeds,
         UNCHANGED <<visible, version, mem, queue, tried, late, dropped>>
  PROVE  CursorInv'
<1>1. Queued = {} /\ Queued' = {} /\ Roots' = Roots
  BY DEF Queued, Roots, Of
<1>2. Shapes'
  BY DEF CursorInv, Shapes, RootShape
<1>3. mem.cursor["root"] <= mem.cursor["root"]
  BY DEF CursorInv, Shapes, RootShape
<1> QED BY <1>1, <1>2, <1>3 DEF CursorInv, Passed, MarkedSeen

LEMMA CrashKeeps ==
  ASSUME CursorInv, Crash
  PROVE  CursorInv'
<1>1. /\ mem' = disk' /\ disk' \in {disk, EmptyState}
      /\ pc' = "load" /\ feed' = "root" /\ queue' = {}
      /\ UNCHANGED <<visible, version, tried, late, dropped>>
  BY DEF Crash, tables
<1>2. Queued' = {} /\ Roots' = Roots
  BY <1>1 DEF Queued, Roots, Of
<1>3. RootShape(disk')
  BY <1>1, EmptyIsSafe DEF CursorInv, Shapes
<1>4. Shapes'
  BY <1>1, <1>3 DEF CursorInv, Shapes, RootShape, Feeds
<1>5. disk'.cursor["root"] <= disk'.cursor["root"]
  BY <1>3 DEF RootShape
<1>6. CASE disk' = disk
  BY <1>1, <1>2, <1>4, <1>5, <1>6 DEF CursorInv, Passed, MarkedSeen
<1>7. CASE disk' = EmptyState
  <2>1. \A r \in visible \cap Roots : ~(TsOf[r] < EmptyState.cursor["root"])
    BY FeedAssumption DEF EmptyState, Feeds, Never, CursorInv, Shapes
  <2>2. Passed(disk, {})'
    BY <1>1, <1>2, <1>7, <2>1 DEF Passed
  <2>3. MarkedSeen(disk, {})'
    BY <1>1, <1>7, EmptyIsSafe DEF MarkedSeen
  <2> QED BY <1>1, <1>2, <1>4, <1>5, <2>2, <2>3 DEF CursorInv, Passed, MarkedSeen
<1> QED BY <1>1, <1>6, <1>7

LEMMA ReselectKeeps ==
  ASSUME CursorInv, NEW r \in Rows, Reselect(r)
  PROVE  CursorInv'
<1>1. /\ version' = [version EXCEPT ![r] = @ + 1] /\ version[r] < MaxVersion
      /\ UNCHANGED <<visible, mem, disk, pc, feed, queue, tried, late, dropped>>
  BY DEF Reselect, place, history
<1>2. MaxVersion \in Nat
  BY FeedAssumption
<1>3. version' \in [Rows -> 0 .. MaxVersion]
  BY <1>1, <1>2 DEF CursorInv, Shapes
<1>4. Shapes'
  BY <1>1, <1>3 DEF CursorInv, Shapes, RootShape
<1>5. Queued' = Queued /\ Roots' = Roots
  BY <1>1 DEF Queued, Roots, Of
<1> QED BY <1>1, <1>4, <1>5 DEF CursorInv, Passed, MarkedSeen

\* A step that leaves what the invariant reads alone, but for the feed at hand.
LEMMA OtherKeeps ==
  ASSUME CursorInv, feed' \in Feeds,
         UNCHANGED <<visible, version, mem, disk, pc, queue, tried, late, dropped>>
  PROVE  CursorInv'
<1>1. Shapes'
  BY DEF CursorInv, Shapes, RootShape
<1>2. Queued' = Queued /\ Roots' = Roots
  BY DEF Queued, Roots, Of
<1> QED BY <1>1, <1>2 DEF CursorInv, Passed, MarkedSeen

LEMMA CursorStep == CursorInv /\ [Next]_vars => CursorInv'
<1> SUFFICES ASSUME CursorInv, [Next]_vars PROVE CursorInv'
  OBVIOUS
<1>a. feed \in Feeds
  BY DEF CursorInv, Shapes
<1>1. CASE Tick
  BY <1>1, <1>a, OtherKeeps DEF Tick, tables, place, history
<1>2. ASSUME NEW r \in Rows, Arrive(r) PROVE CursorInv'
  BY <1>2, ArriveKeeps
<1>3. ASSUME NEW r \in Rows, Reselect(r) PROVE CursorInv'
  BY <1>3, ReselectKeeps
<1>4. CASE Nothing
  <2>1. feed' \in Feeds
    BY <1>4, <1>a DEF Nothing, After, Feeds
  <2> QED BY <1>4, <2>1, OtherKeeps DEF Nothing, tables, history
<1>5. CASE Select
  BY <1>5, SelectKeeps
<1>6. CASE Send
  BY <1>6, SendKeeps
<1>7. CASE Save
  <2>1. feed' \in Feeds
    BY <1>7, <1>a DEF Save, After, Feeds
  <2> QED BY <1>7, <2>1, WriteKeeps DEF Save, tables, history
<1>8. CASE SaveElsewhere
  <2>1. queue = {}
    BY <1>8 DEF SaveElsewhere, Idle, CursorInv
  <2> QED BY <1>8, <1>a, <2>1, WriteKeeps DEF SaveElsewhere, tables, place, history
<1>9. CASE Crash
  BY <1>9, CrashKeeps
<1>10. CASE UNCHANGED vars
  BY <1>10, <1>a, OtherKeeps DEF vars, tables, place, history
<1> QED
  BY <1>1, <1>2, <1>3, <1>4, <1>5, <1>6, <1>7, <1>8, <1>9, <1>10 DEF Next, Worker

-----------------------------------------------------------------------------
\* Whatever fails and whenever the worker stops, the saved cursor of the roots
\* passes only roots that were put to the chats, came late, or were left out
\* by the bound on a load (apply_root_alert_policy, broadcast_root_alerts),
\* for any rows and any limit.
THEOREM RootsRespectLimit == Spec => []RootCursorRespectsLimit
<1>1. Init => CursorInv
  BY CursorInit
<1>2. CursorInv /\ [Next]_vars => CursorInv'
  BY CursorStep
<1>3. CursorInv => RootCursorRespectsLimit
  BY DEF CursorInv, Passed, RootCursorRespectsLimit, Roots
<1> QED BY <1>1, <1>2, <1>3, PTL DEF Spec

-----------------------------------------------------------------------------
(***************************************************************************)
(* Induction over the subsets of a finite set, and over an interval: a set *)
(* that grows with what is smaller has them all, for a least exception has *)
(* only members below it.                                                  *)
(***************************************************************************)
Grows(S, G) == \A T \in SUBSET S : (\A x \in T : T \ {x} \in G) => T \in G

LEMMA SubsetInduction ==
  ASSUME NEW S, IsFiniteSet(S), NEW G, Grows(S, G)
  PROVE  SUBSET S \subseteq G
<1> DEFINE Bad == (SUBSET S) \ G
<1>1. SUFFICES ASSUME Bad # {} PROVE FALSE
  BY Zenon
<1>2. IsWellFoundedOn(StrictSubsetOrdering(S), SUBSET S)
  BY FS_StrictSubsetOrderingWellFounded, FS_FiniteSubsetsOfFinite, Zenon
<1>3. \E T \in Bad : \A U \in Bad : ~ (<<U, T>> \in StrictSubsetOrdering(S))
  <2>1. Bad \subseteq SUBSET S
    BY Zenon
  <2> HIDE DEF Bad
  <2> QED BY <1>1, <1>2, <2>1, WFMin, Zenon
<1>4. PICK T \in Bad : \A U \in Bad : ~ (<<U, T>> \in StrictSubsetOrdering(S))
  BY <1>3, Zenon
<1>5. ASSUME NEW x \in T PROVE T \ {x} \in G
  <2>1. T \ {x} \in SUBSET S /\ T \ {x} \subseteq T /\ T \ {x} # T
    OBVIOUS
  <2>2. <<T \ {x}, T>> \in StrictSubsetOrdering(S)
    BY <2>1, Zenon DEF StrictSubsetOrdering
  <2> QED BY <1>4, <2>1, <2>2, Zenon
<1> QED BY <1>4, <1>5, Zenon DEF Grows

LEMMA LeastOf ==
  ASSUME NEW S \in SUBSET Nat, S # {}
  PROVE  \E m \in S : \A n \in S : m <= n
<1>1. PICK m \in S : \A n \in S : ~ (<<n, m>> \in OpToRel(<, Nat))
  BY NatLessThanWellFounded, WFMin, Zenon
<1>2. \A n \in S : ~ (n < m)
  BY <1>1, Zenon DEF OpToRel
<1> QED BY <1>2

LEMMA CountInduction ==
  ASSUME NEW G, 0 \in G, \A n \in Nat : n \in G => n + 1 \in G
  PROVE  Nat \subseteq G
<1>1. SUFFICES ASSUME Nat \ G # {} PROVE FALSE
  BY Zenon
<1>2. PICK m \in Nat \ G : \A n \in Nat \ G : m <= n
  BY <1>1, LeastOf
<1>3. m - 1 \in Nat /\ ~ (m <= m - 1)
  BY <1>2
<1>4. m - 1 \in G
  BY <1>2, <1>3
<1>5. m - 1 + 1 = m
  BY <1>2
<1> QED BY <1>2, <1>3, <1>4, <1>5

\* A finite set of numbers has a greatest member.
LEMMA MaxOf ==
  ASSUME NEW S \in SUBSET Nat, IsFiniteSet(S), S # {}
  PROVE  Max(S) \in S /\ \A x \in S : x <= Max(S)
<1> DEFINE G == {T \in SUBSET S : T = {} \/ \E m \in T : \A x \in T : x <= m}
<1>1. Grows(S, G)
  <2> SUFFICES ASSUME NEW T \in SUBSET S, \A x \in T : T \ {x} \in G, T # {}
               PROVE  \E m \in T : \A x \in T : x <= m
    BY DEF Grows
  <2>1. PICK y \in T : TRUE
    OBVIOUS
  <2>2. T \ {y} = {} \/ \E m \in T \ {y} : \A x \in T \ {y} : x <= m
    OBVIOUS
  <2>3. CASE T \ {y} = {}
    <3>1. \A x \in T : x = y
      BY <2>3
    <3> QED BY <2>1, <3>1
  <2>4. CASE \E m \in T \ {y} : \A x \in T \ {y} : x <= m
    <3>1. PICK m \in T \ {y} : \A x \in T \ {y} : x <= m
      BY <2>4
    <3>2. m \in Nat /\ y \in Nat /\ m \in T /\ \A x \in T : x \in Nat
      BY <2>1
    <3>3. CASE m <= y
      <4>1. \A x \in T : x <= y
        BY <3>1, <3>2, <3>3
      <4> QED BY <2>1, <4>1
    <3>4. CASE ~ (m <= y)
      <4>1. \A x \in T : x <= m
        BY <3>1, <3>2, <3>4
      <4> QED BY <3>2, <4>1
    <3> QED BY <3>3, <3>4
  <2> QED BY <2>2, <2>3, <2>4
<1>2. S \in G
  <2>1. SUBSET S \subseteq G
    <3> HIDE DEF G
    <3> QED BY <1>1, SubsetInduction
  <2> QED BY <2>1
<1>3. \E m \in S : \A x \in S : m >= x
  BY <1>2
<1> QED BY <1>3 DEF Max

\* A set of numbers has at most n members if each has fewer than n below it,
\* or each has fewer than n above it.
LEMMA FewBelow ==
  ASSUME NEW S \in SUBSET Nat, IsFiniteSet(S), NEW n \in Nat,
         \A x \in S : Cardinality({y \in S : y < x}) < n
  PROVE  Cardinality(S) <= n
<1>1. CASE S = {}
  BY <1>1, FS_EmptySet
<1>2. CASE S # {}
  <2> DEFINE m == Max(S)
  <2>1. m \in S /\ \A x \in S : x <= m
    BY <1>2, MaxOf
  <2> HIDE DEF m
  <2>0. \A y \in S : y < m <=> y # m
    BY <2>1
  <2>2. {y \in S : y < m} = S \ {m}
    BY <2>0, Zenon
  <2>3. Cardinality(S \ {m}) = Cardinality(S) - 1 /\ Cardinality(S) \in Nat
    BY <2>1, FS_RemoveElement, FS_CardinalityType
  <2>4. Cardinality(S \ {m}) < n
    BY <2>1, <2>2, Zenon
  <2> QED BY <2>3, <2>4
<1> QED BY <1>1, <1>2

LEMMA FewAbove ==
  ASSUME NEW S \in SUBSET Nat, IsFiniteSet(S), NEW n \in Nat,
         \A x \in S : Cardinality({y \in S : y > x}) < n
  PROVE  Cardinality(S) <= n
<1>1. CASE S = {}
  BY <1>1, FS_EmptySet
<1>2. CASE S # {}
  <2>1. PICK m \in S : \A x \in S : m <= x
    BY <1>2, LeastOf
  <2>0. \A y \in S : y > m <=> y # m
    BY <2>1
  <2>2. {y \in S : y > m} = S \ {m}
    BY <2>0, Zenon
  <2>3. Cardinality(S \ {m}) = Cardinality(S) - 1 /\ Cardinality(S) \in Nat
    BY <2>1, FS_RemoveElement, FS_CardinalityType
  <2>4. Cardinality(S \ {m}) < n
    BY <2>1, <2>2, Zenon
  <2> QED BY <2>3, <2>4
<1> QED BY <1>1, <1>2

-----------------------------------------------------------------------------
(***************************************************************************)
(* The invariants.  A state is sound if its episodes and their events are  *)
(* no more than the shocks behind its cursor, of which a policy takes each *)
(* once.                                                                   *)
(***************************************************************************)
Behind(s) == {r \in Of("shock") : TsOf[r] <= s.cursor["shock"]}

SoundTopic(topic, most, episodes) ==
  topic # NoEpisode =>
    /\ topic.count \in 1 .. most /\ topic.ord \in 0 .. episodes
    /\ topic.alert = topic.last

Sound(s, seen) ==
  /\ s \in States
  /\ s.episodes <= Cardinality(seen)
  /\ \A t \in Topics : SoundTopic(s.topics[t], Cardinality(seen), s.episodes)

AlertsOf(alerts, f) ==
  /\ IsFiniteSet(alerts) /\ alerts \subseteq Alerts /\ Cardinality(alerts) <= Limit
  /\ \A a \in alerts : KindOf[a.row] = f /\ a.print = Fingerprint(a.row)
  /\ \A a, b \in alerts : a.row = b.row => a = b

TypeInv ==
  /\ TypeOK
  /\ Sound(mem, Behind(mem)) /\ Sound(disk, Behind(disk))
  /\ pc = "load" => queue = {}
  /\ AlertsOf(queue, feed)

Covered(mark, by) == by >= mark \/ now > mark + Ttl
Clear(mark) == mark # Never => now > mark + Ttl

MarkInv ==
  /\ \A c \in Chats : \A p \in Fingerprints :
       when[<<c, p>>] <= now /\ Covered(when[<<c, p>>], mem.sent[KindOf[p[1]]][p])
  /\ \A f \in Feeds : \A p \in Fingerprints :
       mem.sent[f][p] <= now /\ disk.sent[f][p] <= now /\ Covered(disk.sent[f][p], mem.sent[f][p])
  /\ \A a \in queue :
       /\ mem.sent[feed][a.print] = now
       /\ Clear(disk.sent[feed][a.print])
       /\ \A c \in Chats : Clear(when[<<c, a.print>>])

Follows(a, b) ==
  GroupOf[a.row] = GroupOf[b.row] =>
    \/ /\ a.ord = b.ord /\ a.index < b.index
       /\ TsOf[b.row] >= TsOf[a.row] + Cooldown
    \/ /\ a.ord < b.ord
       /\ b.index = 1 => TsOf[b.row] > TsOf[a.row] + Reopen

\* The topic has come to alert a, or further.
TopsIn(topic, a) ==
  /\ topic # NoEpisode
  /\ a.ord < topic.ord \/ (a.ord = topic.ord /\ a.index <= topic.count)
  /\ TsOf[a.row] <= topic.last

Tops(s, a) == TopsIn(s.topics[GroupOf[a.row]], a)

StoryInv ==
  /\ \A i \in DOMAIN told : KindOf[told[i].row] = "shock" /\ Tops(mem, told[i])
  /\ \A i, j \in DOMAIN told : i < j => Follows(told[i], told[j])
  /\ feed = "shock" => \A b \in queue :
       /\ Tops(mem, b)
       /\ \A i \in DOMAIN told : Follows(told[i], b)
       /\ \A a \in queue : a.row < b.row => Follows(a, b)

-----------------------------------------------------------------------------
(* What every policy does.                                                 *)

Prints(alerts) == {a.print : a \in alerts}

\* The marks after a policy of feed f: its alerts are marked, old marks go.
MarkedFor(f, alerts) == [mem.sent EXCEPT ![f] = Cleaned(Marked(@, Prints(alerts)))]

Selected(f, done) ==
  /\ Sound(done.state, Behind(done.state))
  /\ AlertsOf(done.alerts, f)
  /\ done.state.sent = MarkedFor(f, done.alerts)
  /\ \A a \in done.alerts : mem.sent[f][a.print] = Never

LEMMA RowFacts ==
  /\ IsFiniteSet(Rows) /\ Rows \subseteq Nat /\ Cardinality(Rows) \in Nat
  /\ \A r \in Rows : TsOf[r] \in Nat /\ TsOf[r] \in Instants /\ KindOf[r] \in Feeds
  /\ \A r \in Of("shock") : GroupOf[r] \in Topics
  /\ \A f : Of(f) \subseteq Rows
  /\ Instants \subseteq Nat
  BY FeedAssumption, FS_CardinalityType DEF Instants, Topics, Of

LEMMA LoadFacts ==
  ASSUME NEW f \in Feeds
  PROVE  /\ Load(f) \subseteq Of(f) /\ Load(f) \subseteq Rows /\ IsFiniteSet(Load(f))
         /\ \A r \in Load(f) : f # "root" => TsOf[r] > mem.cursor[f]
<1>1. Load(f) \subseteq Waiting(f) /\ Waiting(f) \subseteq visible \cap Of(f)
  BY LoadIsWaiting
<1>2. Load(f) \subseteq Of(f) /\ Load(f) \subseteq Rows
  BY <1>1, RowFacts
<1>3. IsFiniteSet(Load(f))
  BY <1>2, RowFacts, FS_Subset
<1>4. \A r \in Waiting(f) : f # "root" => TsOf[r] > mem.cursor[f]
  BY DEF Waiting
<1> QED BY <1>1, <1>2, <1>3, <1>4

Marks == [Fingerprints -> Times \cup {Never}]

LEMMA MarksType ==
  ASSUME now \in Times, NEW sent \in Marks, NEW prints
  PROVE  Marked(sent, prints) \in Marks /\ Cleaned(sent) \in Marks
  BY DEF Marks, Marked, Cleaned

LEMMA MarkedForType ==
  ASSUME TypeInv, NEW f \in Feeds, NEW alerts
  PROVE  MarkedFor(f, alerts) \in [Feeds -> Marks]
<1>1. mem.sent \in [Feeds -> Marks] /\ now \in Times
  BY DEF TypeInv, TypeOK, States, Marks
<1>2. Cleaned(Marked(mem.sent[f], Prints(alerts))) \in Marks
  BY <1>1, MarksType
<1> QED BY <1>1, <1>2 DEF MarkedFor

LEMMA PrintType ==
  ASSUME TypeInv, NEW r \in Rows
  PROVE  Fingerprint(r) \in Fingerprints /\ Fingerprint(r)[1] = r
  BY DEF Fingerprint, Fingerprints, TypeInv, TypeOK

LEMMA PlainIsAlerts ==
  ASSUME TypeInv, NEW f \in Feeds, NEW T \in SUBSET Of(f), Cardinality(T) <= Limit
  PROVE  /\ AlertsOf(PlainAlerts(T), f)
         /\ Prints(PlainAlerts(T)) = {Fingerprint(r) : r \in T}
         /\ \A a \in PlainAlerts(T) : \E r \in T : a.print = Fingerprint(r)
<1>1. T \subseteq Rows /\ IsFiniteSet(T) /\ Cardinality(T) \in Nat
  BY RowFacts, FS_Subset, FS_CardinalityType
<1>2. \A r : Plain(r).row = r /\ Plain(r).print = Fingerprint(r)
             /\ Plain(r).ord = 0 /\ Plain(r).index = 0
  BY DEF Plain
<1>3. \A r \in T : Plain(r) \in Alerts
  BY <1>1, PrintType, RowFacts DEF Plain, Alerts, Count
<1> DEFINE g == [r \in T |-> Plain(r)]
<1>4. g \in Surjection(T, PlainAlerts(T))
  BY Zenon DEF Surjection, PlainAlerts
<1>5. IsFiniteSet(PlainAlerts(T)) /\ Cardinality(PlainAlerts(T)) <= Cardinality(T)
  <2> HIDE DEF g
  <2> QED BY <1>1, <1>4, FS_Surjection
<1>6. Cardinality(PlainAlerts(T)) <= Limit
  BY <1>1, <1>5, FeedAssumption, FS_CardinalityType
<1>7. PlainAlerts(T) \subseteq Alerts
  BY <1>3 DEF PlainAlerts
<1>8. \A a \in PlainAlerts(T) : \E r \in T : a = Plain(r)
  BY DEF PlainAlerts
<1>9. \A a \in PlainAlerts(T) : \E r \in T : a.row = r /\ a.print = Fingerprint(r) /\ a = Plain(r)
  BY <1>2, <1>8
<1>10. \A a \in PlainAlerts(T) : KindOf[a.row] = f /\ a.print = Fingerprint(a.row)
  BY <1>9 DEF Of
<1>11. \A a, b \in PlainAlerts(T) : a.row = b.row => a = b
  BY <1>9
<1>12. Prints(PlainAlerts(T)) = {Fingerprint(r) : r \in T}
  <2>1. \A r \in T : Plain(r) \in PlainAlerts(T)
    BY DEF PlainAlerts
  <2> QED BY <1>2, <1>9, <2>1 DEF Prints
<1> QED BY <1>5, <1>6, <1>7, <1>9, <1>10, <1>11, <1>12 DEF AlertsOf

\* The policy of roots or stories, given what it takes.
LEMMA PlainSelected ==
  ASSUME TypeInv, NEW f \in {"root", "news"}, NEW T \in SUBSET Of(f),
         Cardinality(T) <= Limit, \A r \in T : IsFresh(r), NEW last \in Rows, NEW done,
         done = Outcome([mem EXCEPT !.sent[f] = Cleaned(Marked(mem.sent[f],
                                                               {Fingerprint(r) : r \in T})),
                                    !.cursor[f] = TsOf[last]],
                        PlainAlerts(T), TRUE)
  PROVE  Selected(f, done) /\ done.state.topics = mem.topics
<1>1. f \in Feeds /\ f # "shock"
  BY DEF Feeds
<1>2. /\ AlertsOf(PlainAlerts(T), f)
      /\ Prints(PlainAlerts(T)) = {Fingerprint(r) : r \in T}
      /\ \A a \in PlainAlerts(T) : \E r \in T : a.print = Fingerprint(r)
  BY <1>1, PlainIsAlerts
<1>3. mem \in States /\ Sound(mem, Behind(mem))
  BY DEF TypeInv, TypeOK
<1> DEFINE clean == Cleaned(Marked(mem.sent[f], {Fingerprint(r) : r \in T}))
           s == [mem EXCEPT !.sent[f] = clean, !.cursor[f] = TsOf[last]]
<1>4. done.state = s /\ done.alerts = PlainAlerts(T)
  BY DEF Outcome
<1>5. clean = MarkedFor(f, PlainAlerts(T))[f] /\ clean \in Marks
  <2>1. MarkedFor(f, PlainAlerts(T))[f] = clean
    BY <1>1, <1>2, <1>3 DEF MarkedFor, States
  <2> QED BY <1>1, <2>1, MarkedForType
<1> HIDE DEF clean
<1>6. /\ s.sent = [mem.sent EXCEPT ![f] = clean]
      /\ s.cursor = [mem.cursor EXCEPT ![f] = TsOf[last]]
      /\ s.topics = mem.topics /\ s.episodes = mem.episodes
  BY <1>3 DEF States
<1>7. s.sent = MarkedFor(f, PlainAlerts(T))
  BY <1>5, <1>6, <1>2, <1>3 DEF MarkedFor, clean
<1>8. s \in States
  BY <1>1, <1>3, <1>5, RowFacts DEF States, Marks
<1>9. Behind(s) = Behind(mem)
  BY <1>1, <1>3, <1>6 DEF Behind, States, Feeds
<1> HIDE DEF s
<1>10. Sound(s, Behind(s))
  BY <1>3, <1>6, <1>8, <1>9 DEF Sound
<1>11. \A a \in PlainAlerts(T) : mem.sent[f][a.print] = Never
  <2>1. \A r \in T : mem.sent[f][Fingerprint(r)] = Never
    BY DEF IsFresh, Of
  <2> QED BY <1>2, <2>1
<1> QED BY <1>2, <1>4, <1>6, <1>7, <1>10, <1>11 DEF Selected

LEMMA RootSelected ==
  ASSUME TypeInv, NEW done \in RootOutcomes(Load("root"))
  PROVE  Selected("root", done) /\ done.state.topics = mem.topics
<1> DEFINE rows    == Load("root")
           fresh   == {r \in rows : IsFresh(r)}
           reached == Reached(rows, fresh)
           taken   == reached \cap fresh
<1>1. PICK last \in Latest(reached) :
        done = Outcome([mem EXCEPT !.sent["root"] = Cleaned(Marked(mem.sent["root"],
                                                     {Fingerprint(r) : r \in taken})),
                                   !.cursor["root"] = TsOf[last]],
                       PlainAlerts(taken), TRUE)
  BY DEF RootOutcomes, RootCursor
<1>2. rows \subseteq Of("root") /\ rows \subseteq Rows /\ IsFiniteSet(rows)
  BY LoadFacts DEF Feeds
<1>3. last \in Rows /\ taken \subseteq fresh /\ fresh \subseteq rows
  BY <1>2 DEF Latest, Reached
<1>4. taken \in SUBSET Nat /\ IsFiniteSet(taken) /\ IsFiniteSet(fresh)
  BY <1>2, <1>3, RowFacts, FS_Subset
<1>5. ASSUME NEW x \in taken PROVE Cardinality({y \in taken : y < x}) < Limit
  <2>1. Cardinality({y \in fresh : y < x}) < Limit
    BY <1>5 DEF Reached
  <2>2. {y \in taken : y < x} \subseteq {y \in fresh : y < x}
    BY <1>3
  <2>3. IsFiniteSet({y \in fresh : y < x})
    BY <1>4, FS_Subset
  <2>4. /\ Cardinality({y \in taken : y < x}) <= Cardinality({y \in fresh : y < x})
        /\ Cardinality({y \in taken : y < x}) \in Nat
        /\ Cardinality({y \in fresh : y < x}) \in Nat
    <3> HIDE DEF taken, fresh
    <3> QED BY <2>2, <2>3, FS_Subset, FS_CardinalityType
  <2>5. \A i, j \in Nat : i <= j /\ j < Limit => i < Limit
    BY FeedAssumption
  <2> HIDE DEF taken, fresh
  <2> QED BY <2>1, <2>4, <2>5
<1>6. Cardinality(taken) <= Limit
  <2>1. Limit \in Nat
    BY FeedAssumption
  <2> HIDE DEF taken
  <2> QED BY <1>4, <1>5, <2>1, FewBelow
<1>7. \A r \in taken : IsFresh(r)
  BY <1>3
<1>8. taken \in SUBSET Of("root")
  BY <1>2, <1>3
<1> HIDE DEF taken
<1> QED BY <1>1, <1>3, <1>6, <1>7, <1>8, PlainSelected

LEMMA NewsSelected ==
  ASSUME TypeInv, NEW done \in NewsOutcomes(Load("news"))
  PROVE  Selected("news", done) /\ done.state.topics = mem.topics
<1> DEFINE rows  == Load("news")
           leads == Leads(rows)
           fresh == {r \in leads : IsFresh(r)}
           taken == Newest(fresh, Limit)
<1>1. PICK last \in Latest(leads) :
        done = Outcome([mem EXCEPT !.sent["news"] = Cleaned(Marked(mem.sent["news"],
                                                     {Fingerprint(r) : r \in taken})),
                                   !.cursor["news"] = TsOf[last]],
                       PlainAlerts(taken), TRUE)
  BY DEF NewsOutcomes
<1>2. rows \subseteq Of("news") /\ rows \subseteq Rows /\ IsFiniteSet(rows)
  BY LoadFacts DEF Feeds
<1>3. last \in Rows /\ taken \subseteq fresh /\ fresh \subseteq rows
  BY <1>2 DEF Latest, Leads, Newest
<1>4. taken \in SUBSET Nat /\ IsFiniteSet(taken) /\ IsFiniteSet(fresh)
  BY <1>2, <1>3, RowFacts, FS_Subset
<1>5. ASSUME NEW x \in taken PROVE Cardinality({y \in taken : y > x}) < Limit
  <2>1. Cardinality({y \in fresh : y > x}) < Limit
    BY <1>5 DEF Newest
  <2>2. {y \in taken : y > x} \subseteq {y \in fresh : y > x}
    BY <1>3
  <2>3. IsFiniteSet({y \in fresh : y > x})
    BY <1>4, FS_Subset
  <2>4. /\ Cardinality({y \in taken : y > x}) <= Cardinality({y \in fresh : y > x})
        /\ Cardinality({y \in taken : y > x}) \in Nat
        /\ Cardinality({y \in fresh : y > x}) \in Nat
    <3> HIDE DEF taken, fresh
    <3> QED BY <2>2, <2>3, FS_Subset, FS_CardinalityType
  <2>5. \A i, j \in Nat : i <= j /\ j < Limit => i < Limit
    BY FeedAssumption
  <2> HIDE DEF taken, fresh
  <2> QED BY <2>1, <2>4, <2>5
<1>6. Cardinality(taken) <= Limit
  <2>1. Limit \in Nat
    BY FeedAssumption
  <2> HIDE DEF taken
  <2> QED BY <1>4, <1>5, <2>1, FewAbove
<1>7. \A r \in taken : IsFresh(r)
  BY <1>3
<1>8. taken \in SUBSET Of("news")
  BY <1>2, <1>3
<1> HIDE DEF taken
<1> QED BY <1>1, <1>3, <1>6, <1>7, <1>8, PlainSelected

-----------------------------------------------------------------------------
(* The loop over the shocks.                                               *)

NextTopic(topic, episodes, r) ==
  IF IsAftershock(topic, r) THEN Continued(topic, r) ELSE Opened(episodes + 1, r)

Grown(episodes, topic) == IF episodes < topic.ord THEN topic.ord ELSE episodes

LEMMA NextTopicType ==
  ASSUME NEW topic \in Episodes \cup {NoEpisode}, NEW k \in Nat, NEW e \in Nat,
         SoundTopic(topic, k, e), e <= k, k + 1 \in Count, NEW r \in Of("shock")
  PROVE  /\ NextTopic(topic, e, r) \in Episodes
         /\ NextTopic(topic, e, r).count \in 1 .. k + 1
         /\ NextTopic(topic, e, r) # NoEpisode
         /\ Grown(e, NextTopic(topic, e, r)) \in e .. e + 1
         /\ SoundTopic(NextTopic(topic, e, r), k + 1, Grown(e, NextTopic(topic, e, r)))
<1> DEFINE next == NextTopic(topic, e, r)
<1>1. Cardinality(Rows) \in Nat /\ TsOf[r] \in Instants
  BY RowFacts
<1>2. \A x \in 0 .. k + 1 : x \in Count
  BY <1>1 DEF Count
<1>3. NoEpisode.count = 0
  BY DEF NoEpisode
<1>4. CASE IsAftershock(topic, r)
  <2>1. next = [topic EXCEPT !.last = TsOf[r], !.alert = TsOf[r], !.count = @ + 1]
    BY <1>4 DEF NextTopic, Continued
  <2>2. topic \in Episodes /\ topic # NoEpisode
    BY <1>4 DEF IsAftershock
  <2>3. topic.count \in 1 .. k /\ topic.ord \in 0 .. e
    BY <2>2 DEF SoundTopic
  <2> HIDE DEF next
  <2>4. /\ next.count = topic.count + 1 /\ next.ord = topic.ord
        /\ next.last = TsOf[r] /\ next.alert = TsOf[r]
    BY <2>1, <2>2 DEF Episodes
  <2>5. next.count \in 1 .. k + 1 /\ next.count \in 0 .. k + 1
    BY <2>3, <2>4
  <2>6. next \in Episodes
    BY <1>1, <1>2, <2>1, <2>2, <2>4, <2>5 DEF Episodes
  <2>7. Grown(e, next) = e
    BY <2>3, <2>4 DEF Grown
  <2>8. next # NoEpisode
    BY <1>3, <2>5
  <2>9. SoundTopic(next, k + 1, Grown(e, next))
    BY <2>3, <2>4, <2>5, <2>7 DEF SoundTopic
  <2>10. e \in e .. e + 1
    OBVIOUS
  <2> QED BY <2>5, <2>6, <2>7, <2>8, <2>9, <2>10 DEF next
<1>5. CASE ~ IsAftershock(topic, r)
  <2>1. next = [ord |-> e + 1, root |-> TsOf[r], last |-> TsOf[r], alert |-> TsOf[r],
                count |-> 1]
    BY <1>5 DEF NextTopic, Opened
  <2> HIDE DEF next
  <2>2. e + 1 \in 0 .. k + 1 /\ 1 \in 0 .. k + 1 /\ 1 \in 1 .. k + 1
    OBVIOUS
  <2>3. next \in Episodes
    BY <1>1, <1>2, <2>1, <2>2 DEF Episodes
  <2>4. next.count = 1 /\ next.ord = e + 1 /\ next.alert = next.last
    BY <2>1
  <2>5. Grown(e, next) = e + 1
    BY <2>4 DEF Grown
  <2>6. next # NoEpisode
    BY <1>3, <2>4
  <2>7. e + 1 \in e .. e + 1 /\ e + 1 \in 0 .. e + 1
    OBVIOUS
  <2>8. SoundTopic(next, k + 1, Grown(e, next))
    BY <2>2, <2>4, <2>5, <2>7 DEF SoundTopic
  <2> QED BY <2>2, <2>3, <2>4, <2>5, <2>6, <2>7, <2>8 DEF next
<1> QED BY <1>4, <1>5

\* An alert that passes follows all that its topic had come to, and its topic
\* has then come to it.
LEMMA NextTopicFollows ==
  ASSUME NEW topic \in Episodes \cup {NoEpisode}, NEW k \in Nat, NEW e \in Nat,
         SoundTopic(topic, k, e), NEW r \in Of("shock"), Passes(topic, r),
         NEW a \in Alerts, TopsIn(topic, a),
         NEW b, b.row = r, b.ord = NextTopic(topic, e, r).ord,
         b.index = NextTopic(topic, e, r).count
  PROVE  Follows(a, b) /\ TopsIn(NextTopic(topic, e, r), a)
<1> DEFINE next == NextTopic(topic, e, r)
<1>1. /\ topic \in Episodes /\ topic # NoEpisode
      /\ topic.count \in 1 .. k /\ topic.ord \in 0 .. e /\ topic.alert = topic.last
      /\ topic.last \in Nat
  BY RowFacts DEF TopsIn, SoundTopic, Episodes
<1>2. TsOf[r] \in Nat /\ TsOf[a.row] \in Nat /\ a.ord \in Nat /\ a.index \in Nat
  BY RowFacts DEF Alerts, Count
<1>3. Reopen \in Nat /\ Cooldown \in Nat
  BY FeedAssumption
<1>4. /\ a.ord < topic.ord \/ (a.ord = topic.ord /\ a.index <= topic.count)
      /\ TsOf[a.row] <= topic.last
  BY DEF TopsIn
<1>5. NoEpisode.count = 0
  BY DEF NoEpisode
<1>6. CASE IsAftershock(topic, r)
  <2>1. next = [topic EXCEPT !.last = TsOf[r], !.alert = TsOf[r], !.count = @ + 1]
    BY <1>6 DEF NextTopic, Continued
  <2>2. next.count = topic.count + 1 /\ next.ord = topic.ord /\ next.last = TsOf[r]
    BY <1>1, <2>1 DEF Episodes
  <2>3. TsOf[r] >= topic.alert + Cooldown
    BY <1>6 DEF Passes
  <2> HIDE DEF next
  <2>4. TsOf[r] >= TsOf[a.row] + Cooldown /\ TsOf[a.row] <= TsOf[r]
    BY <1>1, <1>2, <1>3, <1>4, <2>3
  <2>5. b.ord = topic.ord /\ b.index = topic.count + 1 /\ b.index # 1
    BY <1>1, <2>2 DEF next
  <2>6. a.ord < b.ord \/ (a.ord = b.ord /\ a.index < b.index)
    BY <1>1, <1>2, <1>4, <2>5
  <2>7. next # NoEpisode
    BY <1>1, <1>5, <2>2
  <2>8. a.ord < next.ord \/ (a.ord = next.ord /\ a.index <= next.count)
    BY <1>1, <1>2, <1>4, <2>2
  <2>9. TopsIn(next, a)
    BY <2>2, <2>4, <2>7, <2>8 DEF TopsIn
  <2>10. Follows(a, b)
    BY <2>4, <2>5, <2>6 DEF Follows
  <2> QED BY <2>9, <2>10 DEF next
<1>7. CASE ~ IsAftershock(topic, r)
  <2>1. next = [ord |-> e + 1, root |-> TsOf[r], last |-> TsOf[r], alert |-> TsOf[r],
                count |-> 1]
    BY <1>7 DEF NextTopic, Opened
  <2>2. next.count = 1 /\ next.ord = e + 1 /\ next.last = TsOf[r]
    BY <2>1
  <2>3. ~ (TsOf[r] <= topic.last + Reopen)
    BY <1>1, <1>7 DEF IsAftershock
  <2> HIDE DEF next
  <2>4. TsOf[r] > TsOf[a.row] + Reopen /\ TsOf[a.row] <= TsOf[r]
    BY <1>1, <1>2, <1>3, <1>4, <2>3
  <2>5. b.ord = e + 1
    BY <2>2 DEF next
  <2>6. a.ord < b.ord /\ a.ord < next.ord
    BY <1>1, <1>2, <1>4, <2>2, <2>5
  <2>7. next # NoEpisode
    BY <1>5, <2>2
  <2>8. TopsIn(next, a)
    BY <2>2, <2>4, <2>6, <2>7 DEF TopsIn
  <2>9. Follows(a, b)
    BY <2>4, <2>6 DEF Follows
  <2> QED BY <2>8, <2>9 DEF next
<1> QED BY <1>6, <1>7

Said == {told[i] : i \in DOMAIN told}

LoopStory(state, alerts) ==
  /\ \A a \in Said \cup alerts : Tops(state, a)
  /\ \A a \in Said : \A b \in alerts : Follows(a, b)
  /\ \A a, b \in alerts : a.row < b.row => Follows(a, b)

\* The loop is done with the shocks before n and, of all, with those in seen.
LoopInv(acc, seen, n) ==
  /\ Sound(acc.state, seen)
  /\ acc.state.cursor = mem.cursor
  /\ AlertsOf(acc.alerts, "shock")
  /\ acc.state.sent = [mem.sent EXCEPT !["shock"] = Marked(@, Prints(acc.alerts))]
  /\ \A a \in acc.alerts : a.row < n /\ mem.sent["shock"][a.print] = Never
  /\ LoopStory(acc.state, acc.alerts)

SaidAreShocks == \A a \in Said : a \in Alerts /\ KindOf[a.row] = "shock"

LEMMA SeenMore ==
  ASSUME NEW seen \in SUBSET Rows, NEW more \in SUBSET Rows, seen \subseteq more
  PROVE  /\ Cardinality(seen) \in Nat /\ Cardinality(more) \in Nat
         /\ Cardinality(seen) <= Cardinality(more)
         /\ Cardinality(more) <= Cardinality(Rows)
<1>1. IsFiniteSet(Rows)
  BY RowFacts
<1>2. IsFiniteSet(more)
  BY <1>1, FS_Subset
<1> QED BY <1>1, <1>2, FS_Subset, FS_CardinalityType

LEMMA SoundMore ==
  ASSUME NEW s, NEW seen \in SUBSET Rows, NEW more \in SUBSET Rows, seen \subseteq more,
         Sound(s, seen)
  PROVE  Sound(s, more)
<1>1. /\ Cardinality(seen) \in Nat /\ Cardinality(more) \in Nat
      /\ Cardinality(seen) <= Cardinality(more)
  BY SeenMore
<1>2. s \in States /\ s.episodes \in Nat
  BY DEF Sound, States, Count
<1>3. \A t \in Topics : SoundTopic(s.topics[t], Cardinality(more), s.episodes)
  BY <1>1 DEF Sound, SoundTopic
<1> QED BY <1>1, <1>2, <1>3 DEF Sound

LEMMA LoopSkips ==
  ASSUME NEW acc, NEW seen \in SUBSET Rows, NEW more \in SUBSET Rows, seen \subseteq more,
         NEW n \in Nat, LoopInv(acc, seen, n)
  PROVE  LoopInv(acc, more, n + 1)
<1>1. Sound(acc.state, more)
  BY SoundMore DEF LoopInv
<1>2. \A a \in acc.alerts : a.row \in Nat
  BY RowFacts DEF LoopInv, AlertsOf, Alerts
<1>3. \A a \in acc.alerts : a.row < n + 1
  BY <1>2 DEF LoopInv
<1> QED BY <1>1, <1>3 DEF LoopInv

\* A shock is told: its alert, and the state after it.
ShockAlert(state, r) ==
  LET next == NextTopic(state.topics[GroupOf[r]], state.episodes, r)
  IN  [row |-> r, print |-> Fingerprint(r), ord |-> next.ord, index |-> next.count]

ShockState(state, r) ==
  LET next == NextTopic(state.topics[GroupOf[r]], state.episodes, r)
  IN  [state EXCEPT !.topics[GroupOf[r]] = next,
                    !.sent["shock"][Fingerprint(r)] = now,
                    !.episodes = Grown(@, next)]

LEMMA ShockCases ==
  ASSUME NEW acc, NEW r
  PROVE  \/ Shock(acc, r) = acc
         \/ /\ Shock(acc, r) = Outcome(ShockState(acc.state, r),
                                       acc.alerts \cup {ShockAlert(acc.state, r)}, TRUE)
            /\ ~ (Cardinality(acc.alerts) >= Limit)
            /\ acc.state.sent["shock"][Fingerprint(r)] = Never
            /\ Passes(acc.state.topics[GroupOf[r]], r)
  BY Zenon DEF Shock, ShockState, ShockAlert, NextTopic, Grown

LEMMA ShockStateFields ==
  ASSUME NEW s \in States, NEW r \in Of("shock")
  PROVE  /\ ShockState(s, r).cursor = s.cursor
         /\ ShockState(s, r).topics
              = [s.topics EXCEPT ![GroupOf[r]] =
                   NextTopic(s.topics[GroupOf[r]], s.episodes, r)]
         /\ ShockState(s, r).sent
              = [s.sent EXCEPT !["shock"] = [@ EXCEPT ![Fingerprint(r)] = now]]
         /\ ShockState(s, r).episodes
              = Grown(s.episodes, NextTopic(s.topics[GroupOf[r]], s.episodes, r))
         /\ ShockState(s, r) = [cursor |-> ShockState(s, r).cursor,
                                sent |-> ShockState(s, r).sent,
                                topics |-> ShockState(s, r).topics,
                                episodes |-> ShockState(s, r).episodes]
<1> DEFINE next == NextTopic(s.topics[GroupOf[r]], s.episodes, r)
           g    == GroupOf[r]
           p    == Fingerprint(r)
           more == Grown(s.episodes, next)
           out  == ShockState(s, r)
<1>1. out = [s EXCEPT !.topics[g] = next, !.sent["shock"][p] = now, !.episodes = more]
  BY Zenon DEF ShockState
<1>2. s = [cursor |-> s.cursor, sent |-> s.sent, topics |-> s.topics,
           episodes |-> s.episodes]
  BY DEF States
<1> HIDE DEF next, g, p, more, out
<1>3. /\ out.cursor = s.cursor
      /\ out.topics = [s.topics EXCEPT ![g] = next]
      /\ out.sent = [s.sent EXCEPT !["shock"] = [@ EXCEPT ![p] = now]]
      /\ out.episodes = more
  BY <1>1, <1>2
<1>4. out = [cursor |-> out.cursor, sent |-> out.sent, topics |-> out.topics,
             episodes |-> out.episodes]
  BY <1>1, <1>2
<1> QED BY <1>3, <1>4 DEF next, g, p, more, out

\* One more mark.
LEMMA MarkedOneMore ==
  ASSUME NEW sent \in Marks, NEW prints, NEW p \in Fingerprints
  PROVE  [Marked(sent, prints) EXCEPT ![p] = now] = Marked(sent, prints \cup {p})
  BY DEF Marked

LEMMA SeenOneMore ==
  ASSUME NEW seen \in SUBSET Rows, NEW r \in Rows, r \notin seen
  PROVE  /\ Cardinality(seen) \in Nat /\ Cardinality(seen \cup {r}) = Cardinality(seen) + 1
         /\ Cardinality(seen) + 1 \in Count
<1>1. IsFiniteSet(seen) /\ seen \cup {r} \in SUBSET Rows
  BY RowFacts, FS_Subset
<1>2. Cardinality(seen) \in Nat /\ Cardinality(seen \cup {r}) = Cardinality(seen) + 1
  BY <1>1, FS_AddElement, FS_CardinalityType
<1>3. Cardinality(seen \cup {r}) <= Cardinality(Rows)
  BY <1>1, SeenMore
<1> QED BY <1>2, <1>3, RowFacts DEF Count

LEMMA ShockStateSound ==
  ASSUME TypeInv, NEW s, NEW seen \in SUBSET Rows, Sound(s, seen),
         NEW r \in Of("shock"), r \notin seen
  PROVE  Sound(ShockState(s, r), seen \cup {r})
<1> DEFINE k    == Cardinality(seen)
           e    == s.episodes
           g    == GroupOf[r]
           next == NextTopic(s.topics[g], e, r)
           out  == ShockState(s, r)
<1>1. r \in Rows /\ g \in Topics
  BY RowFacts
<1>2. k \in Nat /\ Cardinality(seen \cup {r}) = k + 1 /\ k + 1 \in Count
  BY <1>1, SeenOneMore
<1>3. /\ s \in States /\ e \in Nat /\ e <= k
      /\ \A t \in Topics : SoundTopic(s.topics[t], k, e)
      /\ s.topics \in [Topics -> Episodes \cup {NoEpisode}]
      /\ s.sent \in [Feeds -> Marks] /\ s.cursor \in [Feeds -> Instants \cup {Never}]
  BY DEF Sound, States, Count, Marks
<1>4. /\ next \in Episodes /\ Grown(e, next) \in e .. e + 1
      /\ SoundTopic(next, k + 1, Grown(e, next))
  <2>1. s.topics[g] \in Episodes \cup {NoEpisode} /\ SoundTopic(s.topics[g], k, e)
    BY <1>1, <1>3
  <2> HIDE DEF g, k, e
  <2> QED BY <1>2, <1>3, <2>1, NextTopicType
<1>5. /\ out.cursor = s.cursor
      /\ out.topics = [s.topics EXCEPT ![g] = next]
      /\ out.sent = [s.sent EXCEPT !["shock"] = [@ EXCEPT ![Fingerprint(r)] = now]]
      /\ out.episodes = Grown(e, next)
      /\ out = [cursor |-> out.cursor, sent |-> out.sent, topics |-> out.topics,
                episodes |-> out.episodes]
  BY <1>3, ShockStateFields
<1>6. now \in Times
  BY DEF TypeInv, TypeOK
<1> HIDE DEF k, e, g, next, out
<1>7. out.topics \in [Topics -> Episodes \cup {NoEpisode}]
  BY <1>1, <1>3, <1>4, <1>5
<1>8. out.sent \in [Feeds -> Marks]
  <2>1. [s.sent["shock"] EXCEPT ![Fingerprint(r)] = now] \in Marks
    BY <1>3, <1>6 DEF Marks, Feeds
  <2> QED BY <1>3, <1>5, <2>1
<1>9. out.episodes \in Nat /\ out.episodes <= k + 1 /\ e <= out.episodes
  BY <1>2, <1>3, <1>4, <1>5
<1>10. out.episodes \in Count
  BY <1>2, <1>9, RowFacts DEF Count
<1>11. out \in States
  BY <1>3, <1>5, <1>7, <1>8, <1>10 DEF States, Marks
<1>12. ASSUME NEW t \in Topics PROVE SoundTopic(out.topics[t], k + 1, out.episodes)
  <2>1. CASE t = g
    <3>1. out.topics[t] = next
      BY <1>3, <1>5, <2>1
    <3> QED BY <1>4, <1>5, <3>1
  <2>2. CASE t # g
    <3>1. out.topics[t] = s.topics[t]
      BY <1>3, <1>5, <2>2
    <3>2. SoundTopic(s.topics[t], k, e)
      BY <1>3
    <3>3. SoundTopic(s.topics[t], k + 1, out.episodes)
      BY <1>2, <1>3, <1>9, <3>2 DEF SoundTopic
    <3> QED BY <3>1, <3>3
  <2> QED BY <2>1, <2>2
<1> QED BY <1>2, <1>9, <1>11, <1>12 DEF Sound, out

LEMMA ShockStory ==
  ASSUME TypeInv, SaidAreShocks, NEW s, NEW seen \in SUBSET Rows, Sound(s, seen),
         NEW r \in Of("shock"), r \notin seen, Passes(s.topics[GroupOf[r]], r),
         NEW alerts, alerts \subseteq Alerts,
         \A a \in alerts : KindOf[a.row] = "shock" /\ a.row < r, LoopStory(s, alerts)
  PROVE  LoopStory(ShockState(s, r), alerts \cup {ShockAlert(s, r)})
<1> DEFINE k    == Cardinality(seen)
           e    == s.episodes
           g    == GroupOf[r]
           next == NextTopic(s.topics[g], e, r)
           out  == ShockState(s, r)
           b    == ShockAlert(s, r)
<1>1. r \in Rows /\ g \in Topics /\ TsOf[r] \in Nat
  BY RowFacts
<1>2. k \in Nat /\ k + 1 \in Count
  BY <1>1, SeenOneMore
<1>3. /\ s \in States /\ e \in Nat /\ e <= k /\ SoundTopic(s.topics[g], k, e)
      /\ s.topics[g] \in Episodes \cup {NoEpisode}
      /\ s.topics \in [Topics -> Episodes \cup {NoEpisode}]
  BY <1>1 DEF Sound, States, Count
<1>4. out.topics = [s.topics EXCEPT ![g] = next]
  BY <1>3, ShockStateFields
<1>5. b.row = r /\ b.ord = next.ord /\ b.index = next.count
  BY DEF ShockAlert
<1>6. next # NoEpisode /\ next \in Episodes
  <2> HIDE DEF k, e, g
  <2> QED BY <1>2, <1>3, NextTopicType
<1>7. next.last = TsOf[r]
  <2>1. CASE IsAftershock(s.topics[g], r)
    <3>1. s.topics[g] \in Episodes
      BY <1>3, <2>1 DEF IsAftershock
    <3> HIDE DEF g
    <3> QED BY <2>1, <3>1 DEF NextTopic, Continued, Episodes
  <2>2. CASE ~ IsAftershock(s.topics[g], r)
    <3> HIDE DEF g
    <3> QED BY <2>2 DEF NextTopic, Opened
  <2> QED BY <2>1, <2>2
<1>8. ASSUME NEW a \in Said \cup alerts
      PROVE  a \in Alerts /\ GroupOf[a.row] \in Topics /\ Tops(s, a)
  BY RowFacts DEF SaidAreShocks, LoopStory, Of, Alerts
<1>9. ASSUME NEW a \in Said \cup alerts, GroupOf[a.row] = g
      PROVE  Follows(a, b) /\ TopsIn(next, a)
  <2>1. a \in Alerts /\ TopsIn(s.topics[g], a)
    BY <1>8, <1>9 DEF Tops
  <2>2. Passes(s.topics[g], r)
    OBVIOUS
  <2> HIDE DEF k, e, g, b
  <2> QED BY <1>2, <1>3, <1>5, <2>1, <2>2, NextTopicFollows
<1>10. ASSUME NEW a \in Said \cup alerts PROVE Follows(a, b)
  <2>1. CASE GroupOf[a.row] = g
    BY <1>9, <2>1
  <2>2. CASE GroupOf[a.row] # g
    BY <1>5, <2>2 DEF Follows
  <2> QED BY <2>1, <2>2
<1> HIDE DEF k, e, next, out, b
<1>11. ASSUME NEW a \in Said \cup alerts PROVE Tops(out, a)
  <2>1. CASE GroupOf[a.row] = g
    <3>1. out.topics[GroupOf[a.row]] = next
      BY <1>1, <1>3, <1>4, <2>1
    <3> QED BY <1>9, <2>1, <3>1 DEF Tops
  <2>2. CASE GroupOf[a.row] # g
    <3>1. out.topics[GroupOf[a.row]] = s.topics[GroupOf[a.row]]
      BY <1>3, <1>4, <1>8, <2>2
    <3> QED BY <1>8, <3>1 DEF Tops
  <2> QED BY <2>1, <2>2
<1>12. Tops(out, b)
  <2>1. out.topics[GroupOf[b.row]] = next
    BY <1>1, <1>3, <1>4, <1>5
  <2>2. b.ord = next.ord /\ b.index = next.count /\ next.count \in Nat /\ next.ord \in Nat
    BY <1>5, <1>6 DEF Episodes, Count
  <2>3. TopsIn(next, b)
    BY <1>1, <1>5, <1>6, <1>7, <2>2 DEF TopsIn
  <2> QED BY <2>1, <2>3 DEF Tops
<1>13. \A x, y \in alerts \cup {b} : x.row < y.row => Follows(x, y)
  <2>0. \A x \in alerts : x.row \in Nat /\ x.row < r
    BY RowFacts DEF Alerts
  <2>1. \A x \in alerts : ~ (b.row < x.row)
    BY <1>1, <1>5, <2>0, RowFacts
  <2>2. ~ (b.row < b.row)
    BY <1>1, <1>5, RowFacts
  <2>3. \A x, y \in alerts : x.row < y.row => Follows(x, y)
    BY DEF LoopStory
  <2>4. \A x \in alerts : Follows(x, b)
    BY <1>10
  <2> QED BY <2>1, <2>2, <2>3, <2>4
<1>14. \A x \in Said : \A y \in alerts \cup {b} : Follows(x, y)
  BY <1>10 DEF LoopStory
<1>15. \A x \in Said \cup (alerts \cup {b}) : Tops(out, x)
  BY <1>11, <1>12
<1>16. LoopStory(out, alerts \cup {b})
  BY <1>13, <1>14, <1>15 DEF LoopStory
<1> QED BY <1>16 DEF out, b

LEMMA ShockTakes ==
  ASSUME TypeInv, SaidAreShocks, NEW acc, NEW seen \in SUBSET Rows,
         NEW r \in Of("shock"), r \notin seen, LoopInv(acc, seen, r),
         ~ (Cardinality(acc.alerts) >= Limit),
         acc.state.sent["shock"][Fingerprint(r)] = Never,
         Passes(acc.state.topics[GroupOf[r]], r)
  PROVE  LoopInv(Outcome(ShockState(acc.state, r),
                         acc.alerts \cup {ShockAlert(acc.state, r)}, TRUE),
                 seen \cup {r}, r + 1)
<1> DEFINE s      == acc.state
           alerts == acc.alerts
           p      == Fingerprint(r)
           b      == ShockAlert(s, r)
           out    == ShockState(s, r)
           next   == NextTopic(s.topics[GroupOf[r]], s.episodes, r)
           new    == Outcome(out, alerts \cup {b}, TRUE)
<1>1. /\ Sound(s, seen) /\ s.cursor = mem.cursor /\ AlertsOf(alerts, "shock")
      /\ s.sent = [mem.sent EXCEPT !["shock"] = Marked(@, Prints(alerts))]
      /\ \A a \in alerts : a.row < r /\ mem.sent["shock"][a.print] = Never
      /\ LoopStory(s, alerts)
  BY DEF LoopInv
<1>2. /\ r \in Rows /\ r \in Nat /\ KindOf[r] = "shock"
      /\ p \in Fingerprints /\ p[1] = r
  BY PrintType, RowFacts DEF Of
<1>3. b = [row |-> r, print |-> p, ord |-> next.ord, index |-> next.count]
  BY DEF ShockAlert
<1>4. Sound(out, seen \cup {r})
  BY <1>1, ShockStateSound
<1>5. out.cursor = mem.cursor /\ out.sent = [s.sent EXCEPT !["shock"] = [@ EXCEPT ![p] = now]]
  <2>1. s \in States
    BY <1>1 DEF Sound
  <2> QED BY <1>1, <2>1, ShockStateFields
<1>6. next \in Episodes
  <2>1. Cardinality(seen) \in Nat /\ Cardinality(seen) + 1 \in Count
    BY <1>2, SeenOneMore
  <2>2. /\ s.episodes \in Nat /\ s.episodes <= Cardinality(seen)
        /\ s.topics[GroupOf[r]] \in Episodes \cup {NoEpisode}
        /\ SoundTopic(s.topics[GroupOf[r]], Cardinality(seen), s.episodes)
    BY <1>1, RowFacts DEF Sound, States, Count
  <2> QED BY <2>1, <2>2, NextTopicType
<1>7. LoopStory(out, alerts \cup {b})
  <2>1. alerts \subseteq Alerts /\ \A a \in alerts : KindOf[a.row] = "shock" /\ a.row < r
    BY <1>1 DEF AlertsOf
  <2>2. Passes(s.topics[GroupOf[r]], r)
    OBVIOUS
  <2> HIDE DEF s, alerts, b, out
  <2>3. LoopStory(ShockState(s, r), alerts \cup {ShockAlert(s, r)})
    BY <1>1, <2>1, <2>2, ShockStory
  <2> QED BY <2>3 DEF b, out
<1> HIDE DEF next, out, b, p
<1>8. b.row = r /\ b.print = p /\ b \in Alerts
  BY <1>2, <1>3, <1>6 DEF Alerts, Episodes
<1>9. /\ IsFiniteSet(alerts) /\ alerts \subseteq Alerts /\ Cardinality(alerts) \in Nat
      /\ \A a \in alerts : KindOf[a.row] = "shock" /\ a.print = Fingerprint(a.row)
      /\ \A a, c \in alerts : a.row = c.row => a = c
      /\ \A a \in alerts : a.row \in Nat /\ a.row # r
  <2> HIDE DEF alerts
  <2>1. /\ IsFiniteSet(alerts) /\ alerts \subseteq Alerts
        /\ \A a \in alerts : KindOf[a.row] = "shock" /\ a.print = Fingerprint(a.row)
        /\ \A a, c \in alerts : a.row = c.row => a = c
    BY <1>1, Zenon DEF AlertsOf
  <2>2. Cardinality(alerts) \in Nat
    BY <2>1, FS_CardinalityType
  <2>3. \A a \in alerts : a.row \in Nat /\ a.row < r
    BY <1>1, <2>1, RowFacts DEF Alerts
  <2>4. \A a \in alerts : a.row \in Nat /\ a.row # r
    BY <1>2, <2>3
  <2> QED BY <2>1, <2>2, <2>4
<1>10. IsFiniteSet(alerts \cup {b}) /\ Cardinality(alerts \cup {b}) <= Limit
  <2>1. b \notin alerts
    BY <1>8, <1>9
  <2>2. /\ IsFiniteSet(alerts \cup {b})
        /\ Cardinality(alerts \cup {b}) = Cardinality(alerts) + 1
    BY <1>9, <2>1, FS_AddElement
  <2>3. ~ (Cardinality(alerts) >= Limit) /\ Limit \in Nat
    BY FeedAssumption
  <2> HIDE DEF alerts
  <2> QED BY <1>9, <2>2, <2>3
<1>11. AlertsOf(alerts \cup {b}, "shock")
  <2>1. alerts \cup {b} \subseteq Alerts
    BY <1>8, <1>9
  <2>2. \A a \in alerts \cup {b} : KindOf[a.row] = "shock" /\ a.print = Fingerprint(a.row)
    BY <1>2, <1>8, <1>9 DEF p
  <2>3. \A a, c \in alerts \cup {b} : a.row = c.row => a = c
    BY <1>8, <1>9
  <2> HIDE DEF alerts
  <2> QED BY <1>10, <2>1, <2>2, <2>3 DEF AlertsOf
<1>12. Prints(alerts \cup {b}) = Prints(alerts) \cup {p}
  <2>1. \A a \in alerts \cup {b} : a.print \in Prints(alerts) \cup {p}
    BY <1>8 DEF Prints
  <2> QED BY <1>8, <2>1 DEF Prints
<1>13. mem.sent \in [Feeds -> Marks] /\ "shock" \in Feeds
  BY DEF TypeInv, TypeOK, States, Marks, Feeds
<1>14. out.sent = [mem.sent EXCEPT !["shock"] = Marked(@, Prints(alerts \cup {b}))]
  <2> DEFINE old == mem.sent["shock"]
             marked == Marked(old, Prints(alerts))
  <2>1. [marked EXCEPT ![p] = now] = Marked(old, Prints(alerts) \cup {p})
    BY <1>2, <1>13, MarkedOneMore
  <2>2. s.sent["shock"] = marked
    BY <1>1, <1>13
  <2>3. out.sent = [mem.sent EXCEPT !["shock"] = [marked EXCEPT ![p] = now]]
    <3> HIDE DEF marked, s
    <3> QED BY <1>1, <1>5, <1>13, <2>2 DEF marked
  <2> HIDE DEF marked
  <2> QED BY <1>12, <2>1, <2>3
<1>15. mem.sent["shock"][p] = Never
  <2>1. s.sent["shock"] = Marked(mem.sent["shock"], Prints(alerts))
    BY <1>1, <1>13
  <2>2. s.sent["shock"][p] = Never
    BY DEF p
  <2>3. now # Never
    BY FeedAssumption DEF TypeInv, TypeOK, Times, Never
  <2>4. s.sent["shock"][p] = IF p \in Prints(alerts) THEN now ELSE mem.sent["shock"][p]
    BY <1>2, <2>1 DEF Marked
  <2> QED BY <2>2, <2>3, <2>4
<1>16. \A a \in alerts \cup {b} : a.row < r + 1 /\ mem.sent["shock"][a.print] = Never
  BY <1>1, <1>2, <1>8, <1>9, <1>15
<1>17. new.state = out /\ new.alerts = alerts \cup {b}
  BY DEF Outcome
<1> HIDE DEF new
<1>18. LoopInv(new, seen \cup {r}, r + 1)
  BY <1>4, <1>5, <1>7, <1>11, <1>14, <1>16, <1>17 DEF LoopInv
<1> QED BY <1>18 DEF new, out, b

LEMMA ShockTurn ==
  ASSUME TypeInv, SaidAreShocks, NEW acc, NEW seen \in SUBSET Rows,
         NEW r \in Of("shock"), r \notin seen, LoopInv(acc, seen, r)
  PROVE  LoopInv(Shock(acc, r), seen \cup {r}, r + 1)
<1>1. r \in Rows /\ r \in Nat /\ seen \cup {r} \in SUBSET Rows /\ seen \subseteq seen \cup {r}
  BY RowFacts
<1>2. CASE Shock(acc, r) = acc
  <2>1. LoopInv(acc, seen \cup {r}, r + 1)
    BY <1>1, LoopSkips
  <2> QED BY <1>2, <2>1
<1>3. CASE /\ Shock(acc, r) = Outcome(ShockState(acc.state, r),
                                      acc.alerts \cup {ShockAlert(acc.state, r)}, TRUE)
           /\ ~ (Cardinality(acc.alerts) >= Limit)
           /\ acc.state.sent["shock"][Fingerprint(r)] = Never
           /\ Passes(acc.state.topics[GroupOf[r]], r)
  <2>1. LoopInv(Outcome(ShockState(acc.state, r),
                        acc.alerts \cup {ShockAlert(acc.state, r)}, TRUE),
                seen \cup {r}, r + 1)
    BY <1>3, ShockTakes
  <2> QED BY <1>3, <2>1
<1> QED BY <1>2, <1>3, ShockCases

(***************************************************************************)
(* There is a loop: by induction, one up to every row.                     *)
(***************************************************************************)
Turn(rows, g, n) ==
  IF n = 0 THEN Outcome(mem, {}, FALSE)
  ELSE IF n - 1 \in rows THEN Shock(g[n - 1], n - 1) ELSE g[n - 1]

IsLoop(rows, g, n) == g = [k \in 0 .. n |-> Turn(rows, g, k)]

LEMMA LoopExists ==
  ASSUME NEW rows, NEW end \in Nat
  PROVE  \E g : IsLoop(rows, g, end)
<1> DEFINE G == {n \in Nat : \E g : IsLoop(rows, g, n)}
<1>1. 0 \in G
  <2> DEFINE g == [k \in 0 .. 0 |-> Outcome(mem, {}, FALSE)]
  <2>1. \A k \in 0 .. 0 : Turn(rows, g, k) = Outcome(mem, {}, FALSE)
    BY DEF Turn
  <2>2. IsLoop(rows, g, 0)
    BY <2>1, Zenon DEF IsLoop
  <2> QED BY <2>2
<1>2. ASSUME NEW n \in Nat, n \in G PROVE n + 1 \in G
  <2>1. PICK g : IsLoop(rows, g, n)
    BY <1>2
  <2> DEFINE h == [k \in 0 .. n + 1 |-> Turn(rows, g, k)]
  <2>2. ASSUME NEW k \in 0 .. n + 1 PROVE Turn(rows, h, k) = Turn(rows, g, k)
    <3>1. CASE k = 0
      BY <3>1 DEF Turn
    <3>2. CASE k # 0
      <4>1. k - 1 \in 0 .. n /\ k - 1 \in 0 .. n + 1
        BY <3>2
      <4>2. h[k - 1] = Turn(rows, g, k - 1)
        BY <4>1
      <4>3. g[k - 1] = Turn(rows, g, k - 1)
        <5>1. g = [j \in 0 .. n |-> Turn(rows, g, j)]
          BY <2>1 DEF IsLoop
        <5> DEFINE j == k - 1
        <5>2. j \in 0 .. n
          BY <4>1
        <5> HIDE DEF j
        <5>3. [i \in 0 .. n |-> Turn(rows, g, i)][j] = Turn(rows, g, j)
          BY <5>2, Zenon
        <5>4. g[j] = Turn(rows, g, j)
          BY <5>1, <5>3, Zenon
        <5> QED BY <5>4 DEF j
      <4>4. h[k - 1] = g[k - 1]
        BY <4>2, <4>3
      <4> HIDE DEF h
      <4> QED BY <3>2, <4>4, Zenon DEF Turn
    <3> QED BY <3>1, <3>2
  <2>3. IsLoop(rows, h, n + 1)
    BY <2>2, Zenon DEF IsLoop
  <2> QED BY <2>3
<1> HIDE DEF G
<1>3. end \in G
  BY <1>1, <1>2, CountInduction
<1> QED BY <1>3 DEF G

LEMMA LoopUnfolds ==
  ASSUME NEW rows, Max(rows) + 1 \in Nat
  PROVE  \E g : /\ ShockLoop(rows) = g[Max(rows) + 1]
                /\ \A n \in 0 .. Max(rows) + 1 : g[n] = Turn(rows, g, n)
<1> DEFINE end == Max(rows) + 1
           g   == CHOOSE x : IsLoop(rows, x, end)
<1>1. ShockLoop(rows) = g[end]
  BY Zenon DEF ShockLoop, IsLoop, Turn
<1>2. IsLoop(rows, g, end)
  BY LoopExists
<1> HIDE DEF g, end
<1>3. \A n \in 0 .. end : g[n] = Turn(rows, g, n)
  <2>1. ASSUME NEW n \in 0 .. end PROVE g[n] = Turn(rows, g, n)
    <3>1. g = [k \in 0 .. end |-> Turn(rows, g, k)]
      BY <1>2 DEF IsLoop
    <3>2. [k \in 0 .. end |-> Turn(rows, g, k)][n] = Turn(rows, g, n)
      BY Zenon
    <3> QED BY <3>1, <3>2, Zenon
  <2> QED BY <2>1
<1> QED BY <1>1, <1>3 DEF end

SeenBefore(rows, n) == Behind(mem) \cup {r \in rows : r < n}

LEMMA SeenFacts ==
  ASSUME NEW n \in Nat, Load("shock") \subseteq Of("shock"),
         \A r \in Load("shock") : TsOf[r] > mem.cursor["shock"], mem \in States
  PROVE  /\ SeenBefore(Load("shock"), n) \in SUBSET Rows
         /\ SeenBefore(Load("shock"), 0) = Behind(mem)
         /\ n \in Load("shock") =>
              /\ n \notin SeenBefore(Load("shock"), n)
              /\ SeenBefore(Load("shock"), n + 1) = SeenBefore(Load("shock"), n) \cup {n}
         /\ n \notin Load("shock") =>
              SeenBefore(Load("shock"), n + 1) = SeenBefore(Load("shock"), n)
<1> DEFINE rows == Load("shock")
<1>1. rows \subseteq Rows /\ rows \subseteq Nat /\ Behind(mem) \subseteq Rows
  BY RowFacts DEF Behind
<1>2. mem.cursor["shock"] \in Int /\ \A r \in Rows : TsOf[r] \in Nat
  <2>1. Instants \cup {Never} \subseteq Int
    BY RowFacts DEF Never
  <2>2. mem.cursor["shock"] \in Instants \cup {Never}
    BY DEF States, Feeds
  <2> QED BY <2>1, <2>2, RowFacts
<1>3. n \in rows => n \notin Behind(mem)
  BY <1>1, <1>2 DEF Behind
<1> HIDE DEF rows
<1>4. {r \in rows : r < 0} = {}
  <2>1. \A r \in rows : ~ (r < 0)
    BY <1>1
  <2> QED BY <2>1, Zenon
<1>5. \A r \in rows : r < n + 1 <=> r < n \/ r = n
  BY <1>1
<1>6. n \in rows => {r \in rows : r < n + 1} = {r \in rows : r < n} \cup {n}
  BY <1>5, Zenon
<1>7. n \notin rows => {r \in rows : r < n + 1} = {r \in rows : r < n}
  BY <1>5, Zenon
<1>8. n \notin {r \in rows : r < n}
  OBVIOUS
<1>9. SeenBefore(rows, n) \in SUBSET Rows
  BY <1>1 DEF SeenBefore
<1>10. SeenBefore(rows, 0) = Behind(mem)
  <2>1. \A A : A \cup {} = A
    OBVIOUS
  <2> QED BY <1>4, <2>1, Zenon DEF SeenBefore
<1>11. n \in rows =>
         /\ n \notin SeenBefore(rows, n)
         /\ SeenBefore(rows, n + 1) = SeenBefore(rows, n) \cup {n}
  <2>1. n \in rows => n \notin SeenBefore(rows, n)
    BY <1>3, <1>8, Zenon DEF SeenBefore
  <2>2. \A A, B, C : A \cup (B \cup C) = (A \cup B) \cup C
    OBVIOUS
  <2>3. n \in rows => SeenBefore(rows, n + 1) = SeenBefore(rows, n) \cup {n}
    BY <1>6, <2>2, Zenon DEF SeenBefore
  <2> QED BY <2>1, <2>3
<1>12. n \notin rows => SeenBefore(rows, n + 1) = SeenBefore(rows, n)
  BY <1>7, Zenon DEF SeenBefore
<1> QED BY <1>9, <1>10, <1>11, <1>12 DEF rows

SaidIsTopped == SaidAreShocks /\ \A a \in Said : Tops(mem, a)

LEMMA LoopBegins ==
  ASSUME TypeInv, SaidIsTopped
  PROVE  LoopInv(Outcome(mem, {}, FALSE), Behind(mem), 0)
<1> DEFINE o == Outcome(mem, {}, FALSE)
<1>1. o.state = mem /\ o.alerts = {}
  BY DEF Outcome
<1> HIDE DEF o
<1>2. Sound(mem, Behind(mem)) /\ mem.sent \in [Feeds -> Marks] /\ "shock" \in Feeds
  BY DEF TypeInv, TypeOK, States, Marks, Feeds
<1>3. AlertsOf({}, "shock")
  BY FS_EmptySet, FeedAssumption DEF AlertsOf
<1>4. mem.sent = [mem.sent EXCEPT !["shock"] = Marked(@, Prints({}))]
  <2>1. Marked(mem.sent["shock"], Prints({})) = mem.sent["shock"]
    BY <1>2 DEF Marked, Prints, Marks
  <2> QED BY <1>2, <2>1
<1>5. LoopStory(mem, {})
  BY DEF LoopStory, SaidIsTopped
<1>6. LoopInv(o, Behind(mem), 0)
  BY <1>1, <1>2, <1>3, <1>4, <1>5 DEF LoopInv
<1> QED BY <1>6 DEF o

LEMMA LoopHolds ==
  ASSUME TypeInv, SaidIsTopped, Load("shock") # {}
  PROVE  \E n \in Nat : /\ LoopInv(ShockLoop(Load("shock")), SeenBefore(Load("shock"), n), n)
                        /\ Load("shock") \subseteq SeenBefore(Load("shock"), n)
<1> DEFINE rows == Load("shock")
           end  == Max(rows) + 1
<1>1. /\ rows \subseteq Of("shock") /\ rows \subseteq Rows /\ IsFiniteSet(rows)
      /\ \A r \in rows : TsOf[r] > mem.cursor["shock"]
      /\ rows \subseteq Nat /\ mem \in States
  BY LoadFacts, RowFacts DEF Feeds, TypeInv, TypeOK
<1>2. Max(rows) \in rows /\ \A r \in rows : r <= Max(rows)
  <2>1. rows # {}
    OBVIOUS
  <2> HIDE DEF rows
  <2> QED BY <1>1, <2>1, MaxOf
<1>3. end \in Nat /\ \A r \in rows : r < end
  BY <1>1, <1>2
<1>4. PICK g : ShockLoop(rows) = g[end] /\ \A n \in 0 .. end : g[n] = Turn(rows, g, n)
  BY <1>3, LoopUnfolds
<1>5. \A n \in Nat :
        /\ SeenBefore(rows, n) \in SUBSET Rows
        /\ SeenBefore(rows, 0) = Behind(mem)
        /\ n \in rows =>
             /\ n \notin SeenBefore(rows, n)
             /\ SeenBefore(rows, n + 1) = SeenBefore(rows, n) \cup {n}
        /\ n \notin rows => SeenBefore(rows, n + 1) = SeenBefore(rows, n)
  BY <1>1, SeenFacts
<1> HIDE DEF rows, end
<1> DEFINE G == {n \in Nat : n <= end => LoopInv(g[n], SeenBefore(rows, n), n)}
<1>6. 0 \in G
  <2>1. g[0] = Outcome(mem, {}, FALSE)
    <3>1. 0 \in 0 .. end
      BY <1>3
    <3>2. g[0] = Turn(rows, g, 0)
      BY <1>4, <3>1, Zenon
    <3> QED BY <3>2, Zenon DEF Turn
  <2>2. LoopInv(g[0], SeenBefore(rows, 0), 0)
    BY <1>5, <2>1, LoopBegins
  <2> QED BY <2>2
<1>7. ASSUME NEW n \in Nat, n \in G PROVE n + 1 \in G
  <2> SUFFICES ASSUME n + 1 <= end
               PROVE  LoopInv(g[n + 1], SeenBefore(rows, n + 1), n + 1)
    OBVIOUS
  <2>1. LoopInv(g[n], SeenBefore(rows, n), n)
    BY <1>3, <1>7
  <2>2. g[n + 1] = IF n \in rows THEN Shock(g[n], n) ELSE g[n]
    <3>1. n + 1 \in 0 .. end /\ n + 1 # 0 /\ (n + 1) - 1 = n
      BY <1>3
    <3>2. g[n + 1] = Turn(rows, g, n + 1)
      BY <1>4, <3>1
    <3> QED BY <3>1, <3>2 DEF Turn
  <2>3. CASE n \in rows
    <3>1. LoopInv(Shock(g[n], n), SeenBefore(rows, n) \cup {n}, n + 1)
      BY <1>1, <1>5, <2>1, <2>3, ShockTurn DEF SaidIsTopped
    <3> QED BY <1>5, <2>2, <2>3, <3>1
  <2>4. CASE n \notin rows
    <3>1. LoopInv(g[n], SeenBefore(rows, n), n + 1)
      BY <1>5, <2>1, LoopSkips
    <3> QED BY <1>5, <2>2, <2>4, <3>1
  <2> QED BY <2>3, <2>4
<1> HIDE DEF G
<1>8. end \in G
  BY <1>3, <1>6, <1>7, CountInduction
<1>9. LoopInv(ShockLoop(rows), SeenBefore(rows, end), end)
  BY <1>3, <1>4, <1>8 DEF G
<1>10. rows \subseteq SeenBefore(rows, end)
  BY <1>3 DEF SeenBefore
<1> QED BY <1>3, <1>9, <1>10 DEF rows

LEMMA ShockSelected ==
  ASSUME TypeInv, SaidIsTopped, Load("shock") # {},
         NEW done \in ShockOutcomes(Load("shock"))
  PROVE  Selected("shock", done) /\ LoopStory(done.state, done.alerts)
<1> DEFINE rows  == Load("shock")
           d     == ShockLoop(rows)
           clean == Cleaned(d.state.sent["shock"])
<1>1. PICK last \in Latest(rows) :
        done = Outcome([mem EXCEPT !.sent["shock"] = clean, !.cursor["shock"] = TsOf[last],
                                   !.topics = d.state.topics,
                                   !.episodes = d.state.episodes],
                       d.alerts, d.changed \/ Expired(d.state.sent["shock"]) # {})
  BY Zenon DEF ShockOutcomes
<1>2. PICK n \in Nat : LoopInv(d, SeenBefore(rows, n), n) /\ rows \subseteq SeenBefore(rows, n)
  BY LoopHolds
<1>3. /\ rows \subseteq Rows /\ rows \subseteq Of("shock") /\ last \in rows
      /\ \A r \in rows : TsOf[r] <= TsOf[last] /\ TsOf[r] > mem.cursor["shock"]
  BY LoadFacts DEF Feeds, Latest
<1>4. mem \in States /\ now \in Times
  BY DEF TypeInv, TypeOK
<1>5. mem.sent \in [Feeds -> Marks] /\ "shock" \in Feeds
  BY <1>4 DEF States, Marks, Feeds
<1> DEFINE s == [mem EXCEPT !.sent["shock"] = clean, !.cursor["shock"] = TsOf[last],
                            !.topics = d.state.topics, !.episodes = d.state.episodes]
<1>6. done.state = s /\ done.alerts = d.alerts
  BY <1>1 DEF Outcome
<1>7. /\ Sound(d.state, SeenBefore(rows, n)) /\ AlertsOf(d.alerts, "shock")
      /\ d.state.sent = [mem.sent EXCEPT !["shock"] = Marked(@, Prints(d.alerts))]
      /\ \A a \in d.alerts : mem.sent["shock"][a.print] = Never
      /\ LoopStory(d.state, d.alerts)
  BY <1>2, Zenon DEF LoopInv
<1>8. clean = Cleaned(Marked(mem.sent["shock"], Prints(d.alerts)))
  BY <1>5, <1>7
<1> HIDE DEF d, clean, rows
<1>9. clean = MarkedFor("shock", d.alerts)["shock"] /\ clean \in Marks
  <2>1. MarkedFor("shock", d.alerts)["shock"] = clean
    BY <1>5, <1>8 DEF MarkedFor
  <2> QED BY <1>5, <2>1, MarkedForType
<1>10. /\ s.sent = [mem.sent EXCEPT !["shock"] = clean]
       /\ s.cursor = [mem.cursor EXCEPT !["shock"] = TsOf[last]]
       /\ s.topics = d.state.topics /\ s.episodes = d.state.episodes
       /\ s = [cursor |-> s.cursor, sent |-> s.sent, topics |-> s.topics,
               episodes |-> s.episodes]
  <2> DEFINE topics == d.state.topics
             count  == d.state.episodes
             at     == TsOf[last]
  <2>1. mem = [cursor |-> mem.cursor, sent |-> mem.sent, topics |-> mem.topics,
               episodes |-> mem.episodes]
    BY <1>4 DEF States
  <2>2. s = [mem EXCEPT !.sent["shock"] = clean, !.cursor["shock"] = at,
                        !.topics = topics, !.episodes = count]
    OBVIOUS
  <2> HIDE DEF topics, count, at, s
  <2>3. /\ s.sent = [mem.sent EXCEPT !["shock"] = clean]
        /\ s.cursor = [mem.cursor EXCEPT !["shock"] = at]
        /\ s.topics = topics /\ s.episodes = count
    BY <2>1, <2>2
  <2>4. s = [cursor |-> s.cursor, sent |-> s.sent, topics |-> s.topics,
             episodes |-> s.episodes]
    BY <2>1, <2>2
  <2> QED BY <2>3, <2>4 DEF topics, count, at
<1> HIDE DEF s
<1>11. s.sent = MarkedFor("shock", d.alerts)
  BY <1>8, <1>10, Zenon DEF MarkedFor
<1>12. d.state.topics \in [Topics -> Episodes \cup {NoEpisode}] /\ d.state.episodes \in Count
  BY <1>7 DEF Sound, States
<1>13. s.sent \in [Feeds -> Marks]
  BY <1>5, <1>9, <1>10
<1>14. s.cursor \in [Feeds -> Instants \cup {Never}] /\ s.cursor["shock"] = TsOf[last]
  <2>1. mem.cursor \in [Feeds -> Instants \cup {Never}]
    BY <1>4 DEF States
  <2>2. TsOf[last] \in Instants
    BY <1>3, RowFacts
  <2> QED BY <1>5, <1>10, <2>1, <2>2
<1>15. s \in States
  BY <1>10, <1>12, <1>13, <1>14 DEF States, Marks
<1>16. SeenBefore(rows, n) \subseteq Behind(s)
  <2>1. TsOf[last] \in Nat /\ TsOf[last] > mem.cursor["shock"]
    BY <1>3, RowFacts
  <2>2. mem.cursor["shock"] \in Int
    <3>1. Instants \cup {Never} \subseteq Int
      BY RowFacts DEF Never
    <3>2. mem.cursor["shock"] \in Instants \cup {Never}
      BY <1>4 DEF States, Feeds
    <3> QED BY <3>1, <3>2
  <2>3. \A r \in Of("shock") : TsOf[r] \in Nat
    BY RowFacts
  <2>4. \A r \in Behind(mem) : r \in Of("shock") /\ TsOf[r] <= TsOf[last]
    BY <2>1, <2>2, <2>3 DEF Behind
  <2>5. \A r \in rows : r \in Of("shock") /\ TsOf[r] <= TsOf[last]
    BY <1>3
  <2> QED BY <1>14, <2>4, <2>5 DEF SeenBefore, Behind
<1>17. Sound(s, Behind(s))
  <2>1. Sound(s, SeenBefore(rows, n))
    BY <1>7, <1>10, <1>15 DEF Sound
  <2>2. Behind(s) \in SUBSET Rows /\ SeenBefore(rows, n) \in SUBSET Rows
    BY <1>3, RowFacts DEF Behind, SeenBefore
  <2> QED BY <1>16, <2>1, <2>2, SoundMore
<1>18. Selected("shock", done)
  BY <1>6, <1>7, <1>11, <1>17 DEF Selected
<1>19. LoopStory(s, d.alerts)
  BY <1>7, <1>10 DEF LoopStory, Tops
<1> QED BY <1>6, <1>18, <1>19

-----------------------------------------------------------------------------
(* Types.                                                                  *)

LEMMA PolicySelected ==
  ASSUME TypeInv, SaidIsTopped, Load(feed) # {}, NEW done \in Outcomes(feed, Load(feed))
  PROVE  /\ Selected(feed, done)
         /\ feed # "shock" => done.state.topics = mem.topics
         /\ feed = "shock" => LoopStory(done.state, done.alerts)
<1>1. CASE feed = "root"
  <2>1. done \in RootOutcomes(Load("root"))
    BY <1>1 DEF Outcomes
  <2> QED BY <1>1, <2>1, RootSelected
<1>2. CASE feed = "shock"
  <2>1. done \in ShockOutcomes(Load("shock")) /\ Load("shock") # {}
    BY <1>2 DEF Outcomes
  <2> QED BY <1>2, <2>1, ShockSelected
<1>3. CASE feed = "news"
  <2>1. done \in NewsOutcomes(Load("news"))
    BY <1>3 DEF Outcomes
  <2> QED BY <1>3, <2>1, NewsSelected
<1> QED BY <1>1, <1>2, <1>3 DEF TypeInv, TypeOK, Feeds

LEMMA NoAlerts == \A f : AlertsOf({}, f)
  BY FS_EmptySet, FeedAssumption DEF AlertsOf

LEMMA EmptyIsSound == Sound(EmptyState, Behind(EmptyState))
<1>1. EmptyState \in States
  BY RowFacts DEF EmptyState, States, Count
<1>2. Behind(EmptyState) \in SUBSET Rows /\ Cardinality(Behind(EmptyState)) \in Nat
  <2>1. Behind(EmptyState) \in SUBSET Rows
    BY RowFacts DEF Behind
  <2> QED BY <2>1, SeenMore
<1>3. EmptyState.episodes = 0 /\ \A t \in Topics : EmptyState.topics[t] = NoEpisode
  BY DEF EmptyState
<1> QED BY <1>1, <1>2, <1>3 DEF Sound, SoundTopic

LEMMA TypeInit == Init => TypeInv
<1> SUFFICES ASSUME Init PROVE TypeInv
  OBVIOUS
<1>1. EmptyState \in States
  BY EmptyIsSound DEF Sound
<1>2. /\ now \in Times /\ faults \in 0 .. MaxFaults /\ version \in [Rows -> 0 .. MaxVersion]
  BY FeedAssumption DEF Init, Times
<1>3. feed \in Feeds
  BY DEF Init, Feeds
<1>4. when \in [Chats \X Fingerprints -> Times \cup {Never}]
  BY DEF Init
<1>5. TypeOK
  BY <1>1, <1>2, <1>3, <1>4, FS_EmptySet, FeedAssumption DEF Init, TypeOK
<1> QED BY <1>5, NoAlerts, EmptyIsSound DEF Init, TypeInv

LEMMA TypeSelect ==
  ASSUME TypeInv, SaidIsTopped, Select
  PROVE  TypeInv'
<1>1. PICK done \in Outcomes(feed, Load(feed)) :
        /\ mem' = done.state /\ queue' = done.alerts
        /\ IF done.alerts = {} /\ ~done.changed
           THEN feed' = After[feed] /\ UNCHANGED pc
           ELSE pc' = "send" /\ UNCHANGED feed
  BY DEF Select
<1>2. Selected(feed, done)
  BY PolicySelected DEF Select
<1>3. /\ pc = "load" /\ dropped' = dropped \cup LeftOut(feed)
      /\ UNCHANGED <<now, visible, version, disk, faults, tried, received, late, when, told>>
  BY DEF Select, tables
<1>4. feed \in Feeds /\ feed' \in Feeds /\ pc' \in {"load", "send"}
  BY <1>1, <1>3 DEF TypeInv, TypeOK, After, Feeds
<1>5. dropped' \subseteq Rows
  <2>1. LeftOut(feed) \subseteq Rows
    BY <1>4, LoadIsWaiting, RowFacts DEF LeftOut
  <2> QED BY <1>3, <2>1 DEF TypeInv, TypeOK
<1>6. mem' \in States /\ Sound(mem', Behind(mem'))
  BY <1>1, <1>2 DEF Selected, Sound
<1>7. AlertsOf(queue', feed')
  <2>1. CASE done.alerts = {}
    BY <1>1, <2>1, NoAlerts
  <2>2. CASE done.alerts # {}
    BY <1>1, <1>2, <2>2 DEF Selected
  <2> QED BY <2>1, <2>2
<1>8. AlertsOf(queue, feed)'
  BY <1>3, <1>7 DEF AlertsOf, Fingerprint
<1>9. TypeOK'
  BY <1>3, <1>4, <1>5, <1>6, <1>7 DEF TypeInv, TypeOK, AlertsOf
<1>10. (pc = "load" => queue = {})'
  BY <1>1
<1>11. Sound(mem, Behind(mem))' /\ Sound(disk, Behind(disk))'
  BY <1>3, <1>6 DEF TypeInv, Sound, Behind
<1> QED BY <1>8, <1>9, <1>10, <1>11 DEF TypeInv

LEMMA FewerAlerts ==
  ASSUME NEW alerts, NEW f, AlertsOf(alerts, f), NEW a \in alerts
  PROVE  AlertsOf(alerts \ {a}, f)
<1>1. /\ IsFiniteSet(alerts \ {a}) /\ Cardinality(alerts \ {a}) = Cardinality(alerts) - 1
      /\ Cardinality(alerts) \in Nat /\ Cardinality(alerts) <= Limit
  BY FS_RemoveElement, FS_CardinalityType DEF AlertsOf
<1>2. Cardinality(alerts \ {a}) <= Limit
  BY <1>1, FeedAssumption
<1> QED BY <1>1, <1>2 DEF AlertsOf

LEMMA TypeSend ==
  ASSUME TypeInv, Send
  PROVE  TypeInv'
<1>1. PICK alert \in queue, reached \in SUBSET Chats, ok \in SUBSET Chats :
        /\ queue' = queue \ {alert}
        /\ ok # Chats => faults < MaxFaults
        /\ faults' = IF ok = Chats THEN faults ELSE faults + 1
        /\ mem' = [mem EXCEPT !.sent = Unmark(@, alert, ok)]
        /\ when' = Heard(alert, reached, ok)
        /\ received' = IF reached = {} THEN received ELSE received \cup {alert.row}
        /\ tried' = tried \cup {alert.row}
        /\ told' = IF feed = "shock" THEN Append(told, alert) ELSE told
  BY Zenon DEF Send
<1>2. pc = "send" /\ UNCHANGED <<now, visible, version, disk, pc, feed, late, dropped>>
  BY DEF Send, tables
<1>3. alert \in Alerts /\ alert.row \in Rows /\ alert.print \in Fingerprints
  BY DEF TypeInv, TypeOK, Alerts
<1>4. mem' \in States /\ mem'.cursor = mem.cursor /\ mem'.topics = mem.topics
      /\ mem'.episodes = mem.episodes
  <2>1. mem.sent \in [Feeds -> Marks]
    BY DEF TypeInv, TypeOK, States, Marks
  <2>2. Unmark(mem.sent, alert, ok) \in [Feeds -> Marks]
    BY <1>3, <2>1 DEF Unmark, Marks, TypeInv, TypeOK
  <2> QED BY <1>1, <2>2 DEF TypeInv, TypeOK, States, Marks
<1>5. Sound(mem', Behind(mem'))
  BY <1>4 DEF TypeInv, Sound, Behind
<1>6. AlertsOf(queue', feed)
  BY <1>1, FewerAlerts DEF TypeInv
<1>7. AlertsOf(queue, feed)'
  BY <1>2, <1>6 DEF AlertsOf, Fingerprint
<1>8. when' \in [Chats \X Fingerprints -> Times \cup {Never}]
  BY <1>1 DEF Heard, TypeInv, TypeOK
<1>9. faults' \in 0 .. MaxFaults
  BY <1>1, FeedAssumption DEF TypeInv, TypeOK
<1>10. told' \in Seq(Alerts)
  BY <1>1, <1>3 DEF TypeInv, TypeOK
<1>11. tried' \subseteq Rows /\ received' \subseteq Rows
  BY <1>1, <1>3 DEF TypeInv, TypeOK
<1>12. TypeOK'
  BY <1>2, <1>4, <1>6, <1>8, <1>9, <1>10, <1>11 DEF TypeInv, TypeOK, AlertsOf
<1>13. Sound(mem, Behind(mem))' /\ Sound(disk, Behind(disk))'
  BY <1>2, <1>5 DEF TypeInv, Sound, Behind
<1> QED BY <1>2, <1>7, <1>12, <1>13 DEF TypeInv

LEMMA TypeCrash ==
  ASSUME TypeInv, Crash
  PROVE  TypeInv'
<1>1. /\ mem' = disk' /\ disk' \in {disk, EmptyState}
      /\ pc' = "load" /\ feed' = "root" /\ queue' = {}
      /\ when' = [p \in DOMAIN when |-> Never] /\ told' = <<>>
      /\ faults < MaxFaults /\ faults' = faults + 1
      /\ UNCHANGED <<now, visible, version, tried, late, dropped>>
  BY DEF Crash, tables
<1>2. received' \subseteq Rows
  BY DEF Crash, TypeInv, TypeOK, Alerts
<1>3. faults' \in 0 .. MaxFaults /\ feed' \in Feeds /\ Cardinality(queue') <= Limit
  BY <1>1, FeedAssumption, FS_EmptySet DEF TypeInv, TypeOK, Feeds
<1>4. Sound(disk', Behind(disk'))
  BY <1>1, EmptyIsSound DEF TypeInv
<1>5. Sound(mem, Behind(mem))' /\ Sound(disk, Behind(disk))'
  BY <1>1, <1>4 DEF Sound, Behind
<1>t. TypeOK'
  BY <1>1, <1>2, <1>3, <1>4 DEF TypeInv, TypeOK, Sound
<1>6. AlertsOf(queue, feed)'
  <2>1. queue' = {}
    BY <1>1
  <2> QED BY <2>1, FS_EmptySet, FeedAssumption DEF AlertsOf
<1> QED BY <1>1, <1>t, <1>5, <1>6 DEF TypeInv

\* The other steps: nothing is queued before or after, or all stays.
LEMMA TypeQuiet ==
  ASSUME TypeInv, queue' = {} \/ UNCHANGED <<pc, feed, version>>,
         UNCHANGED <<mem, queue, faults, tried, received, dropped, when, told>>,
         disk' \in {disk, mem}, now' \in Times, visible' \subseteq Rows,
         version' \in [Rows -> 0 .. MaxVersion], late' \subseteq Rows,
         pc' \in {"load", "send"}, feed' \in Feeds
  PROVE  TypeInv'
<1>1. TypeOK'
  BY DEF TypeInv, TypeOK
<1>2. Sound(mem, Behind(mem))' /\ Sound(disk, Behind(disk))'
  BY DEF TypeInv, Sound, Behind
<1>3. AlertsOf(queue, feed)'
  <2>1. CASE queue' = {}
    BY <2>1, FS_EmptySet, FeedAssumption DEF AlertsOf
  <2>2. CASE UNCHANGED <<pc, feed, version>>
    BY <2>2 DEF TypeInv, AlertsOf, Fingerprint
  <2> QED BY <2>1, <2>2
<1>4. (pc = "load" => queue = {})'
  BY DEF TypeInv
<1> QED BY <1>1, <1>2, <1>3, <1>4 DEF TypeInv

LEMMA TypeStep ==
  ASSUME TypeInv, SaidIsTopped, [Next]_vars
  PROVE  TypeInv'
<1>1. /\ now \in Times /\ visible \subseteq Rows /\ version \in [Rows -> 0 .. MaxVersion]
      /\ late \subseteq Rows /\ pc \in {"load", "send"} /\ feed \in Feeds
      /\ pc = "load" => queue = {}
  BY DEF TypeInv, TypeOK
<1>2. CASE Tick
  <2>1. now' \in Times
    BY <1>1, <1>2, FeedAssumption DEF Tick, Times
  <2> QED BY <1>1, <1>2, <2>1, TypeQuiet DEF Tick, tables, place, history
<1>3. ASSUME NEW r \in Rows, Arrive(r) PROVE TypeInv'
  BY <1>1, <1>3, TypeQuiet DEF Arrive, place
<1>4. ASSUME NEW r \in Rows, Reselect(r) PROVE TypeInv'
  <2>1. version' \in [Rows -> 0 .. MaxVersion]
    BY <1>1, <1>4, FeedAssumption DEF Reselect
  <2> QED BY <1>1, <1>4, <2>1, TypeQuiet DEF Reselect, Idle, place, history
<1>5. CASE Nothing
  <2>1. feed' \in Feeds /\ queue' = {}
    BY <1>1, <1>5 DEF Nothing, After, Feeds
  <2> QED BY <1>1, <1>5, <2>1, TypeQuiet DEF Nothing, tables, history
<1>6. CASE Select
  BY <1>6, TypeSelect
<1>7. CASE Send
  BY <1>7, TypeSend
<1>8. CASE Save
  <2>1. feed' \in Feeds /\ queue' = {}
    BY <1>1, <1>8 DEF Save, After, Feeds
  <2> QED BY <1>1, <1>8, <2>1, TypeQuiet DEF Save, tables, history
<1>9. CASE SaveElsewhere
  BY <1>1, <1>9, TypeQuiet DEF SaveElsewhere, tables, place, history
<1>10. CASE Crash
  BY <1>10, TypeCrash
<1>11. CASE UNCHANGED vars
  BY <1>1, <1>11, TypeQuiet DEF vars, tables, place, history
<1> QED
  BY <1>2, <1>3, <1>4, <1>5, <1>6, <1>7, <1>8, <1>9, <1>10, <1>11 DEF Next, Worker

-----------------------------------------------------------------------------
(* The stories of the topics.                                              *)

LEMMA StoryIsTopped == TypeInv /\ StoryInv => SaidIsTopped
<1> SUFFICES ASSUME TypeInv, StoryInv PROVE SaidIsTopped
  OBVIOUS
<1>1. \A i \in DOMAIN told : told[i] \in Alerts
  BY DEF TypeInv, TypeOK
<1>2. \A i \in DOMAIN told : KindOf[told[i].row] = "shock" /\ Tops(mem, told[i])
  BY DEF StoryInv
<1> QED BY <1>1, <1>2 DEF SaidIsTopped, SaidAreShocks, Said

LEMMA StoryHolds == StoryInv => EpisodesHold
  BY DEF StoryInv, EpisodesHold, Follows

LEMMA StorySelect ==
  ASSUME TypeInv, StoryInv, Select
  PROVE  StoryInv'
<1>1. PICK done \in Outcomes(feed, Load(feed)) :
        /\ mem' = done.state /\ queue' = done.alerts
        /\ IF done.alerts = {} /\ ~done.changed
           THEN feed' = After[feed] /\ UNCHANGED pc
           ELSE pc' = "send" /\ UNCHANGED feed
  BY DEF Select
<1>2. SaidIsTopped /\ Load(feed) # {} /\ told' = told
  BY StoryIsTopped DEF Select
<1>3. /\ feed # "shock" => mem'.topics = mem.topics
      /\ feed = "shock" => LoopStory(mem', queue')
  BY <1>1, <1>2, PolicySelected
<1>4. \A i \in DOMAIN told : told[i] \in Said
  BY DEF Said
<1>5. CASE feed = "shock"
  <2>1. \A i \in DOMAIN told : Tops(mem', told[i])
    BY <1>3, <1>4, <1>5 DEF LoopStory
  <2>2. \A b \in queue' :
          /\ Tops(mem', b)
          /\ \A i \in DOMAIN told : Follows(told[i], b)
          /\ \A a \in queue' : a.row < b.row => Follows(a, b)
    BY <1>3, <1>4, <1>5 DEF LoopStory
  <2> QED BY <1>2, <2>1, <2>2 DEF StoryInv, Tops
<1>6. CASE feed # "shock"
  <2>1. \A i \in DOMAIN told : Tops(mem', told[i])
    BY <1>3, <1>6 DEF StoryInv, Tops
  <2>2. feed' = "shock" => queue' = {}
    BY <1>1, <1>6
  <2> QED BY <1>2, <2>1, <2>2 DEF StoryInv, Tops
<1> QED BY <1>5, <1>6

LEMMA StorySend ==
  ASSUME TypeInv, StoryInv, Send
  PROVE  StoryInv'
<1>1. PICK alert \in queue, reached \in SUBSET Chats, ok \in SUBSET Chats :
        /\ \A other \in queue : Sooner(alert, other)
        /\ queue' = queue \ {alert}
        /\ mem' = [mem EXCEPT !.sent = Unmark(@, alert, ok)]
        /\ told' = IF feed = "shock" THEN Append(told, alert) ELSE told
  BY Zenon DEF Send
<1>2. mem'.topics = mem.topics /\ feed' = feed
  BY <1>1 DEF Send, TypeInv, TypeOK, States
<1>3. CASE feed = "shock"
  <2>1. /\ told \in Seq(Alerts) /\ alert \in Alerts /\ Len(told) \in Nat
        /\ \A i \in DOMAIN told : told[i] \in Alerts
    BY DEF TypeInv, TypeOK
  <2>2. /\ Len(told') = Len(told) + 1 /\ DOMAIN told' = 1 .. Len(told) + 1
        /\ DOMAIN told = 1 .. Len(told)
        /\ told'[Len(told) + 1] = alert
        /\ \A i \in DOMAIN told : told'[i] = told[i]
    BY <1>1, <1>3, <2>1
  <2>3. /\ Tops(mem, alert) /\ \A i \in DOMAIN told : Follows(told[i], alert)
        /\ \A b \in queue : alert.row < b.row => Follows(alert, b)
    BY <1>3 DEF StoryInv
  <2>4. KindOf[alert.row] = "shock"
    BY <1>3 DEF TypeInv, AlertsOf
  <2>5. \A b \in queue' : alert.row < b.row
    <3> SUFFICES ASSUME NEW b \in queue' PROVE alert.row < b.row
      OBVIOUS
    <3>1. b \in queue /\ b # alert /\ alert.row <= b.row
      BY <1>1, <1>3 DEF Sooner
    <3>2. b.row # alert.row
      BY <3>1 DEF TypeInv, AlertsOf
    <3>3. b.row \in Nat /\ alert.row \in Nat
      BY <2>1, <3>1, RowFacts DEF TypeInv, TypeOK, Alerts
    <3> QED BY <3>1, <3>2, <3>3
  <2> HIDE DEF Follows
  <2>6. \A i \in DOMAIN told' : KindOf[told'[i].row] = "shock" /\ Tops(mem', told'[i])
    <3> SUFFICES ASSUME NEW i \in DOMAIN told'
                 PROVE  KindOf[told'[i].row] = "shock" /\ Tops(mem', told'[i])
      OBVIOUS
    <3>1. CASE i \in DOMAIN told
      BY <1>2, <2>2, <3>1 DEF StoryInv, Tops
    <3>2. CASE i = Len(told) + 1
      BY <1>2, <2>2, <2>3, <2>4, <3>2 DEF Tops
    <3> QED BY <2>1, <2>2, <3>1, <3>2
  <2>7. \A i, j \in DOMAIN told' : i < j => Follows(told'[i], told'[j])
    <3> SUFFICES ASSUME NEW i \in DOMAIN told', NEW j \in DOMAIN told', i < j
                 PROVE  Follows(told'[i], told'[j])
      OBVIOUS
    <3>1. i \in DOMAIN told
      BY <2>1, <2>2
    <3>2. CASE j \in DOMAIN told
      BY <2>2, <3>1, <3>2 DEF StoryInv
    <3>3. CASE j = Len(told) + 1
      BY <2>2, <2>3, <3>1, <3>3
    <3> QED BY <2>1, <2>2, <3>2, <3>3
  <2>8. ASSUME NEW b \in queue'
        PROVE  /\ Tops(mem', b)
               /\ \A i \in DOMAIN told' : Follows(told'[i], b)
               /\ \A a \in queue' : a.row < b.row => Follows(a, b)
    <3>1. /\ b \in queue /\ Tops(mem, b)
          /\ \A i \in DOMAIN told : Follows(told[i], b)
          /\ \A a \in queue : a.row < b.row => Follows(a, b)
      BY <1>1, <1>3, <2>8 DEF StoryInv
    <3>2. Follows(alert, b)
      BY <2>3, <2>5, <3>1
    <3>3. \A i \in DOMAIN told' : i \in DOMAIN told \/ i = Len(told) + 1
      BY <2>1, <2>2
    <3>4. \A i \in DOMAIN told' : Follows(told'[i], b)
      BY <2>2, <3>1, <3>2, <3>3
    <3> QED BY <1>1, <1>2, <3>1, <3>4 DEF Tops
  <2> QED BY <2>6, <2>7, <2>8 DEF StoryInv, Tops
<1>4. CASE feed # "shock"
  BY <1>1, <1>2, <1>4 DEF StoryInv, Tops
<1> QED BY <1>3, <1>4

\* The other steps leave the topics and what was told alone; if another feed
\* comes to be at hand, nothing is queued.
LEMMA StoryQuiet ==
  ASSUME StoryInv, UNCHANGED <<mem, queue, told>>, feed' = feed \/ queue = {}
  PROVE  StoryInv'
  BY DEF StoryInv, Tops

LEMMA StoryStep ==
  ASSUME TypeInv, StoryInv, [Next]_vars
  PROVE  StoryInv'
<1>1. pc = "load" => queue = {}
  BY DEF TypeInv
<1>2. CASE Tick
  BY <1>2, StoryQuiet DEF Tick, place, history
<1>3. ASSUME NEW r \in Rows, Arrive(r) \/ Reselect(r) PROVE StoryInv'
  BY <1>3, StoryQuiet DEF Arrive, Reselect, place, history
<1>4. CASE Nothing
  BY <1>1, <1>4, StoryQuiet DEF Nothing, history
<1>5. CASE Select
  BY <1>5, StorySelect
<1>6. CASE Send
  BY <1>6, StorySend
<1>7. CASE Save
  BY <1>7, StoryQuiet DEF Save, history
<1>8. CASE SaveElsewhere
  BY <1>8, StoryQuiet DEF SaveElsewhere, place, history
<1>9. CASE Crash
  BY <1>9 DEF Crash, StoryInv
<1>10. CASE UNCHANGED vars
  BY <1>10, StoryQuiet DEF vars, place, history
<1> QED
  BY <1>2, <1>3, <1>4, <1>5, <1>6, <1>7, <1>8, <1>9, <1>10 DEF Next, Worker

-----------------------------------------------------------------------------
(* The marks: what a chat got and what the file says are covered by the    *)
(* mark in memory, until they expire.                                      *)

LEMMA MarkTypes ==
  ASSUME TypeInv
  PROVE  /\ now \in Nat /\ Ttl \in Nat /\ Never = -1 /\ Never \in Int
         /\ mem.sent \in [Feeds -> Marks] /\ disk.sent \in [Feeds -> Marks]
         /\ \A sent \in Marks : \A p \in Fingerprints : sent[p] \in Int /\ sent[p] >= Never
         /\ \A c \in Chats : \A p \in Fingerprints :
              when[<<c, p>>] \in Int /\ when[<<c, p>>] >= Never
         /\ \A p \in Fingerprints : KindOf[p[1]] \in Feeds
<1>1. now \in Nat /\ Ttl \in Nat /\ Never = -1 /\ Never \in Int
  BY FeedAssumption DEF TypeInv, TypeOK, Times, Never
<1>2. \A x \in Times \cup {Never} : x \in Int /\ x >= Never
  BY FeedAssumption DEF Times, Never
<1>3. mem.sent \in [Feeds -> Marks] /\ disk.sent \in [Feeds -> Marks]
  BY DEF TypeInv, TypeOK, States, Marks
<1>4. \A sent \in Marks : \A p \in Fingerprints : sent[p] \in Times \cup {Never}
  BY DEF Marks
<1>5. \A c \in Chats : \A p \in Fingerprints : when[<<c, p>>] \in Times \cup {Never}
  BY DEF TypeInv, TypeOK
<1>6. \A p \in Fingerprints : KindOf[p[1]] \in Feeds
  BY RowFacts DEF Fingerprints
<1> QED BY <1>1, <1>2, <1>3, <1>4, <1>5, <1>6, Zenon

\* What a mark covers, the mark a policy leaves in its place covers too.
LEMMA PolicyMark ==
  ASSUME TypeInv, NEW sent \in Marks, NEW prints, NEW p \in Fingerprints, sent[p] <= now
  PROVE  LET out == Cleaned(Marked(sent, prints))[p] IN
         /\ out <= now
         /\ p \in prints => out = now
         /\ \A mark \in Int : mark <= now /\ Covered(mark, sent[p]) => Covered(mark, out)
<1> DEFINE m   == Marked(sent, prints)[p]
           old == sent[p]
           out == Cleaned(Marked(sent, prints))[p]
<1>1. m = IF p \in prints THEN now ELSE old
  BY DEF Marked
<1>2. out = IF m # Never /\ now > m + Ttl THEN Never ELSE m
  BY DEF Cleaned, Expired
<1>3. now \in Nat /\ Ttl \in Nat /\ Never = -1 /\ old \in Int /\ old >= Never /\ old <= now
  BY MarkTypes
<1> HIDE DEF m, old, out
<1>4. out <= now
  BY <1>1, <1>2, <1>3
<1>5. p \in prints => out = now
  BY <1>1, <1>2, <1>3
<1>6. ASSUME NEW mark \in Int, mark <= now, Covered(mark, old) PROVE Covered(mark, out)
  <2>1. old >= mark \/ now > mark + Ttl
    BY <1>6 DEF Covered
  <2>2. out >= mark \/ now > mark + Ttl
    BY <1>1, <1>2, <1>3, <1>6, <2>1
  <2> QED BY <2>2 DEF Covered
<1> QED BY <1>4, <1>5, <1>6 DEF out, old

LEMMA MarkInit == Init => MarkInv
<1> SUFFICES ASSUME Init PROVE MarkInv
  OBVIOUS
<1>1. TypeInv
  BY TypeInit
<1>2. now = 0 /\ queue = {} /\ Never = -1 /\ mem = EmptyState /\ disk = EmptyState
  BY DEF Init, Never
<1>3. \A f \in Feeds : \A p \in Fingerprints :
        mem.sent[f][p] = Never /\ disk.sent[f][p] = Never
  BY <1>2 DEF EmptyState
<1>4. \A c \in Chats : \A p \in Fingerprints : when[<<c, p>>] = Never
  BY DEF Init
<1>5. Covered(Never, Never) /\ Never <= now
  BY <1>2 DEF Covered
<1>6. \A p \in Fingerprints : KindOf[p[1]] \in Feeds
  BY <1>1, MarkTypes
<1> QED BY <1>2, <1>3, <1>4, <1>5, <1>6 DEF MarkInv

LEMMA MarkSelect ==
  ASSUME TypeInv, StoryInv, MarkInv, Select
  PROVE  MarkInv'
<1>1. PICK done \in Outcomes(feed, Load(feed)) :
        /\ mem' = done.state /\ queue' = done.alerts
        /\ IF done.alerts = {} /\ ~done.changed
           THEN feed' = After[feed] /\ UNCHANGED pc
           ELSE pc' = "send" /\ UNCHANGED feed
  BY DEF Select
<1>2. Selected(feed, done)
  BY PolicySelected, StoryIsTopped DEF Select
<1>3. now' = now /\ disk' = disk /\ when' = when /\ feed \in Feeds
  BY DEF Select, TypeInv, TypeOK
<1>4. mem'.sent = [mem.sent EXCEPT ![feed] = Cleaned(Marked(@, Prints(queue')))]
  BY <1>1, <1>2, Zenon DEF Selected, MarkedFor
<1>t. mem.sent \in [Feeds -> Marks] /\ disk.sent \in [Feeds -> Marks]
  BY MarkTypes
<1>5. ASSUME NEW f \in Feeds, NEW p \in Fingerprints
      PROVE  /\ mem'.sent[f][p] <= now
             /\ \A mark \in Int : mark <= now /\ Covered(mark, mem.sent[f][p]) =>
                  Covered(mark, mem'.sent[f][p])
  <2>1. mem.sent[f] \in Marks /\ mem.sent[f][p] <= now
    BY <1>t DEF MarkInv
  <2>2. CASE f = feed
    <3>1. mem'.sent[f] = Cleaned(Marked(mem.sent[f], Prints(queue')))
      BY <1>t, <1>3, <1>4, <2>2
    <3> HIDE DEF Covered, Cleaned, Marked, Prints
    <3> QED BY <2>1, <3>1, PolicyMark
  <2>3. CASE f # feed
    <3>1. mem'.sent[f] = mem.sent[f]
      BY <1>t, <1>3, <1>4, <2>3
    <3> QED BY <2>1, <3>1
  <2> QED BY <2>2, <2>3
<1>6. ASSUME NEW c \in Chats, NEW p \in Fingerprints
      PROVE  /\ when[<<c, p>>] <= now
             /\ Covered(when[<<c, p>>], mem'.sent[KindOf[p[1]]][p])
  <2>1. KindOf[p[1]] \in Feeds /\ when[<<c, p>>] \in Int
    BY MarkTypes
  <2>2. when[<<c, p>>] <= now /\ Covered(when[<<c, p>>], mem.sent[KindOf[p[1]]][p])
    BY DEF MarkInv
  <2> QED BY <1>5, <2>1, <2>2
<1>7. ASSUME NEW f \in Feeds, NEW p \in Fingerprints
      PROVE  disk.sent[f][p] <= now /\ Covered(disk.sent[f][p], mem'.sent[f][p])
  <2>1. disk.sent[f][p] \in Int
    BY <1>t, MarkTypes
  <2>2. disk.sent[f][p] <= now /\ Covered(disk.sent[f][p], mem.sent[f][p])
    BY DEF MarkInv
  <2> QED BY <1>5, <2>1, <2>2
<1>8. ASSUME NEW a \in queue'
      PROVE  /\ feed' = feed
             /\ mem'.sent[feed][a.print] = now
             /\ Clear(disk.sent[feed][a.print])
             /\ \A c \in Chats : Clear(when[<<c, a.print>>])
  <2> DEFINE p == a.print
  <2>1. feed' = feed /\ mem.sent[feed][p] = Never
    BY <1>1, <1>2, <1>8 DEF Selected
  <2>2. p \in Fingerprints /\ KindOf[p[1]] = feed
    <3>1. a \in Alerts /\ KindOf[a.row] = feed /\ p = Fingerprint(a.row)
      BY <1>1, <1>2, <1>8 DEF Selected, AlertsOf
    <3> QED BY <3>1 DEF Alerts, Fingerprint
  <2>3. mem'.sent[feed][p] = now
    <3>1. p \in Prints(queue')
      BY <1>8 DEF Prints
    <3>2. mem'.sent[feed] = Cleaned(Marked(mem.sent[feed], Prints(queue')))
      BY <1>t, <1>3, <1>4
    <3>3. mem.sent[feed] \in Marks /\ mem.sent[feed][p] <= now
      BY <1>t, <1>3, <2>2 DEF MarkInv
    <3> HIDE DEF Cleaned, Marked, Prints, p
    <3> QED BY <2>2, <3>1, <3>2, <3>3, PolicyMark
  <2>4. \A mark \in Int : mark >= Never /\ Covered(mark, Never) => Clear(mark)
    BY MarkTypes DEF Covered, Clear
  <2>5. Clear(disk.sent[feed][p])
    <3>1. disk.sent[feed][p] \in Int /\ disk.sent[feed][p] >= Never
      BY <1>3, <1>t, <2>2, MarkTypes
    <3>2. Covered(disk.sent[feed][p], mem.sent[feed][p])
      BY <1>3, <2>2 DEF MarkInv
    <3> QED BY <2>1, <2>4, <3>1, <3>2
  <2>6. ASSUME NEW c \in Chats PROVE Clear(when[<<c, p>>])
    <3>1. when[<<c, p>>] \in Int /\ when[<<c, p>>] >= Never
      BY <2>2, MarkTypes
    <3>2. Covered(when[<<c, p>>], mem.sent[feed][p])
      BY <2>2 DEF MarkInv
    <3> QED BY <2>1, <2>4, <3>1, <3>2
  <2> QED BY <2>1, <2>3, <2>5, <2>6
<1> HIDE DEF Covered, Clear
<1>9. /\ \A c \in Chats : \A p \in Fingerprints :
           when'[<<c, p>>] <= now' /\ Covered(when[<<c, p>>], mem.sent[KindOf[p[1]]][p])'
      /\ \A f \in Feeds : \A p \in Fingerprints :
           /\ mem'.sent[f][p] <= now' /\ disk'.sent[f][p] <= now'
           /\ Covered(disk.sent[f][p], mem.sent[f][p])'
  BY <1>3, <1>5, <1>6, <1>7 DEF Covered
<1>10. \A a \in queue' :
         /\ mem'.sent[feed'][a.print] = now'
         /\ Clear(disk.sent[feed][a.print])'
         /\ \A c \in Chats : Clear(when[<<c, a.print>>])'
  BY <1>3, <1>8 DEF Clear
<1> QED BY <1>9, <1>10 DEF MarkInv, Covered, Clear

LEMMA MarkSend ==
  ASSUME TypeInv, MarkInv, Send
  PROVE  MarkInv'
<1>1. PICK alert \in queue, reached \in SUBSET Chats, ok \in SUBSET Chats :
        /\ queue' = queue \ {alert}
        /\ mem' = [mem EXCEPT !.sent = Unmark(@, alert, ok)]
        /\ when' = Heard(alert, reached, ok)
  BY Zenon DEF Send
<1>2. now' = now /\ disk' = disk /\ feed' = feed /\ feed \in Feeds
  BY DEF Send, TypeInv, TypeOK
<1>3. /\ mem.sent \in [Feeds -> Marks] /\ disk.sent \in [Feeds -> Marks]
      /\ now \in Nat /\ Never = -1
  BY MarkTypes
<1> DEFINE p == alert.print
<1>4. p \in Fingerprints /\ KindOf[p[1]] = feed /\ p[1] = alert.row
  <2>1. alert \in Alerts /\ KindOf[alert.row] = feed /\ p = Fingerprint(alert.row)
    BY DEF TypeInv, AlertsOf
  <2> QED BY <2>1 DEF Alerts, Fingerprint
<1>5. /\ mem.sent[feed][p] = now /\ Clear(disk.sent[feed][p])
      /\ \A c \in Chats : Clear(when[<<c, p>>])
  BY DEF MarkInv
<1>6. mem'.sent = Unmark(mem.sent, alert, ok)
  BY <1>1 DEF TypeInv, TypeOK, States
<1>7. \A f \in Feeds : \A q \in Fingerprints :
        mem'.sent[f][q] = IF ok = {} /\ f = feed /\ q = p THEN Never ELSE mem.sent[f][q]
  <2>1. mem.sent[feed] \in Marks
    BY <1>2, <1>3
  <2> QED BY <1>2, <1>3, <1>6, <2>1 DEF Unmark, Marks
<1>8. \A c \in Chats : \A q \in Fingerprints :
        when'[<<c, q>>] = IF ok # {} /\ c \in reached /\ q = p THEN now ELSE when[<<c, q>>]
  <2>1. DOMAIN when = Chats \X Fingerprints
    BY DEF TypeInv, TypeOK
  <2> QED BY <1>1, <2>1 DEF Heard
<1> HIDE DEF p
<1>c. \A mark \in Int : mark >= Never /\ Clear(mark) => Covered(mark, Never)
  BY <1>3 DEF Clear, Covered
<1>n. now <= now /\ Never <= now /\ Covered(now, now)
  BY <1>3 DEF Covered
<1>9. ASSUME NEW c \in Chats, NEW q \in Fingerprints
      PROVE  /\ when'[<<c, q>>] <= now
             /\ Covered(when'[<<c, q>>], mem'.sent[KindOf[q[1]]][q])
  <2> DEFINE f == KindOf[q[1]]
  <2>1. /\ f \in Feeds /\ when[<<c, q>>] \in Int /\ when[<<c, q>>] >= Never
        /\ when[<<c, q>>] <= now /\ Covered(when[<<c, q>>], mem.sent[f][q])
    BY MarkTypes DEF MarkInv
  <2>2. CASE q # p
    <3>1. when'[<<c, q>>] = when[<<c, q>>] /\ mem'.sent[f][q] = mem.sent[f][q]
      BY <1>7, <1>8, <2>1, <2>2
    <3> QED BY <2>1, <3>1
  <2>3. CASE q = p /\ ok = {}
    <3>1. when'[<<c, q>>] = when[<<c, q>>] /\ mem'.sent[f][q] = Never
      BY <1>4, <1>7, <1>8, <2>1, <2>3
    <3>2. Clear(when[<<c, q>>])
      BY <1>5, <2>3
    <3> HIDE DEF f
    <3>3. Covered(when[<<c, q>>], Never)
      BY <1>c, <2>1, <3>2
    <3> QED BY <2>1, <3>1, <3>3 DEF f
  <2>4. CASE q = p /\ ok # {}
    <3>1. mem'.sent[f][q] = now
      BY <1>4, <1>5, <1>7, <2>1, <2>4
    <3>2. when'[<<c, q>>] = now \/ when'[<<c, q>>] = when[<<c, q>>]
      BY <1>8
    <3>3. Covered(when[<<c, q>>], now)
      BY <1>3, <2>1 DEF Covered
    <3> HIDE DEF f
    <3> QED BY <1>n, <2>1, <3>1, <3>2, <3>3 DEF f
  <2> QED BY <2>2, <2>3, <2>4
<1>10. ASSUME NEW f \in Feeds, NEW q \in Fingerprints
       PROVE  mem'.sent[f][q] <= now /\ Covered(disk.sent[f][q], mem'.sent[f][q])
  <2>1. /\ mem.sent[f][q] <= now /\ Covered(disk.sent[f][q], mem.sent[f][q])
        /\ disk.sent[f][q] \in Int /\ disk.sent[f][q] >= Never
    BY <1>3, MarkTypes DEF MarkInv
  <2>2. CASE ok = {} /\ f = feed /\ q = p
    <3>1. mem'.sent[f][q] = Never /\ Clear(disk.sent[f][q])
      BY <1>5, <1>7, <2>2
    <3>2. Covered(disk.sent[f][q], Never)
      BY <1>c, <2>1, <3>1
    <3> QED BY <1>n, <3>1, <3>2
  <2>3. CASE ~ (ok = {} /\ f = feed /\ q = p)
    <3>1. mem'.sent[f][q] = mem.sent[f][q]
      BY <1>7, <2>3
    <3> QED BY <2>1, <3>1
  <2> QED BY <2>2, <2>3
<1>11. ASSUME NEW a \in queue'
       PROVE  /\ mem'.sent[feed][a.print] = now /\ Clear(disk.sent[feed][a.print])
              /\ \A c \in Chats : Clear(when'[<<c, a.print>>])
  <2>1. a \in queue /\ a # alert
    BY <1>1
  <2>2. /\ a.row # alert.row /\ a.print = Fingerprint(a.row) /\ a \in Alerts
    BY <2>1 DEF TypeInv, AlertsOf
  <2>3. a.print \in Fingerprints /\ a.print # p
    BY <1>4, <2>2 DEF Fingerprint, Alerts
  <2>4. /\ mem'.sent[feed][a.print] = mem.sent[feed][a.print]
        /\ \A c \in Chats : when'[<<c, a.print>>] = when[<<c, a.print>>]
    BY <1>2, <1>7, <1>8, <2>3
  <2>5. /\ mem.sent[feed][a.print] = now /\ Clear(disk.sent[feed][a.print])
        /\ \A c \in Chats : Clear(when[<<c, a.print>>])
    BY <2>1 DEF MarkInv
  <2> QED BY <2>4, <2>5
<1>12. /\ \A c \in Chats : \A q \in Fingerprints :
            when'[<<c, q>>] <= now' /\ Covered(when[<<c, q>>], mem.sent[KindOf[q[1]]][q])'
       /\ \A f \in Feeds : \A q \in Fingerprints :
            /\ mem'.sent[f][q] <= now' /\ disk'.sent[f][q] <= now'
            /\ Covered(disk.sent[f][q], mem.sent[f][q])'
  <2>1. \A f \in Feeds : \A q \in Fingerprints : disk'.sent[f][q] <= now
    BY <1>2 DEF MarkInv
  <2> QED BY <1>2, <1>9, <1>10, <2>1 DEF Covered
<1>13. \A a \in queue' :
         /\ mem'.sent[feed'][a.print] = now'
         /\ Clear(disk.sent[feed][a.print])'
         /\ \A c \in Chats : Clear(when[<<c, a.print>>])'
  BY <1>2, <1>11 DEF Clear
<1> QED BY <1>12, <1>13 DEF MarkInv

\* A step that leaves the marks alone, but for the file written with nothing
\* queued, and time passes only then.
LEMMA MarkQuiet ==
  ASSUME TypeInv, MarkInv, UNCHANGED <<mem, queue, when>>,
         \/ queue = {} /\ now' \in Nat /\ now' >= now /\ disk' \in {disk, mem}
         \/ UNCHANGED <<now, disk, feed>>
  PROVE  MarkInv'
<1>1. CASE UNCHANGED <<now, disk, feed>>
  BY <1>1 DEF MarkInv, Covered, Clear
<1>2. CASE queue = {} /\ now' \in Nat /\ now' >= now /\ disk' \in {disk, mem}
  <2>1. /\ now \in Nat /\ Ttl \in Nat
        /\ mem.sent \in [Feeds -> Marks] /\ disk.sent \in [Feeds -> Marks]
        /\ \A sent \in Marks : \A p \in Fingerprints : sent[p] \in Int
        /\ \A c \in Chats : \A p \in Fingerprints : when[<<c, p>>] \in Int
        /\ \A p \in Fingerprints : KindOf[p[1]] \in Feeds
    BY MarkTypes
  <2>2. \A mark, by \in Int :
          Covered(mark, by) => by >= mark \/ now' > mark + Ttl
    BY <1>2, <2>1 DEF Covered
  <2>3. \A mark \in Int : mark <= now => mark <= now' /\ mark >= mark
    BY <1>2, <2>1
  <2>4. ASSUME NEW c \in Chats, NEW p \in Fingerprints
        PROVE  when'[<<c, p>>] <= now' /\ Covered(when[<<c, p>>], mem.sent[KindOf[p[1]]][p])'
    <3>1. when[<<c, p>>] \in Int /\ mem.sent[KindOf[p[1]]][p] \in Int
      BY <2>1
    <3>2. when[<<c, p>>] <= now /\ Covered(when[<<c, p>>], mem.sent[KindOf[p[1]]][p])
      BY DEF MarkInv
    <3>3. \/ mem.sent[KindOf[p[1]]][p] >= when[<<c, p>>]
          \/ now' > when[<<c, p>>] + Ttl
      BY <2>2, <3>1, <3>2
    <3> QED BY <2>3, <3>1, <3>2, <3>3 DEF Covered
  <2>5. ASSUME NEW f \in Feeds, NEW p \in Fingerprints
        PROVE  /\ mem'.sent[f][p] <= now' /\ disk'.sent[f][p] <= now'
               /\ Covered(disk.sent[f][p], mem.sent[f][p])'
    <3>1. mem.sent[f][p] \in Int /\ disk.sent[f][p] \in Int
      BY <2>1
    <3>2. /\ mem.sent[f][p] <= now /\ disk.sent[f][p] <= now
          /\ Covered(disk.sent[f][p], mem.sent[f][p])
      BY DEF MarkInv
    <3>3. mem.sent[f][p] >= disk.sent[f][p] \/ now' > disk.sent[f][p] + Ttl
      BY <2>2, <3>1, <3>2
    <3>4. /\ mem.sent[f][p] <= now' /\ disk.sent[f][p] <= now'
          /\ mem.sent[f][p] >= mem.sent[f][p]
      BY <2>3, <3>1, <3>2
    <3>5. CASE disk' = disk
      BY <3>3, <3>4, <3>5 DEF Covered
    <3>6. CASE disk' = mem
      BY <3>4, <3>6 DEF Covered
    <3> QED BY <1>2, <3>5, <3>6
  <2> HIDE DEF Covered
  <2> QED BY <1>2, <2>4, <2>5 DEF MarkInv
<1> QED BY <1>1, <1>2

LEMMA MarkCrash ==
  ASSUME TypeInv, MarkInv, Crash
  PROVE  MarkInv'
<1>1. /\ mem' = disk' /\ queue' = {} /\ disk' \in {disk, EmptyState} /\ now' = now
      /\ when' = [p \in DOMAIN when |-> Never]
  BY DEF Crash
<1>2. /\ now \in Nat /\ Never = -1 /\ disk.sent \in [Feeds -> Marks]
      /\ \A sent \in Marks : \A p \in Fingerprints : sent[p] \in Int /\ sent[p] >= Never
      /\ \A p \in Fingerprints : KindOf[p[1]] \in Feeds
  BY MarkTypes
<1>3. \A c \in Chats : \A p \in Fingerprints : when'[<<c, p>>] = Never
  BY <1>1 DEF TypeInv, TypeOK
<1>4. ASSUME NEW f \in Feeds, NEW p \in Fingerprints
      PROVE  /\ disk'.sent[f][p] >= Never /\ disk'.sent[f][p] >= disk'.sent[f][p]
             /\ disk'.sent[f][p] <= now
  <2>1. CASE disk' = disk
    BY <1>2, <2>1 DEF MarkInv
  <2>2. CASE disk' = EmptyState
    <3>1. disk'.sent[f][p] = Never
      BY <2>2 DEF EmptyState
    <3> QED BY <1>2, <3>1
  <2> QED BY <1>1, <2>1, <2>2
<1>5. ASSUME NEW c \in Chats, NEW p \in Fingerprints
      PROVE  when'[<<c, p>>] <= now' /\ Covered(when[<<c, p>>], mem.sent[KindOf[p[1]]][p])'
  BY <1>1, <1>2, <1>3, <1>4 DEF Covered
<1>6. ASSUME NEW f \in Feeds, NEW p \in Fingerprints
      PROVE  /\ mem'.sent[f][p] <= now' /\ disk'.sent[f][p] <= now'
             /\ Covered(disk.sent[f][p], mem.sent[f][p])'
  BY <1>1, <1>4 DEF Covered
<1> HIDE DEF Covered
<1> QED BY <1>1, <1>5, <1>6 DEF MarkInv

LEMMA MarkStep ==
  ASSUME TypeInv, StoryInv, MarkInv, [Next]_vars
  PROVE  MarkInv'
<1>1. /\ pc = "load" => queue = {}
      /\ now \in Nat /\ now >= now /\ now + 1 \in Nat /\ now + 1 >= now
  BY MarkTypes DEF TypeInv
<1>2. CASE Tick
  BY <1>1, <1>2, MarkQuiet DEF Tick, Idle, place, history
<1>3. ASSUME NEW r \in Rows, Arrive(r) \/ Reselect(r) PROVE MarkInv'
  BY <1>3, MarkQuiet DEF Arrive, Reselect, place, history
<1>4. CASE Nothing
  BY <1>1, <1>4, MarkQuiet DEF Nothing, history
<1>5. CASE Select
  BY <1>5, MarkSelect
<1>6. CASE Send
  BY <1>6, MarkSend
<1>7. CASE Save
  BY <1>1, <1>7, MarkQuiet DEF Save, history
<1>8. CASE SaveElsewhere
  BY <1>1, <1>8, MarkQuiet DEF SaveElsewhere, Idle, place, history
<1>9. CASE Crash
  BY <1>9, MarkCrash
<1>10. CASE UNCHANGED vars
  BY <1>10, MarkQuiet DEF vars, place, history
<1> QED
  BY <1>2, <1>3, <1>4, <1>5, <1>6, <1>7, <1>8, <1>9, <1>10 DEF Next, Worker

\* Only Send takes from the queue and still sends.
LEMMA SentIsClear ==
  ASSUME TypeInv, MarkInv, [Next]_vars, NEW alert \in queue \ queue', pc' = "send"
  PROVE  /\ \A c \in Chats :
              when[<<c, alert.print>>] # Never => now > when[<<c, alert.print>>] + Ttl
         /\ disk.sent[feed][alert.print] # Never =>
              now > disk.sent[feed][alert.print] + Ttl
  BY DEF MarkInv, Clear

-----------------------------------------------------------------------------
AlertInv == TypeInv /\ StoryInv /\ MarkInv

LEMMA AlertInit == Init => AlertInv
<1> SUFFICES ASSUME Init PROVE AlertInv
  OBVIOUS
<1>1. StoryInv
  BY DEF Init, StoryInv
<1> QED BY <1>1, TypeInit, MarkInit DEF AlertInv

LEMMA AlertStep == AlertInv /\ [Next]_vars => AlertInv'
  BY StoryIsTopped, TypeStep, StoryStep, MarkStep DEF AlertInv

\* Every variable keeps its type and no feed queues more than its limit: the
\* loops over roots, stories and shocks stop at max_alerts_per_cycle, and the
\* episodes and events a topic counts (apply_shock_alert_policy) are no more
\* than the shocks its cursor has passed.
THEOREM AlertTypes == Spec => []TypeOK
<1>1. AlertInv => TypeOK
  BY DEF AlertInv, TypeInv
<1> QED BY <1>1, AlertInit, AlertStep, PTL DEF Spec

\* The alerts of a topic tell one story over all cycles of a life
\* (apply_shock_alert_policy): its events are numbered in turn and spaced by the
\* cooldown, and a new episode begins only after the topic was quiet, for any
\* rows, sizes, limits and times, and whatever else fails.
THEOREM EpisodesAlwaysHold == Spec => []EpisodesHold
<1>1. AlertInv => EpisodesHold
  BY StoryHolds DEF AlertInv
<1> QED BY <1>1, AlertInit, AlertStep, PTL DEF Spec

\* No alert of which a call was confirmed in this life, or whose mark is in the
\* file, is put to the chats again before the mark expires, whichever calls
\* raise and whether or not what they sent arrived: the policies tell only what
\* sent_root_, sent_shock_ and sent_news_fingerprints do not have, and a mark
\* is taken away only if every call raised.
THEOREM AlertsGoOnce == Spec => AlertsAreNotRepeated
<1>1. AlertInv /\ [Next]_vars =>
        \A alert \in queue \ queue' :
          LET p == alert.print IN
            pc' = "send" =>
              /\ \A c \in Chats : when[<<c, p>>] # Never => now > when[<<c, p>>] + Ttl
              /\ disk.sent[feed][p] # Never => now > disk.sent[feed][p] + Ttl
  BY SentIsClear DEF AlertInv
<1> QED BY <1>1, AlertInit, AlertStep, PTL DEF Spec, AlertsAreNotRepeated
=============================================================================
