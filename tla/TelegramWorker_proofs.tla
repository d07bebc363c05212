------------------------ MODULE TelegramWorker_proofs ------------------------
(***************************************************************************)
(* The bot, for any users, chats, signals, retention times and faults: its *)
(* types; its offset never passes an update it has not handled; a saved    *)
(* button goes only when it is spent, and a press is answered truly; a     *)
(* user gets a message with a confirmed call once in a life of the         *)
(* process; the limits in the file hold.                                   *)
(***************************************************************************)
EXTENDS TelegramWorker, TLAPS

LEMMA QuotientMonotonic ==
  ASSUME NEW a \in Nat, NEW b \in Nat, NEW d \in Nat \ {0}, a <= b
  PROVE  a \div d \in 0 .. b \div d
  OBVIOUS

LEMMA TodayType ==
  ASSUME now \in Times
  PROVE  Today \in Days /\ LocalDay \in Days
<1>1. /\ now + Zone \in Nat /\ MaxNow + Zone \in Nat /\ now \in Nat
      /\ now + Zone <= MaxNow + Zone /\ now <= MaxNow + Zone
  BY WorkerAssumption DEF Times
<1> QED BY <1>1, QuotientMonotonic, WorkerAssumption DEF Today, LocalDay, Days

(***************************************************************************)
(* Types of what the steps compute from a state of the worker.             *)
(***************************************************************************)
LEMMA EmptyStateType == EmptyState \in States
  BY WorkerAssumption DEF EmptyState, States, Never, Times, Days

LEMMA LoadType ==
  ASSUME NEW file \in States
  PROVE  Load(file) \in States
  BY EmptyStateType DEF Load, States, EmptyState

LEMMA ForgetType ==
  ASSUME NEW K, NEW map \in [K -> Times \cup {Never}]
  PROVE  Forget(map) \in [K -> Times \cup {Never}]
  BY DEF Forget

LEMMA CleanedType ==
  ASSUME NEW m \in States
  PROVE  Cleaned(m) \in States
<1>1. Forget(m.sent) \in [Signals -> Times \cup {Never}]
  BY ForgetType DEF States
<1>2. Forget(m.cool) \in [Pairs -> Times \cup {Never}]
  BY ForgetType DEF States
<1>3. [s \in Signals |-> Forget(m.stages[s])] \in [Signals -> [Stages -> Times \cup {Never}]]
  BY ForgetType DEF States
<1>4. [s \in Signals |-> IF Forget(m.sent)[s] = Never THEN "off" ELSE m.track[s]]
        \in [Signals -> {"off", "armed", "noted"}]
  BY DEF States
<1> QED BY <1>1, <1>2, <1>3, <1>4 DEF Cleaned, States

LEMMA DroppedType ==
  ASSUME mem \in States, NEW t
  PROVE  Dropped(t) \in States
  BY DEF Dropped, States

LEMMA StagesType ==
  ASSUME NEW s \in Signals
  PROVE  Unsent(s) \subseteq Stages
<1>1. DueStages(s) \subseteq Stages
  BY DEF DueStages, Stages, Bracket
<1> QED BY <1>1 DEF Unsent

LEMMA MessagesType ==
  /\ SignalMessages \subseteq Messages
  /\ FollowUpMessages \subseteq Messages
<1>1. SignalMessages \subseteq Messages
  BY DEF SignalMessages, Messages, Parts
<1>2. ASSUME NEW s \in Signals, NEW g \in FollowUps(s)
      PROVE  [sig |-> s, parts |-> g] \in Messages
  <2>1. g \subseteq Stages
    BY <1>2, StagesType DEF FollowUps
  <2> QED BY <2>1 DEF Messages, Parts
<1>3. FollowUpMessages \subseteq Messages
  BY <1>2 DEF FollowUpMessages
<1> QED BY <1>1, <1>3

LEMMA TokensType ==
  ASSUME now \in Times, life \in 0 .. MaxFaults,
         NEW m \in Messages, NEW users \in SUBSET Users, NEW ack \in BOOLEAN
  PROVE  TokensOf(m, users, ack) \subseteq Tokens
<1> DEFINE acts == IF m.parts = {"signal"} THEN {"mark_viewed"}
                   ELSE IF m.parts = {"range"} THEN {}
                   ELSE {"confirm_followup", "manual_override"}
<1>1. acts \subseteq Callbacks
  BY DEF Callbacks
<1>2. m.sig \in Signals /\ m.parts \in SUBSET Parts
  BY DEF Messages
<1> HIDE DEF acts
<1>3. ASSUME NEW u \in users, NEW a \in acts
      PROVE  [user |-> u, sig |-> m.sig, parts |-> m.parts, act |-> a, born |-> now, life |-> life,
              ack |-> ack] \in Tokens
  BY <1>1, <1>2 DEF Tokens
<1>4. TokensOf(m, users, ack) =
        {[user |-> u, sig |-> m.sig, parts |-> m.parts, act |-> a, born |-> now, life |-> life,
          ack |-> ack] : u \in users, a \in acts}
  BY DEF TokensOf, acts
<1> QED BY <1>3, <1>4

LEMMA ButtonsType ==
  ASSUME now \in Times, life \in 0 .. MaxFaults,
         NEW m \in Messages, NEW reached \in SUBSET Users, NEW ok \in SUBSET reached
  PROVE  ButtonsOf(m, reached, ok) \subseteq Tokens
  BY TokensType DEF ButtonsOf

LEMMA TargetsType ==
  ASSUME mem \in States
  PROVE  /\ Targets \subseteq Users /\ DueUsers \subseteq Targets
         /\ \A users \in SUBSET Targets : ChatsOf(users) \subseteq Chats
  BY DEF States, Targets, DueUsers, ChatsOf

\* What a health-check and a send come to.
LEMMA HealthRound ==
  ASSUME HealthCheck
  PROVE  \E reached, ok \in SUBSET DueUsers :
           /\ ok \subseteq reached /\ Outcome(DueUsers, ok)
           /\ heard' = Beats(reached)
           /\ IF ok = {} THEN UNCHANGED <<mem, disk>>
              ELSE Write([mem EXCEPT !.health = MarkHealth(ok)])
<1>1. PICK reached \in SUBSET DueUsers : \E ok \in SUBSET reached :
        /\ Outcome(DueUsers, ok)
        /\ heard' = Beats(reached)
        /\ IF ok = {} THEN UNCHANGED <<mem, disk>>
           ELSE Write([mem EXCEPT !.health = MarkHealth(ok)])
  BY Zenon DEF HealthCheck
<1> QED BY <1>1

LEMMA SendRound ==
  ASSUME Send
  PROVE  \E m \in todo : \E reached, ok \in SUBSET Targets :
           /\ ok \subseteq reached
           /\ StillDue(m)
           /\ Outcome(Targets, ok)
           /\ Keep(Sent(m, ok))
           /\ buttons' = buttons \cup ButtonsOf(m, reached, ok)
           /\ when' = Log(m, reached, ok)
           /\ todo' = todo \ {m}
<1>1. PICK m \in todo, reached \in SUBSET Targets : \E ok \in SUBSET reached :
        /\ StillDue(m)
        /\ Outcome(Targets, ok)
        /\ Keep(Sent(m, ok))
        /\ buttons' = buttons \cup ButtonsOf(m, reached, ok)
        /\ when' = Log(m, reached, ok)
        /\ todo' = todo \ {m}
  BY Zenon DEF Send
<1> QED BY <1>1

LEMMA MarkType ==
  ASSUME now \in Times, NEW stages \in [Stages -> Times \cup {Never}], NEW m
  PROVE  Mark(stages, m) \in [Stages -> Times \cup {Never}]
  BY DEF Mark

LEMMA SentType ==
  ASSUME now \in Times, life \in 0 .. MaxFaults, mem \in States,
         NEW m \in Messages, NEW ok \in SUBSET Users
  PROVE  Sent(m, ok) \in States
<1> DEFINE s == m.sig
           p == PairOf[s]
           base == [mem EXCEPT !.tokens = mem.tokens \cup TokensOf(m, ok, TRUE)]
<1>1. s \in Signals /\ p \in Pairs
  BY WorkerAssumption DEF Messages
<1>2. base \in States
  BY TokensType DEF States
<1> HIDE DEF s, p, base
<1>3. CASE ~Delivered(ok)
  BY <1>3 DEF Sent
<1>4. CASE m.parts = {"range"}
  <2>1. [base EXCEPT !.track[s] = "noted"] \in States
    BY <1>1, <1>2 DEF States
  <2> QED BY <1>4, <2>1 DEF Sent, base, s
<1>5. CASE m.parts # {"signal"} /\ m.parts # {"range"}
  <2>1. base.stages[s] \in [Stages -> Times \cup {Never}]
    BY <1>1, <1>2 DEF States
  <2>2. [base EXCEPT !.stages[s] = Mark(base.stages[s], m)] \in States
    BY <1>1, <1>2, <2>1, MarkType DEF States
  <2> QED BY <1>5, <2>2, <1>3 DEF Sent, base, s
<1>6. CASE m.parts = {"signal"} /\ Delivered(ok)
  <2>1. [base EXCEPT !.sent[s] = now, !.cool[p] = now, !.track[s] = "armed"] \in States
    BY <1>1, <1>2 DEF States
  <2>2. [base EXCEPT !.sent[s] = now, !.hold[p] = Today] \in States
    BY <1>1, <1>2, TodayType DEF States
  <2>3. [base EXCEPT !.sent[s] = now] \in States
    BY <1>1, <1>2 DEF States
  <2>4. ActionOf[s] \in {"enter", "exit", "hold_open"}
    BY <1>1, WorkerAssumption
  <2>5. Sent(m, ok) =
          CASE ActionOf[s] = "enter" ->
                 [base EXCEPT !.sent[s] = now, !.cool[p] = now, !.track[s] = "armed"]
            [] ActionOf[s] = "hold_open" ->
                 [base EXCEPT !.sent[s] = now, !.hold[p] = Today]
            [] OTHER -> [base EXCEPT !.sent[s] = now]
    BY <1>6 DEF Sent, base, s, p
  <2> QED BY <2>1, <2>2, <2>3, <2>4, <2>5
<1> QED BY <1>3, <1>4, <1>5, <1>6

(***************************************************************************)
(* The offset is the same in memory and in the file; the batch at hand     *)
(* lies behind what was confirmed, and what of it is behind the worker is  *)
(* handled.                                                                *)
(***************************************************************************)
OffsetSaved == mem.last = disk.last /\ mem.last <= Len(updates)

Batch ==
  pc = "updates" =>
    /\ next \in confirmed + 1 .. upto + 1 /\ upto <= Len(updates)
    /\ confirmed + 1 .. next - 1 \subseteq handled

Delivery == OffsetSaved /\ Batch /\ NoUpdateSkipped

(***************************************************************************)
(* Type correctness, an action at a time.                                  *)
(***************************************************************************)
LEMMA TypeInit == Init => TypeOK
<1> SUFFICES ASSUME Init PROVE TypeOK
  OBVIOUS
<1>1. disk \in States
  BY EmptyStateType, WorkerAssumption DEF Init, States
<1>2. mem \in States
  BY <1>1, LoadType DEF Init
<1> QED
  BY <1>1, <1>2, WorkerAssumption DEF Init, TypeOK, Times, Phases

LEMMA TypeWorld ==
  ASSUME TypeOK, Tick \/ Operator \/ (\E s \in Signals : Backend(s))
  PROVE  TypeOK'
<1>1. CASE Tick
  BY <1>1, WorkerAssumption
  DEF TypeOK, Tick, Times, external, work, seen, got
<1>2. CASE Operator
  <2>1. PICK u \in Updates : updates' = Append(updates, u)
    BY <1>2 DEF Operator, Updates, TypeOK
  <2>2. updates' \in Seq(Updates) /\ Len(updates') <= MaxUpdates
    BY <1>2, <2>1, WorkerAssumption DEF TypeOK, Operator
  <2>3. confirmed' \in 0 .. Len(updates')
    BY <1>2, <2>1, WorkerAssumption DEF TypeOK, Operator
  <2> QED
    BY <1>2, <2>2, <2>3 DEF TypeOK, Operator, Times, work, seen, got
<1>3. ASSUME NEW s \in Signals, Backend(s)
      PROVE  TypeOK'
  BY <1>3 DEF TypeOK, Backend, Times, work, seen, got
<1> QED BY <1>1, <1>2, <1>3

\* What all steps of the worker leave alone, or count.
Steady ==
  /\ UNCHANGED <<now, phase, updates>>
  /\ confirmed' \in {confirmed, Past}
  /\ UNCHANGED faults \/ Fault

LEMMA SteadyType ==
  ASSUME TypeOK, OffsetSaved, Steady
  PROVE  /\ now' \in Times
         /\ phase' \in [Signals -> Phases]
         /\ updates' \in Seq(Updates) /\ Len(updates') <= MaxUpdates
         /\ confirmed' \in 0 .. Len(updates')
         /\ faults' \in 0 .. MaxFaults
         /\ life \in 0 .. faults'
<1>1. Past \in 0 .. Len(updates)
  BY WorkerAssumption DEF TypeOK, OffsetSaved, Past, States
<1> QED BY <1>1, WorkerAssumption DEF TypeOK, Steady, Fault, Times

LEMMA RestartType ==
  ASSUME TypeOK, Restart
  PROVE  /\ mem' \in States /\ disk' \in States
         /\ pc' \in {"idle", "updates", "health", "fetch", "signals", "followups"}
         /\ next' \in 0 .. MaxUpdates + 1 /\ upto' \in 0 .. MaxUpdates
         /\ result' \in {"none", "ok", "stale", "failed"}
         /\ todo' \subseteq Messages
         /\ faults' \in 0 .. MaxFaults /\ life' \in 0 .. faults'
<1>1. mem' \in States /\ disk' \in States
  BY LoadType, EmptyStateType DEF TypeOK, Restart
<1> QED
  BY <1>1, WorkerAssumption DEF TypeOK, Restart, Abandon, Fault

LEMMA TypeCrash ==
  ASSUME TypeOK, Crash \/ HealthCheckCrash \/ SendCrash
  PROVE  TypeOK'
<1>1. Restart /\ UNCHANGED <<now, phase, updates, confirmed, ledger>>
  BY DEF Crash, HealthCheckCrash, SendCrash, external
<1>2. buttons' \subseteq Tokens
  <2>1. CASE Crash \/ HealthCheckCrash
    BY <2>1 DEF Crash, HealthCheckCrash, TypeOK
  <2>2. CASE SendCrash
    <3>1. PICK m \in todo, reached \in SUBSET Targets :
            buttons' = buttons \cup TokensOf(m, reached, TRUE)
      BY <2>2 DEF SendCrash
    <3>2. m \in Messages /\ reached \in SUBSET Users
      BY <3>1, TargetsType DEF TypeOK
    <3>3. now \in Times /\ life \in 0 .. MaxFaults
      BY WorkerAssumption DEF TypeOK
    <3>4. TokensOf(m, reached, TRUE) \subseteq Tokens
      BY <3>2, <3>3, TokensType
    <3> QED BY <3>1, <3>4 DEF TypeOK
  <2> QED BY <2>1, <2>2
<1>3. /\ now' \in Times /\ phase' \in [Signals -> Phases]
      /\ updates' \in Seq(Updates) /\ Len(updates') <= MaxUpdates
      /\ confirmed' \in 0 .. Len(updates') /\ ledger' \subseteq Tokens
  BY <1>1 DEF TypeOK, Times
<1> QED BY <1>1, <1>2, <1>3, RestartType DEF TypeOK

LEMMA TypeStartCycle ==
  ASSUME TypeOK, OffsetSaved, StartCycle
  PROVE  TypeOK'
<1>1. mem' \in States /\ disk' \in States
  BY CleanedType DEF TypeOK, StartCycle, Write
<1>2. Steady
  BY DEF StartCycle, Steady, external
<1>3. /\ next' \in 0 .. MaxUpdates + 1 /\ upto' \in 0 .. MaxUpdates
      /\ pc' \in {"idle", "updates", "health", "fetch", "signals", "followups"}
      /\ UNCHANGED <<result, todo>>
  <2>1. Past \in 0 .. MaxUpdates
    BY WorkerAssumption DEF TypeOK, States, Past
  <2>2. /\ Len(updates) \in 0 .. MaxUpdates /\ MaxUpdates \in Nat
        /\ next \in 0 .. MaxUpdates + 1 /\ upto \in 0 .. MaxUpdates
    BY WorkerAssumption DEF TypeOK
  <2>3. \/ /\ pc' = "updates" /\ next' = Past + 1 /\ upto' = Len(updates)
           /\ UNCHANGED <<result, todo>>
        \/ pc' \in {"health", "idle"} /\ UNCHANGED work
    BY DEF StartCycle
  <2> QED BY <2>1, <2>2, <2>3 DEF work
<1> QED BY <1>1, <1>2, <1>3, SteadyType DEF TypeOK, StartCycle, got

LEMMA ReplyType ==
  ASSUME TypeOK, NEW answers, Reply(answers), pc = "updates", next <= upto
  PROVE  /\ pc' \in {"idle", "updates"}
         /\ next' \in 0 .. MaxUpdates + 1 /\ upto' \in 0 .. MaxUpdates
         /\ result' = "none" /\ todo' \subseteq Messages
         /\ UNCHANGED faults \/ Fault
  BY WorkerAssumption DEF TypeOK, Reply, Abandon

LEMMA TypeHandlers ==
  ASSUME TypeOK, OffsetSaved, Batch, HandleStart \/ HandleHelp \/ HandleDeadPress \/ SettlePress
  PROVE  TypeOK'
<1>1. PICK answers : Reply(answers)
  BY DEF HandleStart, HandleHelp, HandleDeadPress, SettlePress
<1>2. /\ pc = "updates" /\ next <= upto
      /\ UNCHANGED <<now, phase, updates, confirmed, ledger, life, buttons>>
  BY DEF HandleStart, HandleHelp, HandleDeadPress, SettlePress, Handling, external, got
<1>3. mem' \in States /\ disk' \in States
  <2>1. CASE HandleStart
    <3>1. updates[next] \in Updates
      <4>1. next \in 1 .. Len(updates)
        BY <1>2, WorkerAssumption DEF Batch, TypeOK, States
      <4> QED BY <4>1 DEF TypeOK
    <3>2. updates[next].user \in Users /\ updates[next].chat \in Chats
      BY <2>1, <3>1 DEF HandleStart, Handling, Updates
    <3>3. [mem.reg EXCEPT ![updates[next].user] = updates[next].chat]
            \in [Users -> Chats \cup {NoChat}]
      BY <3>2 DEF TypeOK, States
    <3> QED BY <2>1, <3>3 DEF HandleStart, Write, TypeOK, States
  <2>2. CASE HandleHelp
    BY <2>2 DEF HandleHelp, TypeOK
  <2>3. CASE HandleDeadPress
    BY <2>3, DroppedType DEF HandleDeadPress, Write, TypeOK
  <2>4. CASE SettlePress
    BY <2>4, DroppedType DEF SettlePress, Write, AfterPost, TypeOK
  <2> QED BY <2>1, <2>2, <2>3, <2>4
<1>4. Steady
  BY <1>1, <1>2, ReplyType DEF Steady
<1> QED BY <1>1, <1>2, <1>3, <1>4, ReplyType, SteadyType DEF TypeOK

LEMMA TypePress ==
  ASSUME TypeOK, OffsetSaved, Batch, PostAction
  PROVE  TypeOK'
<1>1. next \in 1 .. Len(updates)
  BY WorkerAssumption DEF PostAction, Handling, Batch, TypeOK, States
<1>2. Pressed \in Tokens
  <2>1. updates[next] \in Updates
    BY <1>1 DEF TypeOK
  <2> QED BY <2>1 DEF PostAction, Handling, Updates, Pressed
<1>3. ledger' \subseteq Tokens /\ result' \in {"none", "ok", "stale", "failed"}
  BY <1>2 DEF PostAction, TypeOK
<1>4. Steady
  BY DEF PostAction, Steady, external
<1> QED BY <1>3, <1>4, SteadyType DEF TypeOK, PostAction, external, got

LEMMA TypeCommitUpdates ==
  ASSUME TypeOK, CommitUpdates
  PROVE  TypeOK'
<1>1. mem' \in States /\ disk' \in States
  BY DEF TypeOK, CommitUpdates, Write, Offset, States
<1> QED
  BY <1>1, WorkerAssumption DEF TypeOK, CommitUpdates, external, got

LEMMA TypeHealthCheck ==
  ASSUME TypeOK, OffsetSaved, HealthCheck
  PROVE  TypeOK'
<1>1. PICK ok \in SUBSET DueUsers :
        /\ Outcome(DueUsers, ok)
        /\ IF ok = {} THEN UNCHANGED <<mem, disk>>
           ELSE Write([mem EXCEPT !.health = MarkHealth(ok)])
  BY HealthRound
<1>2. MarkHealth(ok) \in [Chats -> Days \cup {Never}]
  BY TodayType DEF MarkHealth, TypeOK, States
<1>3. mem' \in States /\ disk' \in States
  <2>1. ASSUME NEW f \in [Chats -> Days \cup {Never}], NEW m \in States
        PROVE  [m EXCEPT !.health = f] \in States
    BY DEF States
  <2>2. mem \in States /\ disk \in States
    BY DEF TypeOK
  <2>3. [mem EXCEPT !.health = MarkHealth(ok)] \in States
    BY <1>2, <2>1, <2>2
  <2> QED BY <1>1, <2>2, <2>3 DEF Write
<1>4. Steady
  BY <1>1 DEF HealthCheck, Steady, external, Outcome
<1> QED
  BY <1>3, <1>4, SteadyType DEF TypeOK, HealthCheck, external, work

LEMMA TypeBroadcast ==
  ASSUME TypeOK, OffsetSaved, FetchSignals \/ StartFollowUps \/ Finish
  PROVE  TypeOK'
<1>1. Steady /\ UNCHANGED <<mem, buttons, ledger, life>> /\ disk' \in {mem, disk}
  BY DEF FetchSignals, StartFollowUps, Finish, Steady, external, got, Write
<1>2. /\ pc' \in {"idle", "updates", "health", "fetch", "signals", "followups"}
      /\ next' \in 0 .. MaxUpdates + 1 /\ upto' \in 0 .. MaxUpdates
      /\ result' \in {"none", "ok", "stale", "failed"} /\ todo' \subseteq Messages
  BY MessagesType, WorkerAssumption
  DEF TypeOK, FetchSignals, StartFollowUps, Finish, Abandon
<1> QED BY <1>1, <1>2, SteadyType DEF TypeOK

LEMMA TypeSend ==
  ASSUME TypeOK, OffsetSaved, Send
  PROVE  TypeOK'
<1>1. PICK m \in todo, reached \in SUBSET Targets, ok \in SUBSET Targets :
        /\ ok \subseteq reached /\ Outcome(Targets, ok)
        /\ Keep(Sent(m, ok))
        /\ buttons' = buttons \cup ButtonsOf(m, reached, ok)
        /\ todo' = todo \ {m}
  BY SendRound
<1>2. m \in Messages /\ reached \in SUBSET Users /\ ok \in SUBSET Users
  BY <1>1, TargetsType DEF TypeOK
<1>3. now \in Times /\ life \in 0 .. MaxFaults
  BY WorkerAssumption DEF TypeOK
<1>4. mem' \in States /\ disk' \in States
  BY <1>1, <1>2, <1>3, SentType DEF Keep, TypeOK
<1>5. buttons' \subseteq Tokens
  BY <1>1, <1>2, <1>3, ButtonsType DEF TypeOK
<1>6. Steady
  BY <1>1 DEF Send, Steady, external, Outcome
<1> QED
  BY <1>1, <1>4, <1>5, <1>6, SteadyType DEF TypeOK, Send, external

LEMMA TypeStep ==
  ASSUME TypeOK, OffsetSaved, Batch, Next
  PROVE  TypeOK'
<1>1. CASE Tick \/ Operator \/ (\E s \in Signals : Backend(s))
  BY <1>1, TypeWorld
<1>2. CASE StartCycle
  BY <1>2, TypeStartCycle
<1>3. CASE HandleUpdates
  BY <1>3, TypeHandlers, TypePress, TypeCommitUpdates DEF HandleUpdates
<1>4. CASE HealthCheck \/ FetchSignals \/ Send \/ StartFollowUps \/ Finish
  BY <1>4, TypeHealthCheck, TypeBroadcast, TypeSend
<1>5. CASE Crash \/ HealthCheckCrash \/ SendCrash
  BY <1>5, TypeCrash
<1> QED BY <1>1, <1>2, <1>3, <1>4, <1>5 DEF Next, Worker

(***************************************************************************)
(* The offset: only the end of a batch moves it, and only over updates     *)
(* whose handlers came to their end.                                       *)
(***************************************************************************)
LEMMA DeliveryInit == Init => Delivery
  BY LoadType, EmptyStateType, WorkerAssumption
  DEF Init, Delivery, OffsetSaved, Batch, NoUpdateSkipped, Load, EmptyState, States

\* A step that leaves the offset and the handled updates alone, and the
\* batch with it or ends it.
OffBatch ==
  /\ mem'.last = disk'.last /\ disk'.last \in {disk.last, 0}
  /\ confirmed' \in {confirmed, Past} /\ handled' = handled
  /\ Len(updates) <= Len(updates')
  /\ pc' # "updates"

LEMMA OffBatchDelivery ==
  ASSUME TypeOK, Delivery, OffBatch, Len(updates') \in Nat
  PROVE  Delivery'
<1>1. mem.last \in Nat /\ disk.last \in Nat /\ Len(updates) \in Nat /\ confirmed \in Nat
  BY DEF TypeOK, States
<1>2. OffsetSaved'
  BY <1>1 DEF Delivery, OffBatch, OffsetSaved
<1>3. 1 .. disk'.last \subseteq handled'
  BY <1>1 DEF Delivery, OffBatch, NoUpdateSkipped
<1>4. 1 .. confirmed' \subseteq handled'
  BY <1>1 DEF Delivery, OffBatch, OffsetSaved, Past, NoUpdateSkipped
<1> QED BY <1>2, <1>3, <1>4 DEF Delivery, OffBatch, Batch, NoUpdateSkipped

LEMMA CrashDelivery ==
  ASSUME TypeOK, Delivery, Crash \/ HealthCheckCrash \/ SendCrash
  PROVE  Delivery'
<1>1. Restart /\ UNCHANGED handled
  BY DEF Crash, HealthCheckCrash, SendCrash, seen
<1>2. UNCHANGED <<updates, confirmed>>
  BY DEF Crash, HealthCheckCrash, SendCrash, external
<1>3. Load(disk).last = disk.last /\ EmptyState.last = 0 /\ Load(EmptyState).last = 0
  BY EmptyStateType DEF Load, TypeOK, States, EmptyState
<1>4. OffBatch
  BY <1>1, <1>2, <1>3 DEF Restart, Abandon, OffBatch, TypeOK
<1> QED BY <1>2, <1>4, OffBatchDelivery DEF TypeOK

LEMMA WorldDelivery ==
  ASSUME TypeOK, Delivery, Tick \/ Operator \/ (\E s \in Signals : Backend(s))
  PROVE  Delivery'
<1>1. UNCHANGED <<mem, disk, confirmed, handled>> /\ pc' # "updates"
  BY DEF Tick, Operator, Backend, external, seen
<1>2. Len(updates') \in Nat /\ Len(updates) <= Len(updates')
  <2>1. updates \in Seq(Updates)
    BY DEF TypeOK
  <2>2. CASE updates' = updates
    BY <2>1, <2>2
  <2>3. CASE \E u : updates' = Append(updates, u)
    BY <2>1, <2>3
  <2> QED BY <2>2, <2>3 DEF Tick, Operator, Backend, external
<1>3. OffBatch
  BY <1>1, <1>2 DEF OffBatch, Delivery, OffsetSaved
<1> QED BY <1>2, <1>3, OffBatchDelivery

LEMMA StartCycleDelivery ==
  ASSUME TypeOK, Delivery, StartCycle
  PROVE  Delivery'
<1>1. Cleaned(mem).last = mem.last
  BY DEF Cleaned, TypeOK, States
<1>2. /\ mem'.last = mem.last /\ disk'.last = disk.last /\ UNCHANGED <<handled, updates>>
      /\ confirmed' \in {confirmed, Past}
  BY <1>1 DEF StartCycle, Write, Delivery, OffsetSaved, seen, external
<1>0. mem.last \in Nat /\ Len(updates) \in Nat /\ confirmed \in Nat
  BY WorkerAssumption DEF TypeOK, States
<1>3. CASE pc' = "updates"
  <2>1. /\ next' = Past + 1 /\ upto' = Len(updates) /\ Past < Len(updates)
        /\ confirmed' = Past
    BY <1>3, <1>2 DEF StartCycle, work
  <2>2. 1 .. Past \subseteq handled
    BY <1>0 DEF Delivery, OffsetSaved, NoUpdateSkipped, Past
  <2> QED
    BY <1>0, <1>2, <2>1, <2>2 DEF Delivery, OffsetSaved, Batch, NoUpdateSkipped, Past
<1>4. CASE pc' # "updates"
  BY <1>0, <1>2, <1>4, OffBatchDelivery DEF OffBatch, StartCycle, Delivery, OffsetSaved
<1> QED BY <1>3, <1>4

LEMMA ReplyDelivery ==
  ASSUME TypeOK, Delivery, NEW answers, Reply(answers),
         pc = "updates", next <= upto, UNCHANGED <<updates, confirmed>>,
         mem'.last = mem.last, disk'.last = disk.last
  PROVE  Delivery'
<1>1. /\ mem.last \in Nat /\ Len(updates) \in Nat /\ next \in Nat /\ upto \in Nat
      /\ confirmed \in Nat
  BY WorkerAssumption DEF TypeOK, States
<1>2. CASE pc' = "updates"
  <2>1. next' = next + 1 /\ upto' = upto /\ handled' = handled \cup {next}
    BY <1>2 DEF Reply, Abandon
  <2>2. confirmed + 1 .. next \subseteq handled'
    BY <1>1, <2>1 DEF Delivery, Batch
  <2>3. Batch'
    BY <1>1, <2>1, <2>2 DEF Delivery, Batch
  <2> QED BY <2>1, <2>3 DEF Delivery, OffsetSaved, NoUpdateSkipped
<1>3. CASE pc' # "updates"
  BY <1>1, <1>3, OffBatchDelivery DEF OffBatch, Reply, Delivery, OffsetSaved
<1> QED BY <1>2, <1>3

LEMMA HandlersDelivery ==
  ASSUME TypeOK, Delivery, HandleStart \/ HandleHelp \/ HandleDeadPress \/ SettlePress
  PROVE  Delivery'
<1>1. PICK answers : Reply(answers)
  BY DEF HandleStart, HandleHelp, HandleDeadPress, SettlePress
<1>2. pc = "updates" /\ next <= upto /\ UNCHANGED <<updates, confirmed>>
  BY DEF HandleStart, HandleHelp, HandleDeadPress, SettlePress, Handling, external
<1>3. mem'.last = mem.last /\ disk'.last = disk.last
  <2>1. mem \in States /\ mem.last = disk.last
    BY DEF TypeOK, Delivery, OffsetSaved
  <2>2. ASSUME NEW t PROVE Dropped(t).last = mem.last
    BY <2>1 DEF Dropped, States
  <2>3. CASE HandleStart
    BY <2>1, <2>3 DEF HandleStart, Write, States
  <2>4. CASE HandleHelp
    BY <2>4 DEF HandleHelp
  <2>5. CASE HandleDeadPress
    BY <2>1, <2>2, <2>5 DEF HandleDeadPress, Write
  <2>6. CASE SettlePress
    BY <2>1, <2>2, <2>6 DEF SettlePress, AfterPost, Write
  <2> QED BY <2>3, <2>4, <2>5, <2>6
<1> QED BY <1>1, <1>2, <1>3, ReplyDelivery

LEMMA PressDelivery ==
  ASSUME TypeOK, Delivery, PostAction
  PROVE  Delivery'
  BY DEF PostAction, external, seen, Delivery, OffsetSaved, Batch, NoUpdateSkipped

LEMMA CommitDelivery ==
  ASSUME TypeOK, Delivery, CommitUpdates
  PROVE  Delivery'
<1>1. mem.last \in Nat /\ next \in Nat /\ upto \in Nat /\ confirmed \in Nat
  BY WorkerAssumption DEF TypeOK, States
<1>2. /\ mem'.last = upto /\ disk'.last = upto /\ handled' = handled /\ pc' = "health"
      /\ UNCHANGED <<confirmed, updates>>
  BY DEF CommitUpdates, Write, Offset, TypeOK, States, seen, external
<1>3. 1 .. upto \subseteq handled /\ upto <= Len(updates)
  BY <1>1 DEF CommitUpdates, Delivery, OffsetSaved, Batch, NoUpdateSkipped
<1> QED BY <1>2, <1>3 DEF Delivery, OffsetSaved, Batch, NoUpdateSkipped

LEMMA LaterDelivery ==
  ASSUME TypeOK, Delivery, HealthCheck \/ FetchSignals \/ Send \/ StartFollowUps \/ Finish
  PROVE  Delivery'
<1>1. pc' # "updates" /\ UNCHANGED <<handled, updates, confirmed>>
  BY DEF HealthCheck, FetchSignals, Send, StartFollowUps, Finish, Abandon, seen, external
<1>2. mem'.last = mem.last /\ disk'.last \in {mem.last, disk.last}
  <2>1. CASE HealthCheck
    <3>1. PICK ok \in SUBSET DueUsers :
            IF ok = {} THEN UNCHANGED <<mem, disk>>
            ELSE Write([mem EXCEPT !.health = MarkHealth(ok)])
      BY <2>1, HealthRound
    <3> QED BY <3>1 DEF Write, TypeOK, States
  <2>2. CASE Send
    <3>1. PICK m \in todo, ok \in SUBSET Targets : Keep(Sent(m, ok))
      BY <2>2, SendRound
    <3>2. Sent(m, ok).last = mem.last
      <4>1. m \in Messages /\ PairOf[m.sig] \in Pairs /\ m.sig \in Signals
        BY WorkerAssumption DEF TypeOK, Messages
      <4>2. ActionOf[m.sig] \in {"enter", "exit", "hold_open"}
        BY <4>1, WorkerAssumption
      <4> QED BY <4>1, <4>2 DEF Sent, TypeOK, States
    <3> QED BY <3>1, <3>2 DEF Keep
  <2>3. CASE FetchSignals \/ StartFollowUps \/ Finish
    BY <2>3 DEF FetchSignals, StartFollowUps, Finish, Write
  <2> QED BY <2>1, <2>2, <2>3
<1>3. OffBatch /\ Len(updates') \in Nat
  BY <1>1, <1>2 DEF OffBatch, Delivery, OffsetSaved, TypeOK
<1> QED BY <1>3, OffBatchDelivery

LEMMA DeliveryStep ==
  ASSUME TypeOK, Delivery, Next
  PROVE  Delivery'
<1>1. CASE Tick \/ Operator \/ (\E s \in Signals : Backend(s))
  BY <1>1, WorldDelivery
<1>2. CASE StartCycle
  BY <1>2, StartCycleDelivery
<1>3. CASE HandleUpdates
  BY <1>3, HandlersDelivery, PressDelivery, CommitDelivery DEF HandleUpdates
<1>4. CASE HealthCheck \/ FetchSignals \/ Send \/ StartFollowUps \/ Finish
  BY <1>4, LaterDelivery
<1>5. CASE Crash \/ HealthCheckCrash \/ SendCrash
  BY <1>5, CrashDelivery
<1> QED BY <1>1, <1>2, <1>3, <1>4, <1>5 DEF Next, Worker

LEMMA Stutter ==
  ASSUME TypeOK, Delivery, UNCHANGED vars
  PROVE  TypeOK' /\ Delivery'
  BY DEF vars, external, work, seen, got, TypeOK, Times, Delivery, OffsetSaved, Batch,
         NoUpdateSkipped

LEMMA WorkerInvariant == Spec => [](TypeOK /\ Delivery)
<1>1. Init => TypeOK /\ Delivery
  BY TypeInit, DeliveryInit
<1>2. TypeOK /\ Delivery /\ [Next]_vars => (TypeOK /\ Delivery)'
  BY TypeStep, DeliveryStep, Stutter DEF Delivery
<1> QED BY <1>1, <1>2, PTL DEF Spec

(***************************************************************************)
(* Type correctness of the worker: whatever fails, what is in memory and   *)
(* what is in the file is a state load_state and save_state know.          *)
(***************************************************************************)
THEOREM WorkerTypes == Spec => []TypeOK
  BY WorkerInvariant, PTL

(***************************************************************************)
(* No crash, failed call or redelivered batch makes the bot forget an      *)
(* update: below the saved offset all are handled to the end.              *)
(***************************************************************************)
THEOREM WorkerSkipsNoUpdate == Spec => []NoUpdateSkipped
<1>1. TypeOK /\ Delivery => NoUpdateSkipped
  BY DEF Delivery
<1> QED BY <1>1, WorkerInvariant, PTL

(***************************************************************************)
(* Buttons: what is in the file is in memory, and what the backend said of *)
(* the press at hand is so.                                                *)
(***************************************************************************)
TokensSaved == disk.tokens \subseteq mem.tokens

ResultFits ==
  result # "none" =>
    /\ pc = "updates" /\ next <= upto
    /\ result = "ok" => Pressed \in ledger
    /\ result = "stale" => phase[Pressed.sig] = "gone"

ButtonInv == TokensSaved /\ ResultFits

\* A button that may go.
Spent(t) == t \in ledger \/ phase[t.sig] = "gone" \/ Expired(t)

LEMMA ButtonInit == Init => ButtonInv
  BY LoadType, EmptyStateType, WorkerAssumption
  DEF Init, ButtonInv, TokensSaved, ResultFits, Load, EmptyState, States

\* What a step writes to the file it has in memory, and only spent buttons
\* are missing there; or the file was spoilt.
TokensStep ==
  \/ /\ mem.tokens \subseteq mem'.tokens
     /\ disk'.tokens = disk.tokens
  \/ /\ disk'.tokens = mem'.tokens
     /\ \A t \in disk.tokens \ mem'.tokens : Spent(t)
  \/ disk' = EmptyState /\ disk'.tokens = {}

LEMMA WriteTokens ==
  ASSUME ButtonInv, NEW m,
         Write(m), \A t \in mem.tokens \ m.tokens : Spent(t)
  PROVE  TokensStep
  BY DEF ButtonInv, TokensSaved, Write, TokensStep

LEMMA TokensStepSafe ==
  ASSUME ButtonInv, TokensStep
  PROVE  TokensSaved' /\ (disk' # EmptyState => \A t \in disk.tokens \ disk'.tokens : Spent(t))
  BY DEF ButtonInv, TokensSaved, TokensStep

LEMMA CrashTokens ==
  ASSUME TypeOK, ButtonInv, Crash \/ HealthCheckCrash \/ SendCrash
  PROVE  TokensStep /\ ResultFits'
<1>1. Restart
  BY DEF Crash, HealthCheckCrash, SendCrash
<1>2. Load(disk).tokens = disk.tokens /\ EmptyState.tokens = {}
  BY DEF Load, TypeOK, States, EmptyState
<1>3. TokensStep
  BY <1>1, <1>2 DEF Restart, TokensStep
<1> QED BY <1>1, <1>3 DEF Restart, Abandon, ResultFits

LEMMA WorldTokens ==
  ASSUME ButtonInv, Tick \/ Operator \/ (\E s \in Signals : Backend(s))
  PROVE  TokensStep /\ ResultFits'
  BY DEF Tick, Operator, Backend, work, ButtonInv, TokensStep, ResultFits

LEMMA StartCycleTokens ==
  ASSUME TypeOK, ButtonInv, StartCycle
  PROVE  TokensStep /\ ResultFits'
<1>1. \A t \in mem.tokens \ Cleaned(mem).tokens : Spent(t)
  BY DEF Cleaned, TypeOK, States, Spent
<1>2. TokensStep
  BY <1>1, WriteTokens DEF StartCycle, TokensStep
<1>3. result = "none"
  BY DEF StartCycle, ButtonInv, ResultFits
<1> QED BY <1>2, <1>3 DEF StartCycle, work, ResultFits

LEMMA DroppedTokens ==
  ASSUME TypeOK, NEW u
  PROVE  Dropped(u).tokens = mem.tokens \ {u}
  BY DEF Dropped, TypeOK, States

LEMMA HandlersTokens ==
  ASSUME TypeOK, ButtonInv, HandleStart \/ HandleHelp \/ HandleDeadPress \/ SettlePress
  PROVE  TokensStep /\ ResultFits'
<1>1. PICK answers : Reply(answers)
  BY DEF HandleStart, HandleHelp, HandleDeadPress, SettlePress
<1>2. ResultFits'
  BY <1>1 DEF Reply, Abandon, ResultFits
<1>3. CASE HandleStart
  <2>1. ASSUME NEW r PROVE [mem EXCEPT !.reg = r].tokens = mem.tokens
    BY DEF TypeOK, States
  <2> QED BY <1>2, <1>3, <2>1, WriteTokens DEF HandleStart
<1>4. CASE HandleHelp
  BY <1>2, <1>4 DEF HandleHelp, TokensStep
<1>5. CASE HandleDeadPress
  <2>1. CASE UNCHANGED <<mem, disk>>
    BY <1>2, <2>1 DEF TokensStep
  <2>2. CASE Expired(Pressed) /\ Write(Dropped(Pressed))
    BY <1>2, <2>2, DroppedTokens, WriteTokens DEF Spent
  <2> QED BY <1>5, <2>1, <2>2 DEF HandleDeadPress
<1>6. CASE SettlePress
  <2>1. CASE UNCHANGED <<mem, disk>>
    BY <1>2, <2>1 DEF TokensStep
  <2>2. CASE AfterPost # mem /\ Write(AfterPost)
    <3>1. AfterPost = Dropped(Pressed) /\ result \in {"ok", "stale"}
      BY <1>6, <2>2 DEF AfterPost, SettlePress, TypeOK
    <3>2. Spent(Pressed)
      BY <3>1 DEF ButtonInv, ResultFits, Spent
    <3> QED BY <1>2, <2>2, <3>1, <3>2, DroppedTokens, WriteTokens
  <2> QED BY <1>6, <2>1, <2>2 DEF SettlePress
<1> QED BY <1>3, <1>4, <1>5, <1>6

LEMMA PressTokens ==
  ASSUME ButtonInv, PostAction
  PROVE  TokensStep /\ ResultFits'
<1>1. TokensStep
  BY DEF PostAction, TokensStep
<1>2. Pressed' = Pressed /\ UNCHANGED <<phase, pc, next, upto>> /\ pc = "updates" /\ next <= upto
  BY DEF PostAction, Pressed, external, Handling
<1>3. ResultFits'
  BY <1>2 DEF PostAction, ResultFits
<1> QED BY <1>1, <1>3

LEMMA LaterTokens ==
  ASSUME TypeOK, ButtonInv,
         CommitUpdates \/ HealthCheck \/ FetchSignals \/ Send \/ StartFollowUps \/ Finish
  PROVE  TokensStep /\ ResultFits'
<1>1. result = "none" /\ result' = "none"
  BY DEF CommitUpdates, HealthCheck, FetchSignals, Send, StartFollowUps, Finish, Abandon,
         work, ButtonInv, ResultFits, TypeOK
<1>2. ResultFits'
  BY <1>1 DEF ResultFits
<1>3. CASE CommitUpdates
  <2>1. [mem EXCEPT !.last = Offset].tokens = mem.tokens
    BY DEF TypeOK, States
  <2> QED BY <1>2, <1>3, <2>1, WriteTokens DEF CommitUpdates
<1>4. CASE HealthCheck
  <2>1. ASSUME NEW h PROVE [mem EXCEPT !.health = h].tokens = mem.tokens
    BY DEF TypeOK, States
  <2>2. PICK ok \in SUBSET DueUsers :
          IF ok = {} THEN UNCHANGED <<mem, disk>>
          ELSE Write([mem EXCEPT !.health = MarkHealth(ok)])
    BY <1>4, HealthRound
  <2>3. CASE ok = {}
    BY <1>2, <2>2, <2>3 DEF TokensStep
  <2>4. CASE ok # {}
    BY <1>2, <2>1, <2>2, <2>4, WriteTokens
  <2> QED BY <2>3, <2>4
<1>5. CASE FetchSignals \/ StartFollowUps
  BY <1>2, <1>5 DEF FetchSignals, StartFollowUps, TokensStep
<1>6. CASE Send
  <2>1. PICK m \in todo, ok \in SUBSET Targets : Keep(Sent(m, ok))
    BY <1>6, SendRound
  <2>2. mem.tokens \subseteq Sent(m, ok).tokens
    <3>1. m.sig \in Signals /\ ActionOf[m.sig] \in {"enter", "exit", "hold_open"}
      BY WorkerAssumption DEF TypeOK, Messages
    <3> QED BY <3>1 DEF Sent, TypeOK, States
  <2> QED BY <1>2, <2>1, <2>2 DEF Keep, TokensStep
<1>7. CASE Finish
  BY <1>2, <1>7, WriteTokens DEF Finish
<1> QED BY <1>3, <1>4, <1>5, <1>6, <1>7

LEMMA TokensNext ==
  ASSUME TypeOK, ButtonInv, Next
  PROVE  TokensStep /\ ResultFits'
<1>1. CASE Tick \/ Operator \/ (\E s \in Signals : Backend(s))
  BY <1>1, WorldTokens
<1>2. CASE Worker
  BY <1>2, StartCycleTokens, HandlersTokens, PressTokens, LaterTokens DEF Worker, HandleUpdates
<1>3. CASE Crash \/ HealthCheckCrash \/ SendCrash
  BY <1>3, CrashTokens
<1> QED BY <1>1, <1>2, <1>3 DEF Next

(***************************************************************************)
(* A button in the file goes only when its action is recorded, its signal  *)
(* is stale or its time is up, in every step of every run, unless the file *)
(* is spoilt.                                                              *)
(***************************************************************************)
THEOREM WorkerLosesNoButton == Spec => NoButtonLost
<1>1. Init => ButtonInv
  BY ButtonInit
<1>2. TypeOK /\ ButtonInv /\ [Next]_vars => ButtonInv'
  <2>1. ASSUME TypeOK, ButtonInv, Next PROVE ButtonInv'
    BY <2>1, TokensNext, TokensStepSafe DEF ButtonInv
  <2>2. ASSUME ButtonInv, UNCHANGED vars PROVE ButtonInv'
    BY <2>2 DEF vars, external, work, ButtonInv, TokensSaved, ResultFits, Pressed
  <2> QED BY <2>1, <2>2
<1>3. TypeOK /\ ButtonInv /\ [Next]_vars
        => [disk' # EmptyState =>
              \A t \in disk.tokens \ disk'.tokens :
                t \in ledger \/ phase[t.sig] = "gone" \/ Expired(t)]_vars
  BY TokensNext, TokensStepSafe DEF Spent
<1> QED BY <1>1, <1>2, <1>3, WorkerTypes, PTL DEF Spec, NoButtonLost

(***************************************************************************)
(* What the worker says it sent.  A mark of the state may only age: it is  *)
(* dropped when its retention time is over.                                *)
(***************************************************************************)
Aged(old, new) == new = old \/ (new = Never /\ now > old + SentTtl)

Fresh(mark, at) == mark = Never \/ at <= mark + SentTtl

Aging(m) ==
  /\ \A s \in Signals :
       /\ Aged(mem.sent[s], m.sent[s])
       /\ m.sent[s] # Never => m.track[s] = mem.track[s]
       /\ \A g \in Stages : Aged(mem.stages[s][g], m.stages[s][g])
  /\ \A p \in Pairs : m.cool[p] \in {mem.cool[p], Never}
  /\ m.hold = mem.hold

LEMMA ForgetAges ==
  ASSUME now \in Times, NEW K, NEW map \in [K -> Times \cup {Never}], NEW k \in K
  PROVE  /\ Aged(map[k], Forget(map)[k])
         /\ Forget(map)[k] \in {map[k], Never}
         /\ Fresh(Forget(map)[k], now)
<1>1. Forget(map)[k] = IF map[k] # Never /\ now > map[k] + SentTtl THEN Never ELSE map[k]
  BY DEF Forget
<1>2. map[k] \in Times \cup {Never} /\ SentTtl \in Nat
  BY WorkerAssumption
<1> QED BY <1>1, <1>2 DEF Aged, Fresh, Times, Never

LEMMA CleanedAges ==
  ASSUME TypeOK
  PROVE  /\ Aging(Cleaned(mem))
         /\ \A s \in Signals : Fresh(Cleaned(mem).sent[s], now)
         /\ Cleaned(mem).health = mem.health
<1>1. /\ Cleaned(mem).sent = Forget(mem.sent)
      /\ Cleaned(mem).cool = Forget(mem.cool)
      /\ Cleaned(mem).hold = mem.hold
      /\ Cleaned(mem).health = mem.health
      /\ Cleaned(mem).track = [s \in Signals |-> IF Forget(mem.sent)[s] = Never THEN "off" ELSE mem.track[s]]
      /\ Cleaned(mem).stages = [s \in Signals |-> Forget(mem.stages[s])]
  BY DEF Cleaned, TypeOK, States
<1>2. ASSUME NEW s \in Signals
      PROVE  /\ Aged(mem.sent[s], Cleaned(mem).sent[s])
             /\ Fresh(Cleaned(mem).sent[s], now)
             /\ Cleaned(mem).sent[s] # Never => Cleaned(mem).track[s] = mem.track[s]
  <2>1. mem.sent \in [Signals -> Times \cup {Never}] /\ now \in Times
    BY DEF TypeOK, States
  <2> QED BY <1>1, <2>1, ForgetAges
<1>3. ASSUME NEW s \in Signals, NEW g \in Stages
      PROVE  Aged(mem.stages[s][g], Cleaned(mem).stages[s][g])
  <2>1. mem.stages[s] \in [Stages -> Times \cup {Never}] /\ now \in Times
    BY DEF TypeOK, States
  <2>2. Cleaned(mem).stages[s] = Forget(mem.stages[s])
    BY <1>1
  <2> QED BY <2>1, <2>2, ForgetAges
<1>4. ASSUME NEW p \in Pairs
      PROVE  Cleaned(mem).cool[p] \in {mem.cool[p], Never}
  <2>1. mem.cool \in [Pairs -> Times \cup {Never}] /\ now \in Times
    BY DEF TypeOK, States
  <2> QED BY <1>1, <2>1, ForgetAges
<1> QED BY <1>1, <1>2, <1>3, <1>4 DEF Aging

\* A state with the marks of memory.
Same(m) ==
  /\ m.sent = mem.sent /\ m.track = mem.track /\ m.stages = mem.stages
  /\ m.cool = mem.cool /\ m.hold = mem.hold

LEMMA SameAges ==
  ASSUME NEW m, Same(m)
  PROVE  Aging(m)
  BY DEF Same, Aging, Aged

LEMMA SameCases ==
  ASSUME TypeOK
  PROVE  /\ Same(mem)
         /\ \A t : Same(Dropped(t)) /\ Dropped(t).health = mem.health
         /\ \A r : Same([mem EXCEPT !.reg = r]) /\ [mem EXCEPT !.reg = r].health = mem.health
         /\ \A l : Same([mem EXCEPT !.last = l]) /\ [mem EXCEPT !.last = l].health = mem.health
         /\ \A h : Same([mem EXCEPT !.health = h])
  BY DEF Same, Dropped, TypeOK, States

(***************************************************************************)
(* The marks a message leaves once it is delivered.                        *)
(***************************************************************************)
LEMMA SentMarks ==
  ASSUME TypeOK, NEW m \in Messages, NEW ok \in SUBSET Users
  PROVE  LET to == Sent(m, ok) IN
         /\ to.health = mem.health
         /\ ok = {} => to = mem
         /\ ok # {} /\ m.parts = {"signal"} =>
              /\ to.sent = [mem.sent EXCEPT ![m.sig] = now]
              /\ to.stages = mem.stages
              /\ \A s \in Signals \ {m.sig} : to.track[s] = mem.track[s]
              /\ \A p \in Pairs : to.cool[p] \in {mem.cool[p], now} /\ to.hold[p] \in {mem.hold[p], Today}
         /\ ok # {} /\ m.parts = {"range"} =>
              /\ to.sent = mem.sent /\ to.stages = mem.stages
              /\ to.track = [mem.track EXCEPT ![m.sig] = "noted"]
              /\ to.cool = mem.cool /\ to.hold = mem.hold
         /\ ok # {} /\ m.parts # {"range"} /\ m.parts # {"signal"} =>
              /\ to.sent = mem.sent /\ to.track = mem.track
              /\ to.stages = [mem.stages EXCEPT ![m.sig] = Mark(mem.stages[m.sig], m)]
              /\ to.cool = mem.cool /\ to.hold = mem.hold
<1> DEFINE s == m.sig
           p == PairOf[s]
           base == [mem EXCEPT !.tokens = mem.tokens \cup TokensOf(m, ok, TRUE)]
<1>1. s \in Signals /\ p \in Pairs /\ ActionOf[s] \in {"enter", "exit", "hold_open"}
  BY WorkerAssumption DEF Messages
<1>2. /\ base.sent = mem.sent /\ base.track = mem.track /\ base.stages = mem.stages
      /\ base.cool = mem.cool /\ base.hold = mem.hold /\ base.health = mem.health
      /\ base \in [{"last", "reg", "sent", "track", "cool", "hold", "health", "tokens", "stages"} ->
                     {base[f] : f \in {"last", "reg", "sent", "track", "cool", "hold", "health", "tokens", "stages"}}]
  BY DEF TypeOK, States
<1>3. CASE ok = {}
  BY <1>3 DEF Sent, Delivered
<1>4. CASE ok # {} /\ m.parts = {"range"}
  <2>1. Sent(m, ok) = [base EXCEPT !.track[s] = "noted"]
    BY <1>4 DEF Sent, Delivered
  <2> QED BY <1>2, <1>4, <2>1 DEF TypeOK, States
<1>5. CASE ok # {} /\ m.parts # {"range"} /\ m.parts # {"signal"}
  <2>1. Sent(m, ok) = [base EXCEPT !.stages[s] = Mark(base.stages[s], m)]
    BY <1>5 DEF Sent, Delivered
  <2> QED BY <1>2, <1>5, <2>1 DEF TypeOK, States
<1>6. CASE ok # {} /\ m.parts = {"signal"}
  <2>1. Sent(m, ok) =
          CASE ActionOf[s] = "enter" ->
                 [base EXCEPT !.sent[s] = now, !.cool[p] = now, !.track[s] = "armed"]
            [] ActionOf[s] = "hold_open" ->
                 [base EXCEPT !.sent[s] = now, !.hold[p] = Today]
            [] OTHER -> [base EXCEPT !.sent[s] = now]
    BY <1>6 DEF Sent, Delivered
  <2>2. /\ mem.sent \in [Signals -> Times \cup {Never}]
        /\ mem.track \in [Signals -> {"off", "armed", "noted"}]
        /\ mem.cool \in [Pairs -> Times \cup {Never}]
        /\ mem.hold \in [Pairs -> Days \cup {Never}]
    BY DEF TypeOK, States
  <2>3. CASE ActionOf[s] = "enter"
    <3>1. Sent(m, ok) = [base EXCEPT !.sent[s] = now, !.cool[p] = now, !.track[s] = "armed"]
      BY <2>1, <2>3
    <3> QED BY <1>1, <1>2, <1>6, <2>2, <3>1
  <2>4. CASE ActionOf[s] = "hold_open"
    <3>1. Sent(m, ok) = [base EXCEPT !.sent[s] = now, !.hold[p] = Today]
      BY <2>1, <2>4
    <3> QED BY <1>1, <1>2, <1>6, <2>2, <3>1
  <2>5. CASE ActionOf[s] = "exit"
    <3>1. Sent(m, ok) = [base EXCEPT !.sent[s] = now]
      BY <2>1, <2>5
    <3> QED BY <1>1, <1>2, <1>6, <2>2, <3>1
  <2> QED BY <1>1, <2>3, <2>4, <2>5
<1> QED BY <1>3, <1>4, <1>5, <1>6

(***************************************************************************)
(* The log of this life, and what the marks tell of each of its entries.   *)
(***************************************************************************)
Entries == [at : Times, sure : BOOLEAN]

LogTypes ==
  /\ DOMAIN when \subseteq Users \X Signals \X Parts
  /\ \A k \in DOMAIN when :
       /\ when[k] \in Seq(Entries)
       /\ \A i \in DOMAIN when[k] : when[k][i].at <= now

Announced(s, t) == \E at \in AnnouncedAt(s) : t < at

\* An entry of time t is over, or a mark still stands for it; an out-of-range
\* update that is over without a new announcement is one whose signal is
\* forgotten.
Covered(k, t) ==
  /\ k[3] = "signal" => now > t + SentTtl \/ mem.sent[k[2]] >= t
  /\ k[3] \in Stages => now > t + SentTtl \/ mem.stages[k[2]][k[3]] >= t
  /\ k[3] = "range" =>
       \/ Announced(k[2], t)
       \/ mem.sent[k[2]] = Never /\ now > t
       \/ /\ mem.sent[k[2]] # Never /\ t <= mem.sent[k[2]] + SentTtl
          /\ mem.track[k[2]] = "noted"

MarksCover ==
  \A k \in DOMAIN when : \A i \in DOMAIN when[k] :
    when[k][i].sure => Covered(k, when[k][i].at)

\* In a cycle the marks are those that _cleanup_state left, or newer.
MarksFresh == pc # "idle" => \A s \in Signals : Fresh(mem.sent[s], now)

\* What the follow-ups may still send is not marked, and its messages share
\* no stage.
TodoFresh ==
  pc = "followups" =>
    /\ \A m \in todo : m.parts \subseteq Stages /\ \A g \in m.parts : mem.stages[m.sig][g] = Never
    /\ \A m, n \in todo : m.sig = n.sig /\ m # n => m.parts \cap n.parts = {}

Spaced ==
  \A k \in DOMAIN when : \A i, j \in DOMAIN when[k] :
    i < j /\ when[k][i].sure =>
      IF k[3] = "range"
      THEN \E at \in AnnouncedAt(k[2]) : when[k][i].at < at /\ at <= when[k][j].at
      ELSE when[k][j].at > when[k][i].at + SentTtl

LogInv == LogTypes /\ MarksCover /\ MarksFresh /\ TodoFresh /\ Spaced

\* Steps that send nothing.
Quiet ==
  /\ when' = when /\ now' \in Times /\ now' >= now
  /\ Aging(mem')
  /\ pc' # "followups" \/ (pc' = "followups" /\ TodoFresh')
  /\ pc' # "idle" => now' = now /\ (pc # "idle" \/ \A s \in Signals : Fresh(mem'.sent[s], now'))

LEMMA LogEntry ==
  ASSUME LogTypes, NEW k \in DOMAIN when, NEW i \in DOMAIN when[k]
  PROVE  /\ when[k] \in Seq(Entries) /\ i \in 1 .. Len(when[k])
         /\ when[k][i] \in Entries /\ when[k][i].at \in Times
         /\ when[k][i].at \in Nat /\ when[k][i].at <= now
         /\ k[1] \in Users /\ k[2] \in Signals /\ k[3] \in Parts
<1>1. when[k] \in Seq(Entries) /\ when[k][i].at <= now
  BY DEF LogTypes
<1>2. i \in 1 .. Len(when[k])
  BY <1>1
<1>3. when[k][i] \in Entries
  BY <1>1, <1>2
<1>4. k \in Users \X Signals \X Parts
  BY DEF LogTypes
<1> QED BY <1>1, <1>2, <1>3, <1>4 DEF Times, Entries

LEMMA QuietLog ==
  ASSUME TypeOK, TypeOK', LogInv, Quiet
  PROVE  LogInv'
<1>1. TodoFresh'
  BY DEF Quiet, TodoFresh
<1>2. now \in Nat /\ now' \in Nat /\ now' >= now /\ SentTtl \in Nat
  BY WorkerAssumption DEF TypeOK, Times, Quiet
<1>3. LogTypes'
  <2>1. \A k \in DOMAIN when : \A i \in DOMAIN when[k] : when[k][i].at <= now /\ when[k][i].at \in Nat
    BY LogEntry DEF LogInv
  <2> QED BY <1>2, <2>1 DEF LogInv, LogTypes, Quiet, Times
<1>4. ASSUME NEW s \in Signals
      PROVE  AnnouncedAt(s)' = AnnouncedAt(s)
  <2>1. when' = when
    BY DEF Quiet
  <2> QED BY <2>1, Zenon DEF AnnouncedAt
<1>5. Spaced'
  <2>1. \A k \in DOMAIN when : k[2] \in Signals
    BY DEF LogInv, LogTypes
  <2> QED BY <1>4, <2>1 DEF LogInv, Spaced, Quiet, AnnouncedAt
<1>6. ASSUME NEW k \in DOMAIN when, NEW i \in DOMAIN when[k], when[k][i].sure
      PROVE  Covered(k, when[k][i].at)'
  <2> DEFINE t == when[k][i].at
             s == k[2]
  <2>1. t \in Nat /\ s \in Signals /\ Covered(k, t)
    BY <1>6, LogEntry DEF LogInv, MarksCover
  <2>2. /\ Aged(mem.sent[s], mem'.sent[s])
        /\ mem'.sent[s] # Never => mem'.track[s] = mem.track[s]
        /\ \A g \in Stages : Aged(mem.stages[s][g], mem'.stages[s][g])
    BY <2>1 DEF Quiet, Aging
  <2>3. /\ mem.sent[s] \in Nat \cup {Never} /\ mem'.sent[s] \in Nat \cup {Never}
        /\ \A g \in Stages : mem.stages[s][g] \in Nat \cup {Never} /\ mem'.stages[s][g] \in Nat \cup {Never}
    <3>1. mem \in States /\ mem' \in States
      BY DEF TypeOK
    <3> QED BY <2>1, <3>1 DEF States, Times
  <2>4. k[3] = "signal" => now' > t + SentTtl \/ mem'.sent[s] >= t
    BY <1>2, <2>1, <2>2, <2>3 DEF Covered, Aged, Never
  <2>5. k[3] \in Stages => now' > t + SentTtl \/ mem'.stages[s][k[3]] >= t
    BY <1>2, <2>1, <2>2, <2>3 DEF Covered, Aged, Never
  <2>6. k[3] = "range" =>
          \/ Announced(s, t)
          \/ mem'.sent[s] = Never /\ now' > t
          \/ mem'.sent[s] # Never /\ t <= mem'.sent[s] + SentTtl /\ mem'.track[s] = "noted"
    <3>1. CASE mem'.sent[s] = mem.sent[s]
      BY <1>2, <2>1, <2>2, <3>1 DEF Covered
    <3>2. CASE mem'.sent[s] # mem.sent[s]
      <4>1. mem'.sent[s] = Never /\ now > mem.sent[s] + SentTtl /\ mem.sent[s] # Never
        BY <2>2, <3>2 DEF Aged
      <4>2. mem.sent[s] \in Nat
        BY <2>3, <4>1
      <4> QED BY <1>2, <2>1, <4>1, <4>2 DEF Covered
    <3> QED BY <3>1, <3>2
  <2>7. t' = t /\ (Announced(s, t) <=> Announced(s, t)')
    BY <2>1, <1>4 DEF Quiet, Announced
  <2> HIDE DEF t, s
  <2> QED BY <2>4, <2>5, <2>6, <2>7 DEF Covered, t, s
<1>7. MarksCover'
  BY <1>6 DEF MarksCover, Quiet
<1>8. MarksFresh'
  <2>1. ASSUME pc' # "idle", NEW s \in Signals
        PROVE  Fresh(mem'.sent[s], now')
    <3>1. now' = now /\ Aged(mem.sent[s], mem'.sent[s])
      BY <2>1 DEF Quiet, Aging
    <3>2. CASE pc # "idle"
      <4>1. Fresh(mem.sent[s], now)
        BY <3>2 DEF LogInv, MarksFresh
      <4> QED BY <3>1, <4>1 DEF Aged, Fresh
    <3>3. CASE pc = "idle"
      BY <2>1, <3>1, <3>3 DEF Quiet, Fresh
    <3> QED BY <3>2, <3>3
  <2> QED BY <2>1 DEF MarksFresh, Fresh
<1> QED BY <1>1, <1>3, <1>5, <1>7, <1>8 DEF LogInv

LEMMA CrashLog ==
  ASSUME Crash \/ HealthCheckCrash \/ SendCrash
  PROVE  LogInv'
<1>1. when' = <<>> /\ pc' = "idle"
  BY DEF Crash, HealthCheckCrash, SendCrash, Restart, Abandon
<1> QED BY <1>1 DEF LogInv, LogTypes, MarksCover, MarksFresh, TodoFresh, Spaced

(***************************************************************************)
(* Which steps send nothing.                                               *)
(***************************************************************************)
LEMMA WorldQuiet ==
  ASSUME TypeOK, LogInv, Tick \/ Operator \/ (\E s \in Signals : Backend(s))
  PROVE  Quiet
<1>1. when' = when /\ mem' = mem /\ pc' = "idle" /\ now' \in {now, now + 1}
  BY DEF Tick, Operator, Backend, got
<1>2. now' \in Times
  BY WorkerAssumption DEF TypeOK, Times, Tick, Operator, Backend
<1>3. Aging(mem')
  BY <1>1, SameCases, SameAges
<1>4. now' >= now
  BY <1>1 DEF TypeOK, Times
<1> QED BY <1>1, <1>2, <1>3, <1>4 DEF Quiet

LEMMA StartCycleQuiet ==
  ASSUME TypeOK, LogInv, StartCycle
  PROVE  Quiet
<1>1. mem' = Cleaned(mem) /\ when' = when /\ now' = now /\ now \in Times
  BY DEF StartCycle, Write, got, TypeOK
<1>2. Aging(mem') /\ \A s \in Signals : Fresh(mem'.sent[s], now')
  BY <1>1, CleanedAges
<1>3. pc' # "followups"
  BY DEF StartCycle
<1>4. now' >= now
  BY <1>1 DEF Times
<1> QED BY <1>1, <1>2, <1>3, <1>4 DEF Quiet

LEMMA UpdatesQuiet ==
  ASSUME TypeOK, LogInv, HandleUpdates
  PROVE  Quiet
<1>1. /\ when' = when /\ now' = now /\ now \in Times /\ now' >= now
      /\ pc = "updates" /\ pc' # "followups"
  BY DEF HandleUpdates, HandleStart, HandleHelp, HandleDeadPress, PostAction, SettlePress,
         CommitUpdates, Handling, Reply, Abandon, got, TypeOK, Times
<1>2. Aging(mem')
  <2>1. CASE HandleStart
    <3>1. \E r : mem' = [mem EXCEPT !.reg = r]
      BY <2>1 DEF HandleStart, Write
    <3> QED BY <3>1, SameCases, SameAges
  <2>2. CASE HandleHelp \/ PostAction
    BY <2>2, SameCases, SameAges DEF HandleHelp, PostAction
  <2>3. CASE HandleDeadPress
    BY <2>3, SameCases, SameAges DEF HandleDeadPress, Write
  <2>4. CASE SettlePress
    BY <2>4, SameCases, SameAges DEF SettlePress, Write, AfterPost
  <2>5. CASE CommitUpdates
    BY <2>5, SameCases, SameAges DEF CommitUpdates, Write
  <2> QED BY <2>1, <2>2, <2>3, <2>4, <2>5 DEF HandleUpdates
<1> QED BY <1>1, <1>2 DEF Quiet

LEMMA FollowUpsDisjoint ==
  ASSUME NEW s \in Signals, NEW f \in FollowUps(s), NEW g \in FollowUps(s), f # g
  PROVE  f \cap g = {}
  BY DEF FollowUps

LEMMA FreshTodo ==
  ASSUME TypeOK, todo' = FollowUpMessages, mem' = mem
  PROVE  TodoFresh'
<1>1. ASSUME NEW m \in FollowUpMessages
      PROVE  m.sig \in Signals /\ m.parts \in FollowUps(m.sig) /\ m = [sig |-> m.sig, parts |-> m.parts]
  BY DEF FollowUpMessages
<1>2. ASSUME NEW m \in FollowUpMessages
      PROVE  m.parts \subseteq Stages /\ \A g \in m.parts : mem.stages[m.sig][g] = Never
  <2>1. m.parts \subseteq Unsent(m.sig)
    BY <1>1 DEF FollowUps
  <2>2. Unsent(m.sig) \subseteq Stages
    BY <1>1, StagesType
  <2>3. \A g \in Unsent(m.sig) : mem.stages[m.sig][g] = Never
    BY DEF Unsent
  <2> QED BY <2>1, <2>2, <2>3
<1>3. ASSUME NEW m \in FollowUpMessages, NEW n \in FollowUpMessages, m.sig = n.sig, m # n
      PROVE  m.parts \cap n.parts = {}
  BY <1>1, <1>3, FollowUpsDisjoint
<1> QED BY <1>2, <1>3 DEF TodoFresh

LEMMA BroadcastQuiet ==
  ASSUME TypeOK, LogInv, HealthCheck \/ FetchSignals \/ StartFollowUps \/ Finish
  PROVE  Quiet
<1>1. when' = when /\ now' = now /\ now \in Times /\ now' >= now /\ pc # "idle"
  BY DEF HealthCheck, FetchSignals, StartFollowUps, Finish, got, TypeOK, Times
<1>2. Aging(mem')
  <2>1. CASE HealthCheck
    <3>1. mem' = mem \/ \E h : mem' = [mem EXCEPT !.health = h]
      BY <2>1, HealthRound DEF Write
    <3> QED BY <3>1, SameCases, SameAges
  <2>2. CASE FetchSignals \/ StartFollowUps \/ Finish
    BY <2>2, SameCases, SameAges DEF FetchSignals, StartFollowUps, Finish, Write
  <2> QED BY <2>1, <2>2
<1>3. pc' # "followups" \/ (pc' = "followups" /\ TodoFresh')
  <2>1. CASE StartFollowUps
    BY <2>1, FreshTodo DEF StartFollowUps
  <2>2. CASE HealthCheck \/ FetchSignals \/ Finish
    BY <2>2 DEF HealthCheck, FetchSignals, Finish, Abandon
  <2> QED BY <2>1, <2>2
<1> QED BY <1>1, <1>2, <1>3 DEF Quiet

(***************************************************************************)
(* A message adds one entry, of this moment, for each user it reached and  *)
(* each part it has.                                                       *)
(***************************************************************************)
Keys(m, reached) == {<<u, m.sig, x>> : u \in reached, x \in m.parts}

Entry(ok) == [at |-> now, sure |-> ok # {}]

LEMMA EntryType ==
  ASSUME now \in Times, NEW ok
  PROVE  Entry(ok) \in Entries /\ Entry(ok).at = now /\ (Entry(ok).sure <=> ok # {})
<1>1. (ok # {}) \in BOOLEAN
  OBVIOUS
<1>2. Entry(ok) \in Entries
  BY <1>1 DEF Entry, Entries
<1>3. Entry(ok).at = now
  BY DEF Entry
<1>4. Entry(ok).sure <=> ok # {}
  BY Zenon DEF Entry
<1> QED BY <1>2, <1>3, <1>4

\* The i-th entry of key k after the message was there before, or is new.
Old(k, i) == k \in DOMAIN when /\ i \in DOMAIN when[k] /\ when'[k][i] = when[k][i]

New(m, reached, ok, k, i) ==
  k \in Keys(m, reached) /\ when'[k][i] = Entry(ok) /\ i = Len(when'[k])

LEMMA LogGrows ==
  ASSUME TypeOK, LogTypes, NEW m \in Messages, NEW reached \in SUBSET Users,
         NEW ok, when' = Log(m, reached, ok)
  PROVE  /\ DOMAIN when' = DOMAIN when \cup Keys(m, reached)
         /\ \A k \in DOMAIN when' :
              /\ when'[k] \in Seq(Entries)
              /\ \A i \in DOMAIN when'[k] :
                   /\ i \in 1 .. Len(when'[k])
                   /\ Old(k, i) \/ New(m, reached, ok, k, i)
         /\ \A k \in DOMAIN when : \A i \in DOMAIN when[k] : i \in DOMAIN when'[k] /\ Old(k, i)
         /\ \A k \in Keys(m, reached) : \E i \in DOMAIN when'[k] : when'[k][i] = Entry(ok)
<1> DEFINE keys == Keys(m, reached)
           before(k) == IF k \in DOMAIN when THEN when[k] ELSE <<>>
           added(k) == IF k \in keys THEN <<Entry(ok)>> ELSE <<>>
<1>1. when' = [k \in DOMAIN when \cup keys |-> before(k) \o added(k)]
  BY DEF Log, Keys, Entry
<1>2. ASSUME NEW k
      PROVE  /\ before(k) \in Seq(Entries) /\ added(k) \in Seq(Entries)
             /\ k \in keys => added(k) = <<Entry(ok)>>
             /\ k \notin keys => added(k) = <<>>
             /\ k \in DOMAIN when => before(k) = when[k]
             /\ k \notin DOMAIN when => before(k) = <<>>
  <2>1. k \in DOMAIN when => when[k] \in Seq(Entries)
    BY DEF LogTypes
  <2>2. Entry(ok) \in Entries
    BY EntryType DEF TypeOK
  <2> QED BY <2>1, <2>2
<1> HIDE DEF before, added, keys
<1>3. DOMAIN when' = DOMAIN when \cup keys
  BY <1>1
<1>4. ASSUME NEW k \in DOMAIN when'
      PROVE  when'[k] = before(k) \o added(k)
  BY <1>1, <1>4
<1>5. ASSUME NEW k \in DOMAIN when', NEW i \in DOMAIN when'[k]
      PROVE  /\ when'[k] \in Seq(Entries) /\ i \in 1 .. Len(when'[k])
             /\ Old(k, i) \/ New(m, reached, ok, k, i)
  <2>1. when'[k] = before(k) \o added(k) /\ before(k) \in Seq(Entries) /\ added(k) \in Seq(Entries)
    BY <1>2, <1>4
  <2>2. when'[k] \in Seq(Entries)
    BY <2>1
  <2>3. i \in 1 .. Len(when'[k])
    BY <2>2
  <2>4. CASE i <= Len(before(k))
    <3>1. when'[k][i] = before(k)[i] /\ i \in 1 .. Len(before(k))
      BY <2>1, <2>3, <2>4
    <3>2. k \in DOMAIN when
      BY <1>2, <3>1
    <3>3. before(k) = when[k]
      BY <1>2, <3>2
    <3>4. i \in DOMAIN when[k]
      BY <2>1, <3>1, <3>3
    <3> QED BY <2>2, <2>3, <3>1, <3>2, <3>3, <3>4 DEF Old
  <2>5. CASE i > Len(before(k))
    <3>1. Len(when'[k]) = Len(before(k)) + Len(added(k))
      BY <2>1
    <3>2. k \in keys
      BY <1>2, <2>1, <2>3, <2>5, <3>1
    <3>3. added(k) = <<Entry(ok)>>
      BY <1>2, <3>2
    <3>4. Len(added(k)) = 1 /\ added(k)[1] = Entry(ok)
      BY <3>3
    <3>5. i = Len(before(k)) + 1 /\ i = Len(when'[k])
      BY <2>1, <2>3, <2>5, <3>1, <3>4
    <3>6. when'[k][i] = Entry(ok)
      BY <2>1, <3>4, <3>5
    <3> QED BY <2>2, <2>3, <3>2, <3>5, <3>6 DEF New, keys
  <2>6. Len(before(k)) \in Nat
    BY <2>1
  <2> QED BY <2>3, <2>4, <2>5, <2>6
<1>6. ASSUME NEW k \in DOMAIN when, NEW i \in DOMAIN when[k]
      PROVE  i \in DOMAIN when'[k] /\ Old(k, i)
  <2>1. when'[k] = before(k) \o added(k) /\ before(k) \in Seq(Entries) /\ added(k) \in Seq(Entries)
    BY <1>2, <1>3, <1>4
  <2>2. before(k) = when[k]
    BY <1>2
  <2>3. i \in 1 .. Len(before(k))
    BY <2>1, <2>2
  <2>4. i \in 1 .. Len(when'[k]) /\ when'[k][i] = before(k)[i]
    BY <2>1, <2>3
  <2>5. when'[k] \in Seq(Entries)
    BY <2>1
  <2>6. i \in DOMAIN when'[k]
    BY <2>4, <2>5
  <2> QED BY <2>2, <2>4, <2>6 DEF Old
<1>7. ASSUME NEW k \in keys
      PROVE  \E i \in DOMAIN when'[k] : when'[k][i] = Entry(ok)
  <2>1. when'[k] = before(k) \o <<Entry(ok)>> /\ before(k) \in Seq(Entries)
    BY <1>2, <1>3, <1>4
  <2>2. Entry(ok) \in Entries
    BY EntryType DEF TypeOK
  <2>3. /\ Len(before(k)) + 1 \in 1 .. Len(when'[k]) /\ when'[k][Len(before(k)) + 1] = Entry(ok)
        /\ when'[k] \in Seq(Entries)
    BY <2>1, <2>2
  <2>4. Len(before(k)) + 1 \in DOMAIN when'[k]
    BY <2>3
  <2> QED BY <2>3, <2>4
<1>8. \A k \in DOMAIN when' : when'[k] \in Seq(Entries)
  BY <1>2, <1>4
<1>9. \A k \in DOMAIN when' : \A i \in DOMAIN when'[k] :
        i \in 1 .. Len(when'[k]) /\ (Old(k, i) \/ New(m, reached, ok, k, i))
  BY <1>5
<1>10. \A k \in DOMAIN when : \A i \in DOMAIN when[k] : i \in DOMAIN when'[k] /\ Old(k, i)
  BY <1>6
<1> QED BY <1>3, <1>7, <1>8, <1>9, <1>10 DEF keys

\* Why a message may go out.
DueAsSignal(m)   == m.parts = {"signal"} /\ mem.sent[m.sig] = Never
DueAsRange(m)    == m.parts = {"range"} /\ mem.sent[m.sig] # Never /\ mem.track[m.sig] = "armed"
DueAsFollowUp(m) == m.parts \subseteq Stages /\ \A g \in m.parts : mem.stages[m.sig][g] = Never

LEMMA SendKinds ==
  ASSUME TodoFresh, NEW m \in todo, StillDue(m), pc \in {"signals", "followups"}
  PROVE  DueAsSignal(m) \/ DueAsRange(m) \/ DueAsFollowUp(m)
<1>1. CASE pc = "signals"
  <2>1. \/ \E s \in {r \in Signals : CanSend(r)} : m = [sig |-> s, parts |-> {"signal"}]
        \/ \E s \in {r \in Signals : LeftCorridor(r)} : m = [sig |-> s, parts |-> {"range"}]
    BY <1>1 DEF StillDue, SignalMessages
  <2>2. CASE \E s \in {r \in Signals : CanSend(r)} : m = [sig |-> s, parts |-> {"signal"}]
    <3>1. m.parts = {"signal"} /\ CanSend(m.sig)
      BY <2>2
    <3> QED BY <3>1 DEF CanSend, DueAsSignal
  <2>3. CASE \E s \in {r \in Signals : LeftCorridor(r)} : m = [sig |-> s, parts |-> {"range"}]
    <3>1. m.parts = {"range"} /\ LeftCorridor(m.sig)
      BY <2>3
    <3> QED BY <3>1 DEF LeftCorridor, DueAsRange
  <2> QED BY <2>1, <2>2, <2>3
<1>2. CASE pc = "followups"
  BY <1>2 DEF TodoFresh, DueAsFollowUp
<1> QED BY <1>1, <1>2

\* The marks before and after the message.
Delivers(m, ok) ==
  /\ ok # {} /\ DueAsSignal(m) =>
       /\ mem'.sent = [mem.sent EXCEPT ![m.sig] = now] /\ mem'.stages = mem.stages
       /\ \A s \in Signals \ {m.sig} : mem'.track[s] = mem.track[s]
  /\ ok # {} /\ DueAsRange(m) =>
       /\ mem'.sent = mem.sent /\ mem'.stages = mem.stages
       /\ mem'.track = [mem.track EXCEPT ![m.sig] = "noted"]
  /\ ok # {} /\ DueAsFollowUp(m) =>
       /\ mem'.sent = mem.sent /\ mem'.track = mem.track
       /\ mem'.stages = [mem.stages EXCEPT ![m.sig] = Mark(mem.stages[m.sig], m)]
  /\ ok = {} => mem' = mem

LEMMA SendDelivers ==
  ASSUME TypeOK, NEW m \in Messages, NEW ok \in SUBSET Users, mem' = Sent(m, ok)
  PROVE  Delivers(m, ok)
<1>1. ASSUME m.parts \subseteq Stages
      PROVE  m.parts # {"signal"} /\ m.parts # {"range"}
  BY <1>1 DEF Stages
<1> QED BY <1>1, SentMarks DEF Delivers, DueAsSignal, DueAsRange, DueAsFollowUp

LEMMA MarkedStages ==
  ASSUME TypeOK, NEW m \in Messages, NEW s \in Signals, NEW g \in Stages,
         mem'.stages = [mem.stages EXCEPT ![m.sig] = Mark(mem.stages[m.sig], m)]
  PROVE  /\ mem'.stages[s][g] \in {mem.stages[s][g], now}
         /\ s # m.sig \/ g \notin m.parts => mem'.stages[s][g] = mem.stages[s][g]
         /\ s = m.sig /\ g \in m.parts => mem'.stages[s][g] = now
<1>1. m.sig \in Signals /\ mem.stages \in [Signals -> [Stages -> Times \cup {Never}]]
  BY DEF Messages, TypeOK, States
<1>2. CASE s # m.sig
  BY <1>1, <1>2
<1>3. CASE s = m.sig
  <2>1. mem'.stages[s] = Mark(mem.stages[s], m)
    BY <1>1, <1>3
  <2> QED BY <1>3, <2>1 DEF Mark
<1> QED BY <1>2, <1>3

LEMMA AnnouncedGrows ==
  ASSUME TypeOK, LogTypes, NEW m \in Messages, NEW reached \in SUBSET Users,
         NEW ok \in SUBSET reached, when' = Log(m, reached, ok), NEW s
  PROVE  /\ AnnouncedAt(s) \subseteq AnnouncedAt(s)'
         /\ ok # {} /\ m.parts = {"signal"} /\ s = m.sig => now \in AnnouncedAt(s)'
<1>1. ASSUME NEW at \in AnnouncedAt(s)
      PROVE  at \in AnnouncedAt(s)'
  <2>1. at \in Times /\ \E k \in DOMAIN when : \E i \in DOMAIN when[k] :
          k[2] = s /\ k[3] = "signal" /\ when[k][i].sure /\ when[k][i].at = at
    BY DEF AnnouncedAt
  <2>5. PICK k \in DOMAIN when : \E i \in DOMAIN when[k] :
          k[2] = s /\ k[3] = "signal" /\ when[k][i].sure /\ when[k][i].at = at
    BY <2>1
  <2>2. PICK i \in DOMAIN when[k] :
          k[2] = s /\ k[3] = "signal" /\ when[k][i].sure /\ when[k][i].at = at
    BY <2>5
  <2>3. k \in DOMAIN when' /\ i \in DOMAIN when'[k] /\ when'[k][i] = when[k][i]
    BY <2>2, LogGrows DEF Old
  <2>4. when'[k][i].sure /\ when'[k][i].at = at
    BY <2>2, <2>3
  <2> QED BY <2>1, <2>2, <2>3, <2>4 DEF AnnouncedAt
<1>2. ASSUME ok # {}, m.parts = {"signal"}, s = m.sig
      PROVE  now \in AnnouncedAt(s)'
  <2>1. PICK u \in ok : TRUE
    BY <1>2
  <2> DEFINE k == <<u, m.sig, "signal">>
  <2>2. k \in Keys(m, reached)
    BY <1>2, <2>1 DEF Keys
  <2>3. k \in DOMAIN when' /\ \E i \in DOMAIN when'[k] : when'[k][i] = Entry(ok)
    BY <2>2, LogGrows
  <2>4. k[2] = s /\ k[3] = "signal"
    BY <1>2
  <2> HIDE DEF k
  <2>5. PICK i \in DOMAIN when'[k] : when'[k][i] = Entry(ok)
    BY <2>3
  <2>6. when'[k][i].sure /\ when'[k][i].at = now /\ now \in Times
    BY <1>2, <2>5, EntryType DEF TypeOK
  <2> QED BY <2>3, <2>4, <2>5, <2>6 DEF AnnouncedAt
<1> QED BY <1>1, <1>2

\* An entry that was covered still is.
LEMMA OldCovered ==
  ASSUME TypeOK, LogTypes, NEW m \in Messages, NEW reached \in SUBSET Users,
         NEW ok \in SUBSET reached, when' = Log(m, reached, ok),
         now' = now, Delivers(m, ok),
         DueAsSignal(m) \/ DueAsRange(m) \/ DueAsFollowUp(m),
         NEW k, k[2] \in Signals, NEW t \in Nat, t <= now, Covered(k, t)
  PROVE  Covered(k, t)'
<1> DEFINE s == k[2]
<1>1. /\ now \in Nat /\ SentTtl \in Nat /\ m.sig \in Signals
      /\ mem.sent \in [Signals -> Times \cup {Never}]
      /\ mem.track \in [Signals -> {"off", "armed", "noted"}]
      /\ \A g \in Stages : mem.stages[s][g] \in Nat \cup {Never}
      /\ mem.sent[s] \in Nat \cup {Never}
  <2>1. mem \in States /\ now \in Times
    BY DEF TypeOK
  <2> QED BY <2>1, WorkerAssumption DEF States, Times, Messages
<1>2. Announced(s, t) => Announced(s, t)'
  BY AnnouncedGrows DEF Announced
<1>3. k[3] = "signal" => now > t + SentTtl \/ mem'.sent[s] >= t
  <2>1. mem'.sent[s] \in {mem.sent[s], now}
    BY <1>1 DEF Delivers
  <2> QED BY <1>1, <2>1 DEF Covered
<1>4. k[3] \in Stages => now > t + SentTtl \/ mem'.stages[s][k[3]] >= t
  <2>1. ASSUME NEW g \in Stages PROVE mem'.stages[s][g] \in {mem.stages[s][g], now}
    <3>1. CASE mem'.stages = mem.stages
      BY <3>1
    <3>2. CASE mem'.stages = [mem.stages EXCEPT ![m.sig] = Mark(mem.stages[m.sig], m)]
      BY <3>2, MarkedStages
    <3> QED BY <3>1, <3>2 DEF Delivers
  <2> QED BY <1>1, <2>1 DEF Covered
<1>5. ASSUME k[3] = "range"
      PROVE  \/ Announced(s, t)'
             \/ mem'.sent[s] = Never /\ now > t
             \/ mem'.sent[s] # Never /\ t <= mem'.sent[s] + SentTtl /\ mem'.track[s] = "noted"
  <2>1. CASE Announced(s, t)
    BY <1>2, <2>1
  <2>2. CASE ~Announced(s, t) /\ mem.sent[s] = Never
    <3>1. now > t
      BY <1>5, <2>2 DEF Covered
    <3>2. CASE ok # {} /\ DueAsSignal(m) /\ s = m.sig
      BY <3>1, <3>2, AnnouncedGrows DEF Announced, DueAsSignal
    <3>3. CASE ~(ok # {} /\ DueAsSignal(m) /\ s = m.sig)
      <4>1. mem'.sent[s] = mem.sent[s]
        BY <1>1, <3>3 DEF Delivers
      <4> QED BY <2>2, <3>1, <4>1
    <3> QED BY <3>2, <3>3
  <2>3. CASE ~Announced(s, t) /\ mem.sent[s] # Never
    <3>1. t <= mem.sent[s] + SentTtl /\ mem.track[s] = "noted"
      BY <1>5, <2>3 DEF Covered
    <3>2. mem'.sent[s] = mem.sent[s] /\ mem'.track[s] = "noted"
      <4>1. CASE DueAsSignal(m)
        BY <1>1, <2>3, <3>1, <4>1 DEF Delivers, DueAsSignal
      <4>2. CASE DueAsRange(m)
        BY <1>1, <3>1, <4>2 DEF Delivers
      <4>3. CASE DueAsFollowUp(m)
        BY <3>1, <4>3 DEF Delivers
      <4> QED BY <4>1, <4>2, <4>3
    <3> QED BY <2>3, <3>1, <3>2
  <2> QED BY <2>1, <2>2, <2>3
<1> HIDE DEF s
<1> QED BY <1>3, <1>4, <1>5 DEF Covered, s

\* A new entry is covered by the mark the message leaves.
LEMMA NewCovered ==
  ASSUME TypeOK, LogInv, pc # "idle", NEW m \in Messages, NEW reached, NEW ok, ok # {},
         now' = now, Delivers(m, ok),
         DueAsSignal(m) \/ DueAsRange(m) \/ DueAsFollowUp(m),
         NEW k \in Keys(m, reached)
  PROVE  Covered(k, now)'
<1> DEFINE s == m.sig
<1>1. /\ now \in Nat /\ SentTtl \in Nat /\ s \in Signals
      /\ mem.sent \in [Signals -> Times \cup {Never}]
      /\ mem.track \in [Signals -> {"off", "armed", "noted"}]
      /\ mem.sent[s] \in Nat \cup {Never}
  BY WorkerAssumption DEF TypeOK, States, Times, Messages
<1>2. k[2] = s /\ k[3] \in m.parts
  BY DEF Keys
<1>3. CASE DueAsSignal(m)
  <2>1. k[3] = "signal" /\ mem'.sent[s] = now
    BY <1>1, <1>2, <1>3 DEF Delivers, DueAsSignal
  <2> QED BY <1>1, <1>2, <2>1 DEF Covered, Stages
<1>4. CASE DueAsRange(m)
  <2>1. k[3] = "range" /\ mem'.sent[s] = mem.sent[s] /\ mem.sent[s] # Never /\ mem'.track[s] = "noted"
    BY <1>1, <1>2, <1>4 DEF Delivers, DueAsRange
  <2>2. now <= mem.sent[s] + SentTtl
    BY <1>1, <2>1 DEF LogInv, MarksFresh, Fresh
  <2> QED BY <1>1, <1>2, <2>1, <2>2 DEF Covered, Stages
<1>5. CASE DueAsFollowUp(m)
  <2>1. k[3] \in Stages
    BY <1>2, <1>5 DEF DueAsFollowUp
  <2>2. mem'.stages[s][k[3]] = now
    BY <1>1, <1>2, <1>5, <2>1, MarkedStages DEF Delivers
  <2> QED BY <1>1, <1>2, <2>1, <2>2 DEF Covered, Stages
<1> QED BY <1>3, <1>4, <1>5

\* A new entry lies the retention time after the earlier ones of its key, or
\* after an announcement that came after them.
LEMMA NewSpaced ==
  ASSUME TypeOK, LogTypes, NEW m \in Messages, NEW reached \in SUBSET Users,
         NEW ok \in SUBSET reached, when' = Log(m, reached, ok),
         DueAsSignal(m) \/ DueAsRange(m) \/ DueAsFollowUp(m),
         NEW k \in Keys(m, reached), NEW t \in Nat, Covered(k, t)
  PROVE  IF k[3] = "range" THEN \E at \in AnnouncedAt(k[2])' : t < at /\ at <= now
         ELSE now > t + SentTtl
<1> DEFINE s == m.sig
<1>1. /\ now \in Nat /\ SentTtl \in Nat /\ s \in Signals
  BY WorkerAssumption DEF TypeOK, States, Times, Messages
<1>2. k[2] = s /\ k[3] \in m.parts
  BY DEF Keys
<1>3. CASE DueAsSignal(m)
  BY <1>1, <1>2, <1>3 DEF DueAsSignal, Covered, Never
<1>4. CASE DueAsRange(m)
  <2>1. k[3] = "range" /\ Announced(s, t)
    BY <1>2, <1>4 DEF DueAsRange, Covered
  <2>2. PICK at \in AnnouncedAt(s) : t < at
    BY <2>1 DEF Announced
  <2>3. \E l \in DOMAIN when : \E i \in DOMAIN when[l] : at = when[l][i].at
    BY <2>2 DEF AnnouncedAt
  <2>5. at <= now
    BY <2>3 DEF LogTypes
  <2>6. at \in AnnouncedAt(s)'
    BY <2>2, AnnouncedGrows
  <2> QED BY <1>2, <2>1, <2>2, <2>5, <2>6
<1>5. CASE DueAsFollowUp(m)
  <2>1. k[3] \in Stages /\ mem.stages[s][k[3]] = Never
    BY <1>2, <1>5 DEF DueAsFollowUp
  <2>2. k[3] # "range"
    BY <2>1 DEF Stages
  <2> QED BY <1>1, <1>2, <2>1, <2>2 DEF Covered, Never
<1> QED BY <1>3, <1>4, <1>5

LEMMA SendLog ==
  ASSUME TypeOK, LogInv, Send
  PROVE  LogInv'
<1>1. PICK m \in todo, reached \in SUBSET Targets, ok \in SUBSET Targets :
        /\ ok \subseteq reached
        /\ StillDue(m) /\ Keep(Sent(m, ok)) /\ when' = Log(m, reached, ok) /\ todo' = todo \ {m}
  BY SendRound
<1>2. /\ m \in Messages /\ ok \in SUBSET Users /\ reached \in SUBSET Users
      /\ ok \in SUBSET reached
      /\ now' = now /\ pc' = pc /\ pc \in {"signals", "followups"}
  BY <1>1, TargetsType DEF TypeOK, Send
<1>3. Delivers(m, ok)
  BY <1>1, <1>2, SendDelivers DEF Keep
<1>4. LogTypes /\ TodoFresh
  BY DEF LogInv
<1>5. DueAsSignal(m) \/ DueAsRange(m) \/ DueAsFollowUp(m)
  BY <1>1, <1>2, <1>4, SendKinds
<1>6. /\ DOMAIN when' = DOMAIN when \cup Keys(m, reached)
      /\ \A k \in DOMAIN when' :
           /\ when'[k] \in Seq(Entries)
           /\ \A i \in DOMAIN when'[k] :
                /\ i \in 1 .. Len(when'[k])
                /\ Old(k, i) \/ New(m, reached, ok, k, i)
  BY <1>1, <1>2, <1>4, LogGrows
<1>7. /\ now \in Nat /\ SentTtl \in Nat /\ m.sig \in Signals
      /\ mem.sent \in [Signals -> Times \cup {Never}]
      /\ now \in Times
  BY <1>2, WorkerAssumption DEF TypeOK, States, Times, Messages
<1>8. ASSUME NEW k \in DOMAIN when', NEW i \in DOMAIN when'[k], Old(k, i)
      PROVE  /\ k[2] \in Signals /\ when'[k][i].at \in Nat /\ when'[k][i].at <= now
             /\ when'[k][i].sure => Covered(k, when'[k][i].at)
  BY <1>4, <1>8, LogEntry DEF Old, LogInv, MarksCover
<1>9. \A k \in Keys(m, reached) : k \in Users \X Signals \X Parts
  BY <1>2, <1>7 DEF Keys, Messages
<1>10. LogTypes'
  <2>1. DOMAIN when' \subseteq Users \X Signals \X Parts
    BY <1>4, <1>6, <1>9 DEF LogTypes
  <2>2. ASSUME NEW k \in DOMAIN when', NEW i \in DOMAIN when'[k]
        PROVE  when'[k][i].at <= now'
    <3>1. CASE Old(k, i)
      BY <1>2, <1>8, <3>1
    <3>2. CASE New(m, reached, ok, k, i)
      BY <1>2, <1>7, <3>2, EntryType DEF New
    <3> QED BY <1>6, <3>1, <3>2
  <2>3. \A k \in DOMAIN when' : when'[k] \in Seq(Entries)
    BY <1>6
  <2> QED BY <2>1, <2>2, <2>3 DEF LogTypes, Times
<1>11. MarksCover'
  <2>1. ASSUME NEW k \in DOMAIN when', NEW i \in DOMAIN when'[k], when'[k][i].sure
        PROVE  Covered(k, when[k][i].at)'
    <3>1. PICK t : t = when'[k][i].at
      OBVIOUS
    <3>2. CASE Old(k, i)
      <4>1. k[2] \in Signals /\ t \in Nat /\ t <= now /\ Covered(k, t)
        BY <1>8, <2>1, <3>1, <3>2
      <4>2. Covered(k, t)'
        BY <1>1, <1>2, <1>3, <1>4, <1>5, <4>1, OldCovered
      <4> QED BY <3>1, <4>2 DEF Covered
    <3>3. CASE New(m, reached, ok, k, i)
      <4>1. when'[k][i] = Entry(ok) /\ k \in Keys(m, reached)
        BY <3>3 DEF New
      <4>2. when'[k][i].at = now' /\ ok # {}
        BY <1>2, <1>7, <2>1, <4>1, EntryType
      <4>3. Covered(k, now)'
        BY <1>2, <1>3, <1>5, <4>1, <4>2, NewCovered
      <4> QED BY <4>2, <4>3 DEF Covered
    <3> QED BY <1>6, <3>2, <3>3
  <2> QED BY <2>1 DEF MarksCover
<1>12. MarksFresh'
  <2>1. ASSUME NEW s \in Signals PROVE Fresh(mem'.sent[s], now)
    <3>1. mem'.sent[s] \in {mem.sent[s], now}
      BY <1>3, <1>5, <1>7 DEF Delivers
    <3>2. Fresh(mem.sent[s], now)
      BY <1>2 DEF LogInv, MarksFresh
    <3> QED BY <1>7, <3>1, <3>2 DEF Fresh
  <2> QED BY <1>2, <2>1 DEF MarksFresh
<1>13. TodoFresh'
  <2>1. SUFFICES ASSUME pc = "followups" PROVE TodoFresh'
    BY <1>2 DEF TodoFresh
  <2>2. /\ \A n \in todo : n.parts \subseteq Stages /\ \A g \in n.parts : mem.stages[n.sig][g] = Never
        /\ \A l, n \in todo : l.sig = n.sig /\ l # n => l.parts \cap n.parts = {}
    BY <2>1, <1>4 DEF TodoFresh
  <2>3. ASSUME NEW n \in todo, n # m, NEW g \in n.parts
        PROVE  mem'.stages[n.sig][g] = Never
    <3>1. mem.stages[n.sig][g] = Never /\ g \in Stages /\ n.sig \in Signals
      BY <2>2 DEF TypeOK, Messages
    <3>2. CASE mem'.stages = mem.stages
      BY <3>1, <3>2
    <3>3. CASE mem'.stages = [mem.stages EXCEPT ![m.sig] = Mark(mem.stages[m.sig], m)]
      <4>1. n.sig # m.sig \/ g \notin m.parts
        BY <2>2, <2>3
      <4> QED BY <1>2, <3>1, <3>3, <4>1, MarkedStages
    <3> QED BY <1>3, <1>5, <3>2, <3>3 DEF Delivers
  <2> QED BY <1>1, <2>2, <2>3 DEF TodoFresh
<1>14. Spaced'
  <2>1. ASSUME NEW k \in DOMAIN when', NEW i \in DOMAIN when'[k], NEW j \in DOMAIN when'[k],
               i < j, when'[k][i].sure
        PROVE  IF k[3] = "range"
               THEN \E at \in AnnouncedAt(k[2])' : when'[k][i].at < at /\ at <= when'[k][j].at
               ELSE when'[k][j].at > when'[k][i].at + SentTtl
    <3>1. Old(k, i)
      BY <1>6, <2>1 DEF New
    <3>2. PICK t : t = when'[k][i].at
      OBVIOUS
    <3>3. CASE Old(k, j)
      <4>1. /\ k \in DOMAIN when /\ i \in DOMAIN when[k] /\ j \in DOMAIN when[k]
            /\ when'[k][i] = when[k][i] /\ when'[k][j] = when[k][j]
        BY <3>1, <3>3 DEF Old
      <4>2. IF k[3] = "range"
            THEN \E at \in AnnouncedAt(k[2]) : when[k][i].at < at /\ at <= when[k][j].at
            ELSE when[k][j].at > when[k][i].at + SentTtl
        BY <2>1, <4>1 DEF LogInv, Spaced
      <4>3. AnnouncedAt(k[2]) \subseteq AnnouncedAt(k[2])'
        BY <1>1, <1>2, <1>4, AnnouncedGrows
      <4> QED BY <4>1, <4>2, <4>3
    <3>4. CASE New(m, reached, ok, k, j)
      <4>1. k \in Keys(m, reached) /\ when'[k][j].at = now
        BY <1>7, <3>4, EntryType DEF New
      <4>2. t \in Nat /\ Covered(k, t)
        BY <1>8, <2>1, <3>1, <3>2
      <4>3. IF k[3] = "range" THEN \E at \in AnnouncedAt(k[2])' : t < at /\ at <= now
            ELSE now > t + SentTtl
        BY <1>1, <1>2, <1>4, <1>5, <4>1, <4>2, NewSpaced
      <4> QED BY <3>2, <4>1, <4>3
    <3> QED BY <1>6, <3>3, <3>4
  <2> QED BY <2>1 DEF Spaced, AnnouncedAt
<1> QED BY <1>10, <1>11, <1>12, <1>13, <1>14 DEF LogInv

LEMMA LogInit == Init => LogInv
  BY DEF Init, LogInv, LogTypes, MarksCover, MarksFresh, TodoFresh, Spaced

LEMMA LogStep ==
  ASSUME TypeOK, TypeOK', LogInv, Next
  PROVE  LogInv'
<1>1. CASE Tick \/ Operator \/ (\E s \in Signals : Backend(s))
  BY <1>1, WorldQuiet, QuietLog
<1>2. CASE Worker
  BY <1>2, StartCycleQuiet, UpdatesQuiet, BroadcastQuiet, QuietLog, SendLog DEF Worker
<1>3. CASE Crash \/ HealthCheckCrash \/ SendCrash
  BY <1>3, CrashLog
<1> QED BY <1>1, <1>2, <1>3 DEF Next

LEMMA LogStutter ==
  ASSUME TypeOK, LogInv, UNCHANGED vars
  PROVE  LogInv'
<1>1. when' = when /\ mem' = mem /\ now' = now /\ pc' = pc /\ todo' = todo
  BY DEF vars, work, got
<1> QED BY <1>1 DEF LogInv, LogTypes, MarksCover, MarksFresh, TodoFresh, Spaced, Covered,
                    Announced, AnnouncedAt

(***************************************************************************)
(* Health-checks: memory and file never know of a later day, and a chat    *)
(* has heard one per fault, and one more only if it is marked or the day   *)
(* is over.                                                                *)
(***************************************************************************)
BeatsFit ==
  /\ heard \in [Chats -> [Days -> Nat]]
  /\ \A c \in Chats :
       /\ mem.health[c] <= LocalDay /\ disk.health[c] <= LocalDay
       /\ \A d \in Days :
            /\ heard[c][d] <= faults + 1
            /\ heard[c][d] = faults + 1 => mem.health[c] = d \/ d < LocalDay

LEMMA DayTypes ==
  ASSUME TypeOK
  PROVE  /\ Today \in Days /\ Today \in Nat /\ LocalDay \in Days /\ LocalDay \in Nat
         /\ Days \subseteq Nat /\ faults \in Nat /\ life \in Nat /\ Never \notin Nat
<1>1. Today \in Days /\ LocalDay \in Days
  BY TodayType DEF TypeOK
<1>2. Days \subseteq Nat /\ Never \notin Nat
  BY DEF Days, Never
<1>3. faults \in Nat /\ life \in Nat
  BY DEF TypeOK
<1> QED BY <1>1, <1>2, <1>3

LEMMA DaysGrow ==
  ASSUME TypeOK, now' \in Times, now' >= now
  PROVE  Today' >= Today /\ Today' \in Nat /\ LocalDay' >= LocalDay /\ LocalDay' \in Nat
<1>1. /\ now \in Nat /\ now' \in Nat /\ now <= now' /\ DayLen \in Nat \ {0}
      /\ now + Zone \in Nat /\ now' + Zone \in Nat /\ now + Zone <= now' + Zone
  BY WorkerAssumption DEF TypeOK, Times
<1>2. \A a, b \in Nat, d \in Nat \ {0} :
        a <= b => a \div d <= b \div d /\ a \div d \in Nat /\ b \div d \in Nat
  <2>1. ASSUME NEW a \in Nat, NEW b \in Nat, NEW d \in Nat \ {0}, a <= b
        PROVE  a \div d <= b \div d /\ a \div d \in Nat /\ b \div d \in Nat
    <3>1. a \div d \in Nat /\ b \div d \in Nat
      OBVIOUS
    <3>2. a \div d \in 0 .. b \div d
      BY <2>1, QuotientMonotonic
    <3> QED BY <3>1, <3>2
  <2> QED BY <2>1
<1> QED BY <1>1, <1>2 DEF Today, LocalDay

\* Steps that check no health.
LEMMA SilentBeats ==
  ASSUME TypeOK, TypeOK', BeatsFit, UNCHANGED heard, now' >= now, faults' \in {faults, faults + 1},
         mem'.health = mem.health, disk'.health \in {mem.health, disk.health}
  PROVE  BeatsFit'
<1>1. /\ LocalDay \in Nat /\ LocalDay' \in Nat /\ LocalDay' >= LocalDay /\ Days \subseteq Nat
      /\ faults \in Nat
  BY DayTypes, DaysGrow DEF TypeOK
<1>2. ASSUME NEW c \in Chats
      PROVE  mem.health[c] \in Nat \cup {Never} /\ disk.health[c] \in Nat \cup {Never}
  BY <1>1 DEF TypeOK, States
<1>3. \A c \in Chats : mem'.health[c] <= LocalDay' /\ disk'.health[c] <= LocalDay'
  BY <1>1, <1>2 DEF BeatsFit, Never
<1>4. ASSUME NEW c \in Chats, NEW d \in Days
      PROVE  /\ heard'[c][d] <= faults' + 1
             /\ heard'[c][d] = faults' + 1 => mem'.health[c] = d \/ d < LocalDay'
  <2>1. /\ heard[c][d] \in Nat /\ heard[c][d] <= faults + 1
        /\ heard[c][d] = faults + 1 => mem.health[c] = d \/ d < LocalDay
    BY DEF BeatsFit
  <2> QED BY <1>1, <2>1
<1>5. heard' \in [Chats -> [Days -> Nat]]
  BY DEF BeatsFit
<1> QED BY <1>3, <1>4, <1>5 DEF BeatsFit

LEMMA BeatsHeard ==
  ASSUME TypeOK, BeatsFit, NEW reached \in SUBSET DueUsers, heard' = Beats(reached)
  PROVE  /\ heard' \in [Chats -> [Days -> Nat]]
         /\ \A c \in Chats, d \in Days :
              heard'[c][d] = IF c \in ChatsOf(reached) /\ d = LocalDay
                             THEN heard[c][d] + 1 ELSE heard[c][d]
         /\ \A c \in ChatsOf(reached) : c \in Chats /\ mem.health[c] # LocalDay
<1>1. LocalDay \in Days
  BY DayTypes
<1>2. heard' \in [Chats -> [Days -> Nat]]
  BY <1>1 DEF Beats, BeatsFit
<1>3. \A c \in ChatsOf(reached) : c \in Chats /\ mem.health[c] # LocalDay
  BY DEF ChatsOf, DueUsers, Targets, TypeOK, States
<1>4. ASSUME NEW c \in Chats, NEW d \in Days
      PROVE  heard'[c][d] = IF c \in ChatsOf(reached) /\ d = LocalDay
                            THEN heard[c][d] + 1 ELSE heard[c][d]
  BY <1>1 DEF Beats, BeatsFit
<1> QED BY <1>2, <1>3, <1>4

LEMMA CheckBeats ==
  ASSUME TypeOK, TypeOK', BeatsFit, HealthCheck
  PROVE  BeatsFit'
<1>1. PICK reached \in SUBSET DueUsers, ok \in SUBSET DueUsers :
        /\ ok \subseteq reached /\ Outcome(DueUsers, ok)
        /\ heard' = Beats(reached)
        /\ IF ok = {} THEN UNCHANGED <<mem, disk>>
           ELSE Write([mem EXCEPT !.health = MarkHealth(ok)])
  BY HealthRound
<1>2. now' = now /\ LocalDay' = LocalDay
  BY DEF HealthCheck, LocalDay
<1>3. mem'.health = MarkHealth(ok) /\ disk'.health \in {MarkHealth(ok), disk.health}
  <2>1. ok = {} => MarkHealth(ok) = mem.health
    BY DEF MarkHealth, ChatsOf, TypeOK, States
  <2>2. [mem EXCEPT !.health = MarkHealth(ok)].health = MarkHealth(ok)
    BY DEF TypeOK, States
  <2> QED BY <1>1, <2>1, <2>2 DEF Write
<1>4. \A c \in Chats : mem'.health[c] = IF c \in ChatsOf(ok) THEN LocalDay ELSE mem.health[c]
  BY <1>3 DEF MarkHealth
<1>5. LocalDay \in Nat /\ Days \subseteq Nat /\ faults \in Nat /\ Never \notin Nat
  BY DayTypes
<1>6. /\ heard' \in [Chats -> [Days -> Nat]]
      /\ \A c \in Chats, d \in Days :
           heard'[c][d] = IF c \in ChatsOf(reached) /\ d = LocalDay
                          THEN heard[c][d] + 1 ELSE heard[c][d]
      /\ \A c \in ChatsOf(reached) : c \in Chats /\ mem.health[c] # LocalDay
  BY <1>1, BeatsHeard
<1>7. \/ faults' = faults /\ ChatsOf(ok) = ChatsOf(reached)
      \/ faults' = faults + 1
  BY <1>1 DEF Outcome, Fault
<1>8. ASSUME NEW c \in Chats
      PROVE  /\ mem'.health[c] <= LocalDay /\ disk'.health[c] <= LocalDay
             /\ \A d \in Days :
                  /\ heard'[c][d] <= faults' + 1
                  /\ heard'[c][d] = faults' + 1 => mem'.health[c] = d \/ d < LocalDay
  <2>1. mem'.health[c] <= LocalDay /\ disk'.health[c] <= LocalDay
    BY <1>3, <1>4, <1>5 DEF BeatsFit, MarkHealth
  <2>2. mem.health[c] <= LocalDay /\ mem.health[c] \in Nat \cup {Never} /\ Never = -1
    BY <1>5 DEF BeatsFit, TypeOK, States, Never
  <2>3. ASSUME NEW d \in Days
        PROVE  /\ heard'[c][d] <= faults' + 1
               /\ heard'[c][d] = faults' + 1 => mem'.health[c] = d \/ d < LocalDay
    <3>1. /\ heard[c][d] \in Nat /\ heard[c][d] <= faults + 1
          /\ heard[c][d] = faults + 1 => mem.health[c] = d \/ d < LocalDay
      BY DEF BeatsFit
    <3>2. heard'[c][d] = IF c \in ChatsOf(reached) /\ d = LocalDay
                         THEN heard[c][d] + 1 ELSE heard[c][d]
      BY <1>6
    <3>3. c \in ChatsOf(reached) => mem.health[c] # LocalDay
      BY <1>6
    <3>4. d \in Nat
      BY <1>5
    <3>5. CASE faults' = faults + 1
      BY <1>5, <3>1, <3>2, <3>3, <3>4, <3>5
    <3>6. CASE faults' = faults /\ ChatsOf(ok) = ChatsOf(reached) /\ c \in ChatsOf(reached)
      BY <1>4, <1>5, <2>2, <3>1, <3>2, <3>3, <3>4, <3>6
    <3>7. CASE faults' = faults /\ ChatsOf(ok) = ChatsOf(reached) /\ c \notin ChatsOf(reached)
      BY <1>4, <3>1, <3>2, <3>7
    <3> QED BY <1>7, <3>5, <3>6, <3>7
  <2> QED BY <2>1, <2>3
<1> QED BY <1>2, <1>6, <1>8 DEF BeatsFit

LEMMA CrashBeats ==
  ASSUME TypeOK, TypeOK', BeatsFit, Crash \/ HealthCheckCrash \/ SendCrash
  PROVE  BeatsFit'
<1>1. /\ faults' = faults + 1 /\ now' = now /\ LocalDay' = LocalDay
      /\ disk' \in {disk, EmptyState} /\ mem'.health = disk'.health
  <2>1. Restart /\ now' = now
    BY DEF Crash, HealthCheckCrash, SendCrash
  <2>2. disk' \in States
    BY DEF TypeOK
  <2> QED BY <2>1, <2>2 DEF Restart, Fault, Load, LocalDay, States
<1>2. LocalDay \in Nat /\ Days \subseteq Nat /\ faults \in Nat /\ Never = -1
  BY DayTypes DEF Never
<1>3. /\ heard' \in [Chats -> [Days -> Nat]]
      /\ \A c \in Chats, d \in Days : heard'[c][d] <= faults + 1
  <2>1. CASE Crash \/ SendCrash
    BY <2>1 DEF Crash, SendCrash, BeatsFit
  <2>2. CASE HealthCheckCrash
    <3>1. PICK reached \in SUBSET DueUsers : heard' = Beats(reached)
      BY <2>2 DEF HealthCheckCrash
    <3>2. ASSUME NEW c \in Chats, NEW d \in Days
          PROVE  heard'[c][d] <= faults + 1
      <4>1. /\ heard[c][d] \in Nat /\ heard[c][d] <= faults + 1
            /\ heard[c][d] = faults + 1 => mem.health[c] = d \/ d < LocalDay
        BY DEF BeatsFit
      <4>2. /\ heard'[c][d] = IF c \in ChatsOf(reached) /\ d = LocalDay
                              THEN heard[c][d] + 1 ELSE heard[c][d]
            /\ c \in ChatsOf(reached) => mem.health[c] # LocalDay
        BY <3>1, BeatsHeard
      <4> QED BY <1>2, <4>1, <4>2
    <3> QED BY <3>1, <3>2, BeatsHeard
  <2> QED BY <2>1, <2>2
<1>4. \A c \in Chats : disk'.health[c] <= LocalDay
  <2>1. \A c \in Chats : EmptyState.health[c] = Never
    BY DEF EmptyState
  <2> QED BY <1>1, <1>2, <2>1 DEF BeatsFit
<1>5. ASSUME NEW c \in Chats, NEW d \in Days
      PROVE  heard'[c][d] <= faults' + 1 /\ heard'[c][d] # faults' + 1
  <2>1. heard'[c][d] \in Nat /\ heard'[c][d] <= faults + 1
    BY <1>3
  <2> QED BY <1>1, <1>2, <2>1
<1> QED BY <1>1, <1>3, <1>4, <1>5 DEF BeatsFit

(***************************************************************************)
(* The limits: the file never knows of a later message than memory, and    *)
(* what it knows of a signal memory knows too.                             *)
(***************************************************************************)
LimitsFit ==
  /\ \A s \in Signals : disk.sent[s] # Never => mem.sent[s] = disk.sent[s]
  /\ \A p \in Pairs :
       /\ disk.cool[p] <= mem.cool[p] /\ mem.cool[p] <= now
       /\ disk.hold[p] <= mem.hold[p] /\ mem.hold[p] <= Today

LEMMA LimitTypes ==
  ASSUME TypeOK
  PROVE  /\ now \in Nat /\ Today \in Nat /\ Never = -1
         /\ \A s \in Signals : mem.sent[s] \in Nat \cup {Never} /\ disk.sent[s] \in Nat \cup {Never}
         /\ \A p \in Pairs :
              /\ mem.cool[p] \in Nat \cup {Never} /\ disk.cool[p] \in Nat \cup {Never}
              /\ mem.hold[p] \in Nat \cup {Never} /\ disk.hold[p] \in Nat \cup {Never}
<1>1. Today \in Nat /\ Days \subseteq Nat /\ Times \subseteq Nat /\ now \in Times
  BY DayTypes DEF Times, TypeOK
<1>2. mem \in States /\ disk \in States
  BY DEF TypeOK
<1> QED BY <1>1, <1>2 DEF States, Never

\* A step that writes what it has in memory, or changes neither.
Writes ==
  /\ Aging(mem') /\ now' >= now
  /\ disk' = mem' \/ UNCHANGED <<mem, disk>>

LEMMA QuietWrites ==
  ASSUME TypeOK, LogInv, Next
  PROVE  Writes \/ Send \/ Restart
<1>1. CASE Tick \/ Operator \/ (\E s \in Signals : Backend(s))
  <2>1. UNCHANGED <<mem, disk>>
    BY <1>1 DEF Tick, Operator, Backend
  <2> QED BY <1>1, <2>1, WorldQuiet DEF Quiet, Writes
<1>2. CASE StartCycle
  BY <1>2, StartCycleQuiet DEF Quiet, Writes, StartCycle, Write
<1>3. CASE HandleUpdates
  <2>1. disk' = mem' \/ UNCHANGED <<mem, disk>>
    BY <1>3 DEF HandleUpdates, HandleStart, HandleHelp, HandleDeadPress, PostAction, SettlePress,
                CommitUpdates, Write
  <2> QED BY <1>3, <2>1, UpdatesQuiet DEF Quiet, Writes
<1>4. CASE HealthCheck \/ FetchSignals \/ StartFollowUps \/ Finish
  <2>1. disk' = mem' \/ UNCHANGED <<mem, disk>>
    BY <1>4 DEF HealthCheck, FetchSignals, StartFollowUps, Finish, Write
  <2> QED BY <1>4, <2>1, BroadcastQuiet DEF Quiet, Writes
<1>5. CASE Crash \/ HealthCheckCrash \/ SendCrash
  BY <1>5 DEF Crash, HealthCheckCrash, SendCrash
<1> QED BY <1>1, <1>2, <1>3, <1>4, <1>5 DEF Next, Worker

LEMMA WritesLimits ==
  ASSUME TypeOK, TypeOK', LimitsFit, Writes
  PROVE  LimitsFit'
<1>1. Today' >= Today /\ Today' \in Nat
  BY DaysGrow DEF Writes, TypeOK
<1>2. now' \in Nat /\ now' >= now
  BY DEF Writes, TypeOK, Times
<1>3. \A p \in Pairs : mem'.cool[p] \in {mem.cool[p], Never} /\ mem'.hold[p] = mem.hold[p]
  BY DEF Writes, Aging
<1>4. ASSUME NEW p \in Pairs
      PROVE  mem'.cool[p] <= now' /\ mem'.hold[p] <= Today'
  BY <1>1, <1>2, <1>3, LimitTypes DEF LimitsFit
<1>5. CASE disk' = mem'
  <2>1. ASSUME NEW p \in Pairs
        PROVE  disk'.cool[p] <= mem'.cool[p] /\ disk'.hold[p] <= mem'.hold[p]
    BY <1>3, <1>5, LimitTypes
  <2> QED BY <1>4, <1>5, <2>1 DEF LimitsFit
<1>6. CASE UNCHANGED <<mem, disk>>
  BY <1>4, <1>6 DEF LimitsFit
<1> QED BY <1>5, <1>6 DEF Writes

LEMMA RestartLimits ==
  ASSUME TypeOK, TypeOK', LimitsFit, Restart, now' = now
  PROVE  LimitsFit'
<1>1. disk' \in States /\ mem' = Load(disk') /\ disk' \in {disk, EmptyState} /\ Today' = Today
  BY DEF Restart, TypeOK, Today
<1>2. mem'.sent = disk'.sent /\ mem'.cool = disk'.cool /\ mem'.hold = disk'.hold
  BY <1>1 DEF Load, States
<1>3. \A p \in Pairs : EmptyState.cool[p] = Never /\ EmptyState.hold[p] = Never
  BY DEF EmptyState
<1>4. ASSUME NEW p \in Pairs
      PROVE  disk'.cool[p] <= disk'.cool[p] /\ disk'.cool[p] <= now
             /\ disk'.hold[p] <= disk'.hold[p] /\ disk'.hold[p] <= Today
  BY <1>1, <1>3, LimitTypes DEF LimitsFit
<1> QED BY <1>1, <1>2, <1>4 DEF LimitsFit

LEMMA SendLimits ==
  ASSUME TypeOK, TypeOK', LogInv, LimitsFit, Send
  PROVE  LimitsFit'
<1>1. PICK m \in todo, ok \in SUBSET Targets : StillDue(m) /\ Keep(Sent(m, ok))
  BY SendRound
<1>2. m \in Messages /\ ok \in SUBSET Users /\ now' = now /\ disk' = disk /\ Today' = Today
  BY <1>1, TargetsType DEF TypeOK, Send, Keep, Today
<1>4. \A p \in Pairs : mem'.cool[p] \in {mem.cool[p], now} /\ mem'.hold[p] \in {mem.hold[p], Today}
  BY <1>1, <1>2, SentMarks DEF Keep
<1>5. ASSUME NEW p \in Pairs
      PROVE  /\ disk.cool[p] <= mem'.cool[p] /\ mem'.cool[p] <= now
             /\ disk.hold[p] <= mem'.hold[p] /\ mem'.hold[p] <= Today
  BY <1>4, LimitTypes DEF LimitsFit
<1>6. ASSUME NEW s \in Signals, disk.sent[s] # Never
      PROVE  mem'.sent[s] = disk.sent[s]
  <2>1. mem.sent[s] = disk.sent[s] /\ mem.sent[s] # Never
    BY <1>6 DEF LimitsFit
  <2>2. mem'.sent = mem.sent \/ (mem'.sent = [mem.sent EXCEPT ![m.sig] = now] /\ mem.sent[m.sig] = Never)
    <3>1. Delivers(m, ok)
      BY <1>1, <1>2, SendDelivers DEF Keep
    <3>2. DueAsSignal(m) \/ DueAsRange(m) \/ DueAsFollowUp(m)
      BY <1>1, SendKinds DEF LogInv, Send
    <3> QED BY <3>1, <3>2 DEF Delivers, DueAsSignal
  <2>3. mem.sent \in [Signals -> Times \cup {Never}]
    BY DEF TypeOK, States
  <2> QED BY <2>1, <2>2, <2>3
<1> QED BY <1>2, <1>5, <1>6 DEF LimitsFit

\* The step that sends a signal finds no limit against it in the file.
LimitsKept ==
  \A s \in Signals : SentNow(s) =>
    /\ disk.sent[s] = Never
    /\ ActionOf[s] = "enter" => Elapsed(disk.cool[PairOf[s]], Cooldown)
    /\ ActionOf[s] = "hold_open" => disk.hold[PairOf[s]] # Today

LEMMA SendKeepsLimits ==
  ASSUME TypeOK, LimitsFit, Send
  PROVE  LimitsKept
<1>1. PICK m \in todo, ok \in SUBSET Targets : StillDue(m) /\ Keep(Sent(m, ok))
  BY SendRound
<1>2. m \in Messages /\ ok \in SUBSET Users
  BY <1>1, TargetsType DEF TypeOK
<1>3. ASSUME NEW s \in Signals, SentNow(s)
      PROVE  /\ disk.sent[s] = Never
             /\ ActionOf[s] = "enter" => Elapsed(disk.cool[PairOf[s]], Cooldown)
             /\ ActionOf[s] = "hold_open" => disk.hold[PairOf[s]] # Today
  <2>1. pc = "signals" /\ mem.sent[s] # now /\ mem'.sent[s] = now
    BY <1>3 DEF SentNow
  <2>2. m.parts = {"signal"} /\ m.sig = s
    <3>1. mem.sent \in [Signals -> Times \cup {Never}] /\ mem'.sent # mem.sent
      BY <2>1 DEF TypeOK, States
    <3>2. m.parts = {"signal"} /\ mem'.sent = [mem.sent EXCEPT ![m.sig] = now]
      BY <1>1, <1>2, <3>1, SentMarks DEF Keep
    <3> QED BY <2>1, <3>1, <3>2
  <2>3. CanSend(s)
    <3>1. m \in SignalMessages
      BY <1>1, <2>1 DEF StillDue
    <3>2. \/ \E r \in {q \in Signals : CanSend(q)} : m = [sig |-> r, parts |-> {"signal"}]
          \/ \E r \in {q \in Signals : LeftCorridor(q)} : m = [sig |-> r, parts |-> {"range"}]
      BY <3>1 DEF SignalMessages
    <3>3. m.parts # {"range"}
      BY <2>2
    <3> QED BY <2>2, <3>2, <3>3
  <2>4. PairOf[s] \in Pairs /\ Cooldown \in Nat
    BY WorkerAssumption
  <2>5. disk.sent[s] = Never
    BY <2>3 DEF CanSend, LimitsFit
  <2>6. ASSUME ActionOf[s] = "enter"
        PROVE  Elapsed(disk.cool[PairOf[s]], Cooldown)
    <3>1. CanEnter(s)
      BY <2>3, <2>6 DEF CanSend
    <3>2. Elapsed(mem.cool[PairOf[s]], Cooldown)
      BY <3>1 DEF CanEnter
    <3> QED BY <2>4, <3>2, LimitTypes DEF LimitsFit, Elapsed
  <2>7. ASSUME ActionOf[s] = "hold_open"
        PROVE  disk.hold[PairOf[s]] # Today
    <3>1. CanHold(s)
      BY <2>3, <2>7 DEF CanSend
    <3>2. mem.hold[PairOf[s]] # Today
      BY <3>1 DEF CanHold
    <3> QED BY <2>4, <3>2, LimitTypes DEF LimitsFit
  <2> QED BY <2>5, <2>6, <2>7
<1> QED BY <1>3 DEF LimitsKept

LEMMA OthersKeepLimits ==
  ASSUME TypeOK, LimitsFit, Writes \/ (Restart /\ now' = now) \/ mem' = mem
  PROVE  LimitsKept
<1>1. ASSUME NEW s \in Signals PROVE ~SentNow(s)
  <2>1. CASE Writes
    <3>1. mem'.sent[s] \in {mem.sent[s], Never}
      BY <2>1 DEF Writes, Aging, Aged
    <3> QED BY <3>1, LimitTypes DEF SentNow
  <2>2. CASE Restart
    <3>1. disk' \in {disk, EmptyState} /\ mem' = Load(disk') /\ disk \in States /\ EmptyState \in States
      BY <2>2, EmptyStateType DEF Restart, TypeOK
    <3>2. mem'.sent[s] = disk'.sent[s]
      BY <3>1 DEF Load, States
    <3>3. EmptyState.sent[s] = Never
      BY DEF EmptyState
    <3> QED BY <3>1, <3>2, <3>3, LimitTypes DEF SentNow, LimitsFit
  <2>3. CASE mem' = mem
    BY <2>3 DEF SentNow
  <2> QED BY <2>1, <2>2, <2>3
<1> QED BY <1>1 DEF LimitsKept

(***************************************************************************)
(* What a press is answered.  A signal that is stale stays so: the backend *)
(* calls an intent stale when a newer one has replaced it.                 *)
(***************************************************************************)
GoneForGood == \A w \in Ways : w[2] = "gone" => w[3] = "gone"

\* A button that is spent, of an earlier life, or sent by a call that raised.
Over(t) == Spent(t) \/ t.life < life \/ ~t.ack

ButtonsKnown == \A t \in buttons : t.life <= life /\ (t \in mem.tokens \/ Over(t))

PressesKnown == \A i \in 1 .. Len(updates) : updates[i].kind = "press" => updates[i].token \in buttons

ToldTrue ==
  \A a \in told :
    /\ a[1] \in Tokens
    /\ a[2] = "ok" => a[1] \in ledger
    /\ a[2] = "gone" => Over(a[1])

PressInv == ButtonsKnown /\ PressesKnown /\ ToldTrue

\* What no step takes back.
Growing ==
  /\ ledger \subseteq ledger' /\ now' >= now /\ life' >= life
  /\ \A s \in Signals : phase[s] = "gone" => phase'[s] = "gone"

LEMMA NextGrows ==
  ASSUME GoneForGood, TypeOK, Next
  PROVE  Growing
<1>1. now \in Nat /\ life \in Nat
  BY DEF TypeOK, Times
<1>2. CASE Tick \/ Operator
  BY <1>1, <1>2 DEF Tick, Operator, external, Growing
<1>3. CASE \E s \in Signals : Backend(s)
  <2>1. PICK s \in Signals, p \in Phases :
          /\ <<s, phase[s], p>> \in Ways /\ phase' = [phase EXCEPT ![s] = p]
          /\ UNCHANGED <<now, ledger, life>>
    BY <1>3 DEF Backend
  <2>2. phase[s] = "gone" => p = "gone"
    BY <2>1 DEF GoneForGood
  <2>3. \A r \in Signals : phase[r] = "gone" => phase'[r] = "gone"
    BY <2>1, <2>2 DEF TypeOK
  <2> QED BY <1>1, <2>1, <2>3 DEF Growing
<1>4. CASE Worker
  <2>1. UNCHANGED <<now, phase, life>> /\ ledger \subseteq ledger'
    BY <1>4 DEF Worker, StartCycle, HandleUpdates, HandleStart, HandleHelp, HandleDeadPress, PostAction,
                SettlePress, CommitUpdates, HealthCheck, FetchSignals, Send, StartFollowUps, Finish, external
  <2> QED BY <1>1, <2>1 DEF Growing
<1>5. CASE Crash \/ HealthCheckCrash \/ SendCrash
  <2>1. UNCHANGED <<now, phase, ledger>> /\ life' = life + 1
    BY <1>5 DEF Crash, HealthCheckCrash, SendCrash, Restart, external
  <2> QED BY <1>1, <2>1 DEF Growing
<1> QED BY <1>2, <1>3, <1>4, <1>5 DEF Next

LEMMA SpentStays ==
  ASSUME TypeOK, TypeOK', Growing, NEW t \in Tokens
  PROVE  (Spent(t) => Spent(t)') /\ (Over(t) => Over(t)')
<1>1. /\ t.sig \in Signals /\ t.born \in Nat /\ t.life \in Nat /\ CallbackTtl \in Nat
      /\ now \in Nat /\ now' \in Nat /\ life \in Nat /\ life' \in Nat
  BY WorkerAssumption DEF Tokens, Times, TypeOK
<1>2. Expired(t) => Expired(t)'
  BY <1>1 DEF Expired, Growing
<1>3. Spent(t) => Spent(t)'
  BY <1>1, <1>2 DEF Spent, Growing
<1> QED BY <1>1, <1>3 DEF Over, Growing

\* Steps that send no button drop only spent ones from memory.
LEMMA QuietTokens ==
  ASSUME TypeOK, ButtonInv, Next
  PROVE  \/ buttons' = buttons /\ life' = life /\ \A t \in mem.tokens \ mem'.tokens : Spent(t)
         \/ Send
         \/ Crash \/ HealthCheckCrash \/ SendCrash
<1>1. CASE Tick \/ Operator \/ (\E s \in Signals : Backend(s))
  BY <1>1 DEF Tick, Operator, Backend, got
<1>2. CASE StartCycle
  <2>1. \A t \in mem.tokens \ Cleaned(mem).tokens : Spent(t)
    BY DEF Cleaned, TypeOK, States, Spent
  <2> QED BY <1>2, <2>1 DEF StartCycle, Write, got
<1>3. CASE HandleUpdates
  <2>1. buttons' = buttons /\ life' = life
    BY <1>3 DEF HandleUpdates, HandleStart, HandleHelp, HandleDeadPress, PostAction, SettlePress,
                CommitUpdates, got
  <2>4. CASE HandleStart \/ HandleHelp \/ PostAction \/ CommitUpdates
    <3>1. \/ mem' = mem
          \/ \E r : mem' = [mem EXCEPT !.reg = r]
          \/ \E l : mem' = [mem EXCEPT !.last = l]
      BY <2>4 DEF HandleStart, HandleHelp, PostAction, CommitUpdates, Write
    <3>2. mem'.tokens = mem.tokens
      <4>1. CASE \E r : mem' = [mem EXCEPT !.reg = r]
        <5>1. PICK r : mem' = [mem EXCEPT !.reg = r]
          BY <4>1
        <5> QED BY <5>1 DEF TypeOK, States
      <4>2. CASE \E l : mem' = [mem EXCEPT !.last = l]
        <5>1. PICK l : mem' = [mem EXCEPT !.last = l]
          BY <4>2
        <5> QED BY <5>1 DEF TypeOK, States
      <4> QED BY <3>1, <4>1, <4>2
    <3> QED BY <2>1, <3>2
  <2>5. CASE HandleDeadPress
    <3>1. mem' = mem \/ (mem' = Dropped(Pressed) /\ Expired(Pressed))
      BY <2>5 DEF HandleDeadPress, Write
    <3> QED BY <2>1, <3>1, DroppedTokens DEF Spent
  <2>6. CASE SettlePress
    <3>1. mem' = mem \/ (mem' = Dropped(Pressed) /\ result \in {"ok", "stale"})
      BY <2>6 DEF SettlePress, Write, AfterPost, TypeOK
    <3>2. result \in {"ok", "stale"} => Spent(Pressed)
      BY DEF ButtonInv, ResultFits, Spent
    <3> QED BY <2>1, <3>1, <3>2, DroppedTokens
  <2> QED BY <1>3, <2>4, <2>5, <2>6 DEF HandleUpdates
<1>4. CASE HealthCheck \/ FetchSignals \/ StartFollowUps \/ Finish
  <2>1. buttons' = buttons /\ life' = life
    BY <1>4 DEF HealthCheck, FetchSignals, StartFollowUps, Finish, got
  <2>2. \A h : [mem EXCEPT !.health = h].tokens = mem.tokens
    BY DEF TypeOK, States
  <2>3. mem'.tokens = mem.tokens
    BY <1>4, <2>2, HealthRound DEF FetchSignals, StartFollowUps, Finish, Write
  <2> QED BY <2>1, <2>3
<1> QED BY <1>1, <1>2, <1>3, <1>4 DEF Next, Worker

LEMMA TokensLife ==
  \A m, users, ack : \A t \in TokensOf(m, users, ack) :
    t.life = life /\ t.ack = ack /\ users # {}
  BY DEF TokensOf

LEMMA KnownStep ==
  ASSUME TypeOK, TypeOK', ButtonInv, ButtonsKnown, Growing, Next
  PROVE  ButtonsKnown' /\ buttons \subseteq buttons'
<1>1. life \in Nat /\ life' \in Nat /\ buttons \subseteq Tokens
  BY DEF TypeOK
<1>2. CASE buttons' = buttons /\ life' = life /\ \A t \in mem.tokens \ mem'.tokens : Spent(t)
  <2>1. ASSUME NEW t \in buttons
        PROVE  t.life <= life /\ (t \in mem'.tokens \/ Over(t)')
    <3>1. t \in mem'.tokens \/ Over(t)
      BY <1>2 DEF ButtonsKnown, Over
    <3> QED BY <1>1, <3>1, SpentStays DEF ButtonsKnown
  <2> QED BY <1>2, <2>1 DEF ButtonsKnown
<1>3. CASE Send
  <2>1. PICK m \in todo, reached \in SUBSET Targets, ok \in SUBSET Targets :
          Keep(Sent(m, ok)) /\ buttons' = buttons \cup ButtonsOf(m, reached, ok)
    BY <1>3, SendRound
  <2>2. life' = life
    BY <1>3 DEF Send
  <2>3. mem.tokens \subseteq mem'.tokens /\ TokensOf(m, ok, TRUE) \subseteq mem'.tokens
    <3>1. m.sig \in Signals /\ ActionOf[m.sig] \in {"enter", "exit", "hold_open"}
      BY WorkerAssumption DEF TypeOK, Messages
    <3>2. ok # {} => mem.tokens \cup TokensOf(m, ok, TRUE) = Sent(m, ok).tokens
      BY <3>1 DEF Sent, Delivered, TypeOK, States
    <3>3. ok = {} => Sent(m, ok) = mem
      BY DEF Sent, Delivered
    <3> QED BY <2>1, <3>2, <3>3, TokensLife DEF Keep
  <2>4. ASSUME NEW t \in buttons
        PROVE  t.life <= life /\ (t \in mem'.tokens \/ Over(t)')
    BY <1>1, <2>3, SpentStays DEF ButtonsKnown
  <2>5. ASSUME NEW t \in ButtonsOf(m, reached, ok)
        PROVE  t.life <= life /\ (t \in mem'.tokens \/ Over(t)')
    <3>1. CASE t \in TokensOf(m, ok, TRUE)
      <4>1. t.life = life
        BY <3>1 DEF TokensOf
      <4>2. t.life <= life
        BY <1>1, <4>1
      <4>3. t \in mem'.tokens
        BY <2>3, <3>1
      <4> QED BY <4>2, <4>3
    <3>2. CASE t \in TokensOf(m, reached \ ok, FALSE)
      <4>1. t.life = life
        BY <3>2 DEF TokensOf
      <4>2. t.ack = FALSE
        BY <3>2 DEF TokensOf
      <4>3. t.life <= life
        BY <1>1, <4>1
      <4> QED BY <4>2, <4>3 DEF Over
    <3> QED BY <3>1, <3>2 DEF ButtonsOf
  <2> QED BY <2>1, <2>2, <2>4, <2>5 DEF ButtonsKnown
<1>4. CASE Crash \/ HealthCheckCrash \/ SendCrash
  <2>1. life' = life + 1
    BY <1>4 DEF Crash, HealthCheckCrash, SendCrash, Restart
  <2>2. \/ buttons' = buttons
        \/ \E m, users : buttons' = buttons \cup TokensOf(m, users, TRUE)
    BY <1>4 DEF Crash, HealthCheckCrash, SendCrash
  <2>3. \A t \in buttons' : t \in buttons \/ t.life = life
    <3>1. ASSUME NEW m, NEW users, NEW t \in TokensOf(m, users, TRUE)
          PROVE  t.life = life
      BY <3>1 DEF TokensOf
    <3> QED BY <2>2, <3>1
  <2>4. \A t \in buttons' : t \in Tokens
    BY DEF TypeOK
  <2>5. ASSUME NEW t \in buttons'
        PROVE  t.life < life'
    <3>1. t.life \in Nat /\ t.life <= life
      BY <1>1, <2>3, <2>4 DEF ButtonsKnown, Tokens
    <3> QED BY <1>1, <2>1, <3>1
  <2>6. \A t \in buttons' : t.life <= life' /\ t.life < life'
    BY <1>1, <2>4, <2>5 DEF Tokens
  <2> QED BY <2>2, <2>6 DEF ButtonsKnown, Over
<1> QED BY <1>2, <1>3, <1>4, QuietTokens

LEMMA PressesStep ==
  ASSUME TypeOK, PressesKnown, buttons \subseteq buttons', Next
  PROVE  PressesKnown'
<1>1. CASE updates' = updates
  BY <1>1 DEF PressesKnown
<1>2. CASE Operator
  <2>1. PICK u : updates' = Append(updates, u) /\ (u.kind = "press" => u.token \in buttons)
    <3>1. CASE \E w \in Users, c \in Chats :
                 updates' = Append(updates, [kind |-> "start", user |-> w, chat |-> c])
      <4>1. PICK w \in Users, c \in Chats :
              updates' = Append(updates, [kind |-> "start", user |-> w, chat |-> c])
        BY <3>1
      <4>2. [kind |-> "start", user |-> w, chat |-> c].kind # "press"
        OBVIOUS
      <4> QED BY <4>1, <4>2
    <3>2. CASE \E t \in buttons : updates' = Append(updates, [kind |-> "press", token |-> t])
      <4>1. PICK t \in buttons : updates' = Append(updates, [kind |-> "press", token |-> t])
        BY <3>2
      <4>2. [kind |-> "press", token |-> t].token \in buttons
        OBVIOUS
      <4> QED BY <4>1, <4>2
    <3>3. CASE updates' = Append(updates, [kind |-> "help"])
      <4>1. [kind |-> "help"].kind # "press"
        OBVIOUS
      <4> QED BY <3>3, <4>1
    <3> QED BY <1>2, <3>1, <3>2, <3>3 DEF Operator
  <2>2. updates \in Seq(Updates)
    BY DEF TypeOK
  <2>3. ASSUME NEW i \in 1 .. Len(updates'), updates'[i].kind = "press"
        PROVE  updates'[i].token \in buttons
    <3>1. Len(updates') = Len(updates) + 1 /\ Len(updates) \in Nat
      BY <2>1, <2>2
    <3>2. CASE i = Len(updates) + 1
      <4>1. updates'[i] = u
        BY <2>1, <2>2, <3>2
      <4> QED BY <2>1, <2>3, <4>1
    <3>3. CASE i \in 1 .. Len(updates)
      <4>1. updates'[i] = updates[i]
        BY <2>1, <2>2, <3>3
      <4> QED BY <2>3, <3>3, <4>1 DEF PressesKnown
    <3> QED BY <3>1, <3>2, <3>3
  <2> QED BY <2>3 DEF PressesKnown
<1>3. CASE ~Operator
  <2>1. updates' = updates
    BY <1>3 DEF Next, Worker, Tick, Backend, StartCycle, HandleUpdates, HandleStart, HandleHelp,
                HandleDeadPress, PostAction, SettlePress, CommitUpdates, HealthCheck, FetchSignals, Send,
                StartFollowUps, Finish, Crash, HealthCheckCrash, SendCrash, external
  <2> QED BY <1>1, <2>1
<1> QED BY <1>2, <1>3

LEMMA ToldStep ==
  ASSUME TypeOK, TypeOK', Batch, ButtonInv, PressInv, Growing, Next
  PROVE  ToldTrue'
<1>1. ASSUME NEW a \in told
      PROVE  /\ a[1] \in Tokens
             /\ a[2] = "ok" => a[1] \in ledger'
             /\ a[2] = "gone" => Over(a[1])'
  BY SpentStays DEF PressInv, ToldTrue, Growing
<1>2. CASE told' = told
  BY <1>1, <1>2 DEF ToldTrue
<1>3. CASE HandleDeadPress \/ SettlePress
  <2>1. /\ pc = "updates" /\ next <= upto /\ updates[next].kind = "press"
    BY <1>3 DEF HandleDeadPress, SettlePress, Handling
  <2>2. next \in 1 .. Len(updates)
    <3>1. confirmed \in Nat /\ Len(updates) \in Nat /\ next \in Nat /\ upto \in Nat
      BY WorkerAssumption DEF TypeOK
    <3> QED BY <2>1, <3>1 DEF Batch
  <2>3. PICK p : p = Pressed
    OBVIOUS
  <2>4. p \in buttons /\ p \in Tokens
    BY <2>1, <2>2, <2>3 DEF PressInv, PressesKnown, Pressed, TypeOK
  <2>5. PICK answer \in {"gone", "expired", result} :
          /\ Reply({<<p, answer>>})
          /\ answer = "gone" => p \notin mem.tokens
          /\ answer = "ok" => result = "ok"
    <3>1. CASE HandleDeadPress
      BY <2>3, <3>1 DEF HandleDeadPress
    <3>2. CASE SettlePress
      <4>1. result # "gone"
        BY DEF TypeOK
      <4> QED BY <2>3, <3>2, <4>1 DEF SettlePress
    <3> QED BY <1>3, <3>1, <3>2
  <2>6. answer = "gone" => Over(p)'
    BY <2>4, <2>5, SpentStays DEF PressInv, ButtonsKnown
  <2>7. answer = "ok" => p \in ledger'
    BY <2>3, <2>5 DEF ButtonInv, ResultFits, Growing
  <2>8. told' = told \/ told' = told \cup {<<p, answer>>}
    BY <2>5 DEF Reply, seen
  <2>9. ASSUME NEW a \in told'
        PROVE  /\ a[1] \in Tokens
               /\ a[2] = "ok" => a[1] \in ledger'
               /\ a[2] = "gone" => Over(a[1])'
    <3>1. CASE a \in told
      BY <1>1, <3>1
    <3>2. CASE a = <<p, answer>>
      <4>1. a[1] = p /\ a[2] = answer
        BY <3>2
      <4> QED BY <2>4, <2>6, <2>7, <4>1 DEF Over, Spent, Expired
    <3> QED BY <2>8, <3>1, <3>2
  <2> QED BY <2>9 DEF ToldTrue
<1>4. CASE HandleStart \/ HandleHelp
  <2>1. Reply({})
    BY <1>4 DEF HandleStart, HandleHelp
  <2>2. told' = told
    BY <2>1 DEF Reply
  <2> QED BY <1>2, <2>2
<1>5. CASE PostAction \/ CommitUpdates
  BY <1>2, <1>5 DEF PostAction, CommitUpdates, seen
<1>6. CASE Tick \/ Operator \/ (\E s \in Signals : Backend(s)) \/ StartCycle
  BY <1>2, <1>6 DEF Tick, Operator, Backend, StartCycle, seen
<1>7. CASE HealthCheck \/ FetchSignals \/ Send \/ StartFollowUps \/ Finish
  BY <1>2, <1>7 DEF HealthCheck, FetchSignals, Send, StartFollowUps, Finish, seen
<1>8. CASE Crash \/ HealthCheckCrash \/ SendCrash
  BY <1>2, <1>8 DEF Crash, HealthCheckCrash, SendCrash, seen
<1> QED BY <1>3, <1>4, <1>5, <1>6, <1>7, <1>8 DEF Next, Worker, HandleUpdates

LEMMA PressInit == Init => PressInv
  BY DEF Init, PressInv, ButtonsKnown, PressesKnown, ToldTrue

LEMMA PressStutter ==
  ASSUME PressInv, UNCHANGED vars
  PROVE  PressInv'
<1>1. /\ buttons' = buttons /\ mem' = mem /\ ledger' = ledger /\ phase' = phase /\ now' = now
      /\ life' = life /\ told' = told /\ updates' = updates
  BY DEF vars, external, seen, got
<1> QED BY <1>1 DEF PressInv, ButtonsKnown, PressesKnown, ToldTrue, Over, Spent, Expired

LEMMA ButtonsSaved == Spec => [](TypeOK /\ Delivery /\ ButtonInv)
<1>1. Init => ButtonInv
  BY ButtonInit
<1>2. TypeOK /\ ButtonInv /\ [Next]_vars => ButtonInv'
  <2>1. ASSUME TypeOK, ButtonInv, Next PROVE ButtonInv'
    BY <2>1, TokensNext, TokensStepSafe DEF ButtonInv
  <2>2. ASSUME ButtonInv, UNCHANGED vars PROVE ButtonInv'
    BY <2>2 DEF vars, external, work, ButtonInv, TokensSaved, ResultFits, Pressed
  <2> QED BY <2>1, <2>2
<1> QED BY <1>1, <1>2, WorkerInvariant, PTL DEF Spec

(***************************************************************************)
(* An operator is told "recorded" only if the backend has the action, and  *)
(* "already handled or expired" only if that is so, a crash came between   *)
(* the button and the press, or the call that sent the button raised.      *)
(***************************************************************************)
THEOREM WorkerAnswersTruly ==
  ASSUME GoneForGood
  PROVE  Spec => []AnswersAreTrue
<1>1. TypeOK /\ TypeOK' /\ Delivery /\ ButtonInv /\ PressInv /\ [Next]_vars => PressInv'
  <2>1. ASSUME TypeOK, TypeOK', Delivery, ButtonInv, PressInv, Next PROVE PressInv'
    <3>1. Growing
      BY <2>1, NextGrows
    <3>2. ButtonsKnown' /\ buttons \subseteq buttons'
      BY <2>1, <3>1, KnownStep DEF PressInv
    <3>3. PressesKnown'
      BY <2>1, <3>2, PressesStep DEF PressInv
    <3>4. ToldTrue'
      BY <2>1, <3>1, ToldStep DEF Delivery
    <3> QED BY <3>2, <3>3, <3>4 DEF PressInv
  <2> QED BY <2>1, PressStutter
<1>2. TypeOK /\ PressInv => AnswersAreTrue
  <2>1. ASSUME TypeOK, PressInv, NEW a \in told
        PROVE  /\ a[2] = "ok" => a[1] \in ledger
               /\ a[2] = "gone" =>
                    \/ a[1] \in ledger \/ phase[a[1].sig] = "gone" \/ Expired(a[1])
                    \/ a[1].life # life \/ ~a[1].ack
    <3>1. a[1].life \in Nat /\ life \in Nat
      BY <2>1 DEF PressInv, ToldTrue, Tokens, TypeOK
    <3> QED BY <2>1, <3>1 DEF PressInv, ToldTrue, Over, Spent
  <2> QED BY <2>1 DEF AnswersAreTrue
<1> QED BY <1>1, <1>2, PressInit, ButtonsSaved, PTL DEF Spec

(***************************************************************************)
(* Messages: the log, the health-checks and the limits together.           *)
(***************************************************************************)
MessageInv == LogInv /\ BeatsFit /\ LimitsFit

LEMMA MessageInit == Init => MessageInv
<1> SUFFICES ASSUME Init PROVE MessageInv
  OBVIOUS
<1>1. TypeOK
  BY TypeInit
<1>2. /\ now = 0 /\ faults = 0 /\ heard = [c \in Chats |-> [d \in Days |-> 0]]
      /\ disk = [EmptyState EXCEPT !.reg = Registered] /\ mem = Load(disk)
  BY DEF Init
<1>3. /\ \A c \in Chats : mem.health[c] = Never /\ disk.health[c] = Never
      /\ \A s \in Signals : disk.sent[s] = Never
      /\ \A p \in Pairs : /\ mem.cool[p] = Never /\ disk.cool[p] = Never
                          /\ mem.hold[p] = Never /\ disk.hold[p] = Never
  BY <1>2 DEF EmptyState, Load
<1>4. Today \in Nat /\ LocalDay \in Nat /\ Never = -1
  BY <1>1, DayTypes DEF Never
<1>5. BeatsFit
  BY <1>2, <1>3, <1>4 DEF BeatsFit
<1>6. LimitsFit
  BY <1>2, <1>3, <1>4 DEF LimitsFit
<1> QED BY <1>5, <1>6, LogInit DEF MessageInv

\* Every step but a health-check and a crash leaves the health-checks alone.
LEMMA BeatsStep ==
  ASSUME TypeOK, TypeOK', BeatsFit, LogInv, Next
  PROVE  BeatsFit'
<1>1. CASE HealthCheck
  BY <1>1, CheckBeats
<1>2. CASE Crash \/ HealthCheckCrash \/ SendCrash
  BY <1>2, CrashBeats
<1>3. CASE Tick \/ Operator \/ (\E s \in Signals : Backend(s))
  <2>1. /\ UNCHANGED <<heard, faults, mem, disk>> /\ now' \in {now, now + 1}
    BY <1>3 DEF Tick, Operator, Backend, got
  <2>2. now' >= now
    BY <2>1 DEF TypeOK, Times
  <2> QED BY <2>1, <2>2, SilentBeats
<1>4. ASSUME /\ UNCHANGED <<now, heard>> /\ faults' \in {faults, faults + 1}
             /\ mem'.health = mem.health /\ disk'.health \in {mem.health, disk.health}
      PROVE  BeatsFit'
  <2>1. now' >= now
    BY <1>4 DEF TypeOK, Times
  <2> QED BY <1>4, <2>1, SilentBeats
<1>5. CASE StartCycle
  BY <1>4, <1>5, CleanedAges DEF StartCycle, Write, got, Fault
<1>6. CASE HandleUpdates
  <2>1. UNCHANGED <<now, heard>> /\ faults' \in {faults, faults + 1}
    BY <1>6 DEF HandleUpdates, HandleStart, HandleHelp, HandleDeadPress, PostAction, SettlePress,
                CommitUpdates, Reply, Fault, got
  <2>2. \/ UNCHANGED <<mem, disk>>
        \/ \E t : mem' = Dropped(t) /\ disk' = mem'
        \/ \E r : mem' = [mem EXCEPT !.reg = r] /\ disk' = mem'
        \/ \E l : mem' = [mem EXCEPT !.last = l] /\ disk' = mem'
    BY <1>6 DEF HandleUpdates, HandleStart, HandleHelp, HandleDeadPress, PostAction, SettlePress,
                CommitUpdates, AfterPost, Write
  <2>3. mem'.health = mem.health /\ disk'.health \in {mem.health, disk.health}
    BY <2>2, SameCases
  <2> QED BY <1>4, <2>1, <2>3
<1>7. CASE FetchSignals \/ StartFollowUps \/ Finish
  BY <1>4, <1>7 DEF FetchSignals, StartFollowUps, Finish, Write, Fault, got
<1>8. CASE Send
  <2>1. PICK m \in todo, ok \in SUBSET Targets : Outcome(Targets, ok) /\ Keep(Sent(m, ok))
    BY <1>8, SendRound
  <2>2. m \in Messages /\ ok \in SUBSET Users
    BY <2>1, TargetsType DEF TypeOK
  <2>3. mem'.health = mem.health /\ disk' = disk
    BY <2>1, <2>2, SentMarks DEF Keep
  <2>4. faults' \in {faults, faults + 1}
    BY <2>1 DEF Outcome, Fault
  <2> QED BY <1>4, <1>8, <2>3, <2>4 DEF Send
<1> QED BY <1>1, <1>2, <1>3, <1>5, <1>6, <1>7, <1>8 DEF Next, Worker

LEMMA LimitsStep ==
  ASSUME TypeOK, TypeOK', LimitsFit, LogInv, Next
  PROVE  LimitsFit' /\ LimitsKept
<1>1. CASE Writes
  BY <1>1, WritesLimits, OthersKeepLimits
<1>2. CASE Send
  BY <1>2, SendLimits, SendKeepsLimits
<1>3. CASE Restart /\ now' = now
  BY <1>3, RestartLimits, OthersKeepLimits
<1>4. Restart => now' = now \/ Writes \/ Send
  <2>1. CASE Crash \/ HealthCheckCrash \/ SendCrash
    BY <2>1 DEF Crash, HealthCheckCrash, SendCrash
  <2>2. CASE ~(Crash \/ HealthCheckCrash \/ SendCrash)
    <3>1. UNCHANGED life \/ Tick
      BY <2>2 DEF Next, Tick, Operator, Backend, Worker, StartCycle, HandleUpdates, HandleStart, HandleHelp,
                  HandleDeadPress, PostAction, SettlePress, CommitUpdates, HealthCheck, FetchSignals, Send,
                  StartFollowUps, Finish
    <3>2. life \in Nat /\ (Tick => UNCHANGED life)
      BY DEF TypeOK, Tick
    <3> QED BY <3>1, <3>2 DEF Restart
  <2> QED BY <2>1, <2>2
<1> QED BY <1>1, <1>2, <1>3, <1>4, QuietWrites

LEMMA MessageStutter ==
  ASSUME TypeOK, MessageInv, UNCHANGED vars
  PROVE  MessageInv' /\ LimitsKept
<1>1. mem' = mem /\ disk' = disk /\ now' = now /\ heard' = heard /\ faults' = faults
  BY DEF vars, got
<1>2. BeatsFit' /\ LimitsFit'
  BY <1>1 DEF MessageInv, BeatsFit, LimitsFit, Today, LocalDay
<1> QED BY <1>1, <1>2, LogStutter, OthersKeepLimits DEF MessageInv

LEMMA MessagesFit == Spec => [](TypeOK /\ MessageInv)
<1>1. TypeOK /\ TypeOK' /\ MessageInv /\ [Next]_vars => MessageInv'
  BY LogStep, BeatsStep, LimitsStep, MessageStutter DEF MessageInv
<1> QED BY <1>1, MessageInit, WorkerTypes, PTL DEF Spec

(***************************************************************************)
(* In one life of the process no user who got a signal or a follow-up      *)
(* stage in a message of which a call was confirmed gets it again within   *)
(* the retention time, nor such an out-of-range update before the signal   *)
(* is sent anew; a fault costs at most one health-check more a day.        *)
(* Whichever calls raise, whatever messages share a stage.                 *)
(***************************************************************************)
THEOREM WorkerSendsOnce == Spec => []OncePerLife
<1>1. TypeOK /\ MessageInv => OncePerLife
  <2>1. ASSUME TypeOK, BeatsFit, NEW c \in Chats, NEW d \in Days
        PROVE  heard[c][d] <= 1 + faults
    <3>1. heard[c][d] <= faults + 1 /\ faults \in Nat /\ heard[c][d] \in Nat
      BY <2>1 DEF BeatsFit, TypeOK
    <3> QED BY <3>1
  <2> QED BY <2>1 DEF MessageInv, LogInv, Spaced, OncePerLife
<1> QED BY <1>1, MessagesFit, PTL

(***************************************************************************)
(* A step that sends a signal finds neither its mark nor a limit against   *)
(* it in the file, in every step of every run and across every crash.      *)
(***************************************************************************)
THEOREM WorkerKeepsSavedLimits == Spec => SavedLimitsHold
<1>1. TypeOK /\ TypeOK' /\ MessageInv /\ [Next]_vars
        => [\A s \in Signals : SentNow(s) =>
              /\ disk.sent[s] = Never
              /\ ActionOf[s] = "enter" => Elapsed(disk.cool[PairOf[s]], Cooldown)
              /\ ActionOf[s] = "hold_open" => disk.hold[PairOf[s]] # Today]_vars
  BY LimitsStep, MessageStutter DEF MessageInv, LimitsKept
<1> QED BY <1>1, MessagesFit, PTL DEF Spec, SavedLimitsHold
=============================================================================
