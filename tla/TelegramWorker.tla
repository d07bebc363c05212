--------------------------- MODULE TelegramWorker ---------------------------
(***************************************************************************)
(* The Telegram bot (integrations/telegram_worker.py): one process that    *)
(* in a loop handles what operators sent to the bot, sends the daily       *)
(* health-check, broadcasts signals and their H4A follow-ups, and keeps    *)
(* what it has done in one JSON file.  What it sends cannot be taken back; *)
(* the file is written later, so a crash, a failed call or a redelivered   *)
(* update finds the two apart.  A call that raises may have done nothing   *)
(* or may have lost only its answer: the message is in the chat and the    *)
(* bot takes it for not sent.                                              *)
(*                                                                         *)
(* Telegram (its queue of updates, the messages in the chats) and the      *)
(* backend (the rows of the actionability feed, the ledger of operator     *)
(* actions, idempotent by key: OperatorActions) are external.  They change *)
(* between cycles here: a cycle reads the queue once and the rows once, so *)
(* a later change is one it could not see.                                 *)
(***************************************************************************)
EXTENDS Integers, Sequences, Functions, FiniteSets

CONSTANTS
  Users,        \* allowed_user_ids
  Chats,        \* where they may write to the bot: private or in a group
  NoChat,       \* of a user who has not sent /start
  WritesFrom,   \* external: the chats each user writes from
  Signals,      \* fingerprints
  Pairs,        \* stock, future and strategy stream
  PairOf,       \* pair of each signal
  ActionOf,     \* "enter", "exit" or "hold_open"
  CallbackTtl,  \* callback_ttl_hours
  SentTtl,      \* _SENT_FINGERPRINT_TTL_HOURS
  Cooldown,     \* enter_resend_cooldown_minutes
  DayLen,       \* ticks of a day
  Zone,         \* what UTC is ahead of the display timezone, within a day
  HealthTime,   \* daily_healthcheck_time, in ticks of the local day
  Registered,   \* the chats of the users in the file at the start
  Ways,         \* external: how a signal moves between phases
  Refused,      \* updates whose answer Telegram refuses at every attempt
  MaxNow, MaxUpdates, MaxEvents, MaxFaults  \* bounds

ASSUME WorkerAssumption ==
  /\ PairOf \in [Signals -> Pairs]
  /\ ActionOf \in [Signals -> {"enter", "exit", "hold_open"}]
  /\ {CallbackTtl, SentTtl, Cooldown} \subseteq Nat
  /\ NoChat \notin Chats /\ WritesFrom \in [Users -> SUBSET Chats]
  /\ Registered \in [Users -> Chats \cup {NoChat}]
  /\ DayLen \in Nat \ {0} /\ {Zone, HealthTime} \subseteq Nat
  /\ {MaxNow, MaxUpdates, MaxEvents, MaxFaults} \subseteq Nat

VARIABLES
  now,      \* the clock
  phase,    \* external: where each signal stands in the backend
  updates,  \* external: what operators sent, the i-th with update_id i
  confirmed, \* external: updates Telegram delivers no more, by their number
  buttons,  \* external: tokens of the buttons in the chats
  ledger,   \* external: tokens whose action the backend recorded
  mem,      \* self._state
  disk,     \* the state file
  pc,       \* where the cycle stands
  next,     \* the update being handled
  upto,     \* the last update of the batch
  result,   \* of _post_operator_action
  todo,     \* messages this phase may still send
  faults,
  events,
  life,     \* history: crashes so far
  handled,  \* history: updates whose handler came to its end
  told,     \* history: what a press was answered
  when,     \* history: when, in this life, a user got a message
  heard     \* history: health-checks each chat got on each day

external == <<phase, updates, confirmed, events>>
work     == <<next, upto, result, todo>>
seen     == <<handled, told>>
got      == <<buttons, when, heard>>
vars     == <<now, external, ledger, mem, disk, pc, work, faults, life, seen, got>>

-----------------------------------------------------------------------------
Never == -1
Times == 0 .. MaxNow
Days  == 0 .. (MaxNow + Zone) \div DayLen

\* The daily limit goes by the UTC day, the health-check by the local one.
Today    == (now + Zone) \div DayLen
LocalDay == now \div DayLen

Phases == {"absent", "in", "out", "submitted", "filled", "moving", "managed", "overdue", "gone"}

Stages == {"entry_fallback_due", "post_fill_packet", "break_even_due",
           "trailing_due", "time_stop_due", "time_stop_overdue"}

Bracket  == {"break_even_due", "trailing_due"}
TimeStop == {"time_stop_due", "time_stop_overdue"}

\* What a message tells: a new signal, that it left its corridor, or stages.
Parts    == {"signal", "range"} \cup Stages
Messages == [sig : Signals, parts : SUBSET Parts]

Callbacks == {"mark_viewed", "confirm_followup", "manual_override"}

\* ack: the call that sent the button was confirmed.
Tokens == [user : Users, sig : Signals, parts : SUBSET Parts, act : Callbacks,
           born : Times, life : 0 .. MaxFaults, ack : BOOLEAN]

Updates == [kind : {"start"}, user : Users, chat : Chats] \cup [kind : {"help"}]
             \cup [kind : {"press"}, token : Tokens]

States ==
  [last : 0 .. MaxUpdates, reg : [Users -> Chats \cup {NoChat}],
   sent : [Signals -> Times \cup {Never}],
   track : [Signals -> {"off", "armed", "noted"}],
   cool : [Pairs -> Times \cup {Never}], hold : [Pairs -> Days \cup {Never}],
   health : [Chats -> Days \cup {Never}], tokens : SUBSET Tokens,
   stages : [Signals -> [Stages -> Times \cup {Never}]]]

EmptyState ==
  [last |-> 0, reg |-> [u \in Users |-> NoChat], sent |-> [s \in Signals |-> Never],
   track |-> [s \in Signals |-> "off"],
   cool |-> [p \in Pairs |-> Never], hold |-> [p \in Pairs |-> Never],
   health |-> [c \in Chats |-> Never], tokens |-> {},
   stages |-> [s \in Signals |-> [g \in Stages |-> Never]]]

\* Mutant: the cooldown is not restored.
LoadWithoutCooldown(file) ==
  [file EXCEPT !.stages = EmptyState.stages, !.cool = EmptyState.cool]

\* load_state restores all but the six maps of the follow-ups.
Load(file) == [file EXCEPT !.stages = EmptyState.stages]

Init ==
  /\ now = 0
  /\ phase = [s \in Signals |-> "absent"]
  /\ updates = <<>> /\ confirmed = 0 /\ buttons = {} /\ ledger = {}
  /\ disk = [EmptyState EXCEPT !.reg = Registered]
  /\ mem = Load(disk)
  /\ pc = "idle" /\ next = 0 /\ upto = 0 /\ result = "none" /\ todo = {}
  /\ faults = 0 /\ events = 0 /\ life = 0
  /\ handled = {} /\ told = {}
  /\ when = <<>>
  /\ heard = [c \in Chats |-> [d \in Days |-> 0]]

-----------------------------------------------------------------------------
(* The world between two cycles.                                           *)

Tick ==
  /\ pc = "idle" /\ now < MaxNow
  /\ now' = now + 1
  /\ UNCHANGED <<external, ledger, mem, disk, pc, work, faults, life, seen, got>>

\* A signal appears, is acted on, is superseded.
Backend(s) ==
  /\ pc = "idle" /\ events < MaxEvents
  /\ \E p \in Phases :
       /\ <<s, phase[s], p>> \in Ways
       /\ phase' = [phase EXCEPT ![s] = p]
  /\ events' = events + 1
  /\ UNCHANGED <<now, updates, confirmed, ledger, mem, disk, pc, work, faults, life, seen, got>>

\* help stands for /help and for what a user who is not allowed sends.
Operator ==
  /\ pc = "idle" /\ Len(updates) < MaxUpdates
  /\ \/ \E u \in Users, c \in Chats :
          c \in WritesFrom[u] /\ updates' = Append(updates, [kind |-> "start", user |-> u, chat |-> c])
     \/ \E t \in buttons : updates' = Append(updates, [kind |-> "press", token |-> t])
     \/ updates' = Append(updates, [kind |-> "help"])
  /\ UNCHANGED <<now, phase, confirmed, events, ledger, mem, disk, pc, work, faults, life,
                 seen, got>>

-----------------------------------------------------------------------------
Keep(state)  == mem' = state /\ UNCHANGED disk
Write(state) == mem' = state /\ disk' = state

Fault == faults < MaxFaults /\ faults' = faults + 1

\* An exception leaves run_cycle, run_forever starts the next; what is in
\* memory stays as it is.
Abandon ==
  /\ pc' = "idle"
  /\ next' = 0 /\ upto' = 0 /\ result' = "none" /\ todo' = {}

\* The process dies; another starts from the file, or, when the file is
\* spoilt meanwhile and cannot be parsed, from the empty state.
Restart ==
  /\ Fault
  /\ disk' \in {disk, EmptyState}
  /\ mem' = Load(disk')
  /\ Abandon
  /\ life' = life + 1

Crash ==
  /\ Restart
  /\ when' = <<>>
  /\ UNCHANGED <<now, external, ledger, seen, buttons, heard>>

-----------------------------------------------------------------------------
(* _cleanup_state, _fetch_updates                                          *)

Expired(t) == now > t.born + CallbackTtl

Forget(map) ==
  [k \in DOMAIN map |-> IF map[k] # Never /\ now > map[k] + SentTtl THEN Never ELSE map[k]]

\* Mutant: a button goes with the mark that its signal was sent.
CleanedWithSent(m) ==
  [m EXCEPT !.tokens = {t \in m.tokens : ~Expired(t) /\ Forget(m.sent)[t.sig] # Never},
            !.sent = Forget(m.sent),
            !.cool = Forget(m.cool),
            !.stages = [s \in Signals |-> Forget(m.stages[s])]]

Cleaned(m) ==
  LET sent == Forget(m.sent)
  IN  [m EXCEPT !.tokens = {t \in m.tokens : ~Expired(t)},
                !.sent = sent,
                !.cool = Forget(m.cool),
                !.track = [s \in Signals |-> IF sent[s] = Never THEN "off" ELSE m.track[s]],
                !.stages = [s \in Signals |-> Forget(m.stages[s])]]

\* What a request from this offset confirms; what was confirmed stays so,
\* also for a worker that has lost its offset.
Past == IF confirmed < mem.last THEN mem.last ELSE confirmed

\* getUpdates from the offset; a failure that outlasts the retry is an empty
\* answer, or an exception when Telegram calls it permanent.
StartCycle ==
  /\ pc = "idle"
  /\ IF Cleaned(mem) = mem THEN UNCHANGED <<mem, disk>> ELSE Write(Cleaned(mem))
  /\ \/ /\ Past < Len(updates)
        /\ pc' = "updates" /\ next' = Past + 1 /\ upto' = Len(updates) /\ confirmed' = Past
        /\ UNCHANGED <<faults, result, todo>>
     \/ /\ Past = Len(updates)
        /\ pc' = "health" /\ confirmed' = Past
        /\ UNCHANGED <<faults, work>>
     \/ /\ Fault
        /\ pc' \in {"health", "idle"} /\ confirmed' \in {confirmed, Past}
        /\ UNCHANGED work
  /\ UNCHANGED <<now, phase, updates, events, ledger, life, seen, got>>

-----------------------------------------------------------------------------
(* _process_updates                                                        *)

Handling(kind) ==
  /\ pc = "updates" /\ next <= upto
  /\ updates[next].kind = kind

\* The last call of a handler tells the operator; an exception there, though
\* the answer may have arrived, ends the cycle before last_update_id moves,
\* and Telegram delivers anew.
Reply(answers) ==
  \/ /\ next \notin Refused
     /\ pc' = "updates" /\ next' = next + 1 /\ result' = "none"
     /\ handled' = handled \cup {next}
     /\ told' = told \cup answers
     /\ UNCHANGED <<upto, todo, faults>>
  \/ /\ Abandon
     /\ IF next \in Refused THEN UNCHANGED <<faults, told>>
        ELSE Fault /\ told' \in {told, told \cup answers}
     /\ UNCHANGED handled

\* A user has one chat, that of the last /start.
HandleStart ==
  /\ Handling("start")
  /\ Write([mem EXCEPT !.reg = [mem.reg EXCEPT ![updates[next].user] = updates[next].chat]])
  /\ Reply({})
  /\ UNCHANGED <<now, external, ledger, life, got>>

HandleHelp ==
  /\ Handling("help")
  /\ Reply({})
  /\ UNCHANGED <<now, external, ledger, mem, disk, life, got>>

Pressed == updates[next].token

\* Mutant: the offset moves before the batch and is saved with the token.
DroppedAhead(t) == [mem EXCEPT !.tokens = mem.tokens \ {t}, !.last = upto]

Dropped(t) == [mem EXCEPT !.tokens = mem.tokens \ {t}]

HandleDeadPress ==
  /\ Handling("press") /\ result = "none"
  /\ \/ /\ Pressed \notin mem.tokens
        /\ Reply({<<Pressed, "gone">>})
        /\ UNCHANGED <<mem, disk>>
     \/ /\ Pressed \in mem.tokens /\ Expired(Pressed)
        /\ Write(Dropped(Pressed))
        /\ Reply({<<Pressed, "expired">>})
  /\ UNCHANGED <<now, external, ledger, life, got>>

\* The backend records the action, once per key, unless the signal is stale;
\* the request or its answer may be lost.
PostAction ==
  /\ Handling("press") /\ result = "none"
  /\ Pressed \in mem.tokens /\ ~Expired(Pressed)
  /\ \/ /\ \/ phase[Pressed.sig] # "gone"
           \/ Pressed \in ledger
        /\ result' = "ok" /\ ledger' = ledger \cup {Pressed}
        /\ UNCHANGED faults
     \/ /\ phase[Pressed.sig] = "gone"
        /\ result' = "stale"
        /\ UNCHANGED <<ledger, faults>>
     \/ /\ result' = "failed"
        /\ \/ UNCHANGED ledger
           \/ phase[Pressed.sig] # "gone" /\ ledger' = ledger \cup {Pressed}
        /\ Fault
  /\ UNCHANGED <<now, external, mem, disk, pc, next, upto, todo, life, seen, got>>

\* Mutant: the button goes whatever came of the post.
DropAlways == Dropped(Pressed)

\* A post that failed leaves the button alive.
AfterPost == IF result = "failed" THEN mem ELSE Dropped(Pressed)

SettlePress ==
  /\ Handling("press") /\ result # "none"
  /\ IF AfterPost = mem THEN UNCHANGED <<mem, disk>> ELSE Write(AfterPost)
  /\ Reply({<<Pressed, result>>})
  /\ UNCHANGED <<now, external, ledger, life, got>>

\* Mutant: one further.
OffsetAfter == next

Offset == upto

CommitUpdates ==
  /\ pc = "updates" /\ next > upto
  /\ Write([mem EXCEPT !.last = Offset])
  /\ pc' = "health" /\ next' = 0 /\ upto' = 0
  /\ UNCHANGED <<now, external, ledger, result, todo, faults, life, seen, got>>

-----------------------------------------------------------------------------
(* _send_daily_healthcheck                                                 *)

\* _registered_chats: an entry for each user, two of which may be one chat.
Targets == {u \in Users : mem.reg[u] # NoChat}

ChatsOf(users) == {mem.reg[u] : u \in users}

TimeHasCome == now % DayLen >= HealthTime

DueUsers == {u \in Targets : TimeHasCome /\ mem.health[mem.reg[u]] # LocalDay}

\* A send to each target: it reaches some, and of these some are confirmed;
\* the other calls raise.
Outcome(targets, ok) == IF ok = targets THEN UNCHANGED faults ELSE Fault

\* A round counts once in a chat, however many of its users are sent to.
Beats(reached) ==
  [c \in Chats |-> IF c \in ChatsOf(reached)
                   THEN [heard[c] EXCEPT ![LocalDay] = heard[c][LocalDay] + 1] ELSE heard[c]]

\* Mutant: one chat stands for all.
MarkAllHealth(ok) ==
  [c \in Chats |-> IF c \in ChatsOf(DueUsers) THEN LocalDay ELSE mem.health[c]]

MarkHealth(ok) == [c \in Chats |-> IF c \in ChatsOf(ok) THEN LocalDay ELSE mem.health[c]]

HealthCheck ==
  /\ pc = "health"
  /\ \E reached \in SUBSET DueUsers : \E ok \in SUBSET reached :
       /\ Outcome(DueUsers, ok)
       /\ heard' = Beats(reached)
       /\ IF ok = {} THEN UNCHANGED <<mem, disk>>
          ELSE Write([mem EXCEPT !.health = MarkHealth(ok)])
  /\ pc' = "fetch"
  /\ UNCHANGED <<now, external, ledger, work, life, seen, buttons, when>>

\* Some chats were served, the file not yet written.
HealthCheckCrash ==
  /\ pc = "health"
  /\ \E reached \in SUBSET DueUsers \ {{}} : heard' = Beats(reached)
  /\ Restart
  /\ when' = <<>>
  /\ UNCHANGED <<now, external, ledger, seen, buttons>>

-----------------------------------------------------------------------------
(* _broadcast_signals                                                      *)

Overridden(s) == \E t \in ledger : t.sig = s /\ t.act = "manual_override"

Elapsed(since, span) == since = Never \/ now >= since + span

CanEnter(s) ==
  /\ phase[s] = "in" /\ ~Overridden(s)
  /\ Elapsed(mem.cool[PairOf[s]], Cooldown)

PostFill(s) == phase[s] \in {"filled", "moving", "managed", "overdue"}

CanHold(s) ==
  /\ phase[s] \in Phases \ {"absent", "gone"}
  /\ ~PostFill(s)
  /\ mem.hold[PairOf[s]] # Today

CanSend(s) ==
  /\ mem.sent[s] = Never
  /\ CASE ActionOf[s] = "enter" -> CanEnter(s)
       [] ActionOf[s] = "hold_open" -> CanHold(s)
       [] ActionOf[s] = "exit" -> phase[s] \notin {"absent", "gone"}

LeftCorridor(s) ==
  /\ ActionOf[s] = "enter" /\ phase[s] = "out" /\ ~Overridden(s)
  /\ mem.sent[s] # Never /\ mem.track[s] = "armed"

SignalMessages ==
  {[sig |-> s, parts |-> {"signal"}] : s \in {r \in Signals : CanSend(r)}}
    \cup {[sig |-> s, parts |-> {"range"}] : s \in {r \in Signals : LeftCorridor(r)}}

\* build_h4a_followup_state
DueStages(s) ==
  CASE phase[s] = "submitted" -> {"entry_fallback_due"}
    [] phase[s] = "filled" -> {"post_fill_packet"}
    [] phase[s] = "moving" -> {"post_fill_packet", "break_even_due"}
    [] phase[s] = "managed" -> {"post_fill_packet", "time_stop_due"} \cup Bracket
    [] phase[s] = "overdue" -> {"post_fill_packet", "time_stop_overdue"} \cup Bracket
    [] OTHER -> {}

Confirmed(s, stage) ==
  \E t \in ledger : t.sig = s /\ t.act = "confirm_followup" /\ stage \in t.parts

Unsent(s) ==
  {g \in DueStages(s) : mem.stages[s][g] = Never /\ ~Confirmed(s, g)}
    \ IF Overridden(s) THEN Bracket \cup TimeStop \cup {"entry_fallback_due"} ELSE {}

\* Break-even and trailing that are both due share a message.
FollowUps(s) ==
  {{g} : g \in Unsent(s) \ Bracket} \cup ({Unsent(s) \cap Bracket} \ {{}})

FollowUpMessages ==
  UNION {{[sig |-> s, parts |-> g] : g \in FollowUps(s)} : s \in Signals}

\* Without a chat there is nothing to do; a feed that answers on none of its
\* endpoints is an exception.
FetchSignals ==
  /\ pc = "fetch"
  /\ \/ Targets = {} /\ Abandon /\ UNCHANGED faults
     \/ Targets # {} /\ Abandon /\ Fault
     \/ /\ Targets # {}
        /\ pc' = "signals" /\ todo' = SignalMessages
        /\ UNCHANGED <<next, upto, result, faults>>
  /\ UNCHANGED <<now, external, ledger, mem, disk, life, seen, got>>

\* The buttons that came with message m to some users.
TokensOf(m, users, ack) ==
  LET acts == IF m.parts = {"signal"} THEN {"mark_viewed"}
              ELSE IF m.parts = {"range"} THEN {}
              ELSE {"confirm_followup", "manual_override"}
  IN  {[user |-> u, sig |-> m.sig, parts |-> m.parts, act |-> a, born |-> now, life |-> life,
        ack |-> ack] : u \in users, a \in acts}

\* Buttons of calls that raised are in the chats too; their tokens are popped.
ButtonsOf(m, reached, ok) == TokensOf(m, ok, TRUE) \cup TokensOf(m, reached \ ok, FALSE)

\* Mutant: a shared message marks break-even only.
MarkOne(stages, m) ==
  [g \in Stages |-> IF g \in m.parts /\ (g = "trailing_due" => "break_even_due" \notin m.parts)
                    THEN now ELSE stages[g]]

Mark(stages, m) == [g \in Stages |-> IF g \in m.parts THEN now ELSE stages[g]]

\* Mutant: a message counts when it was tried.
Tried(ok) == TRUE

\* One confirmed call is enough for a message to count as delivered.
Delivered(ok) == ok # {}

Sent(m, ok) ==
  LET s == m.sig
      p == PairOf[s]
      base == [mem EXCEPT !.tokens = mem.tokens \cup TokensOf(m, ok, TRUE)]
  IN  IF ~Delivered(ok) THEN mem
      ELSE IF m.parts = {"range"} THEN [base EXCEPT !.track[s] = "noted"]
      ELSE IF m.parts # {"signal"} THEN [base EXCEPT !.stages[s] = Mark(base.stages[s], m)]
      ELSE CASE ActionOf[s] = "enter" ->
                  [base EXCEPT !.sent[s] = now, !.cool[p] = now, !.track[s] = "armed"]
             [] ActionOf[s] = "hold_open" ->
                  [base EXCEPT !.sent[s] = now, !.hold[p] = Today]
             [] OTHER -> [base EXCEPT !.sent[s] = now]

StillDue(m) == pc = "signals" => m \in SignalMessages

\* History: when each user got what, and whether a call was confirmed.
Log(m, reached, ok) ==
  LET keys  == {<<u, m.sig, x>> : u \in reached, x \in m.parts}
      entry == [at |-> now, sure |-> ok # {}]
  IN  [k \in DOMAIN when \cup keys |->
         (IF k \in DOMAIN when THEN when[k] ELSE <<>>) \o IF k \in keys THEN <<entry>> ELSE <<>>]

Send ==
  /\ pc \in {"signals", "followups"}
  /\ \E m \in todo : \E reached \in SUBSET Targets : \E ok \in SUBSET reached :
       /\ StillDue(m)
       /\ Outcome(Targets, ok)
       /\ Keep(Sent(m, ok))
       /\ buttons' = buttons \cup ButtonsOf(m, reached, ok)
       /\ when' = Log(m, reached, ok)
       /\ todo' = todo \ {m}
  /\ UNCHANGED <<now, external, ledger, pc, next, upto, result, life, seen, heard>>

SendCrash ==
  /\ pc \in {"signals", "followups"}
  /\ \E m \in todo : \E reached \in SUBSET Targets \ {{}} :
       /\ StillDue(m)
       /\ buttons' = buttons \cup TokensOf(m, reached, TRUE)
  /\ Restart
  /\ when' = <<>>
  /\ UNCHANGED <<now, external, ledger, seen, heard>>

StartFollowUps ==
  /\ pc = "signals"
  /\ \A m \in todo : ~StillDue(m)
  /\ pc' = "followups" /\ todo' = FollowUpMessages
  /\ UNCHANGED <<now, external, ledger, mem, disk, next, upto, result, faults, life, seen, got>>

\* The only save of the broadcast.
Finish ==
  /\ pc = "followups" /\ todo = {}
  /\ Write(mem)
  /\ Abandon
  /\ UNCHANGED <<now, external, ledger, faults, life, seen, got>>

-----------------------------------------------------------------------------
HandleUpdates ==
  \/ HandleStart \/ HandleHelp \/ HandleDeadPress \/ PostAction \/ SettlePress
  \/ CommitUpdates

Worker ==
  \/ StartCycle \/ HandleUpdates \/ HealthCheck
  \/ FetchSignals \/ Send \/ StartFollowUps \/ Finish

Next ==
  \/ Tick \/ Operator \/ (\E s \in Signals : Backend(s))
  \/ Worker
  \/ Crash \/ HealthCheckCrash \/ SendCrash

Spec == Init /\ [][Next]_vars

\* The loop never ends and its supervisor starts it again; calls fail for a
\* while, not for ever.
FairSpec == Spec /\ WF_vars(Worker)

-----------------------------------------------------------------------------
(* Properties.                                                             *)

\* Every variable has its type.
TypeOK ==
  /\ now \in Times
  /\ phase \in [Signals -> Phases]
  /\ updates \in Seq(Updates) /\ Len(updates) <= MaxUpdates
  /\ confirmed \in 0 .. Len(updates)
  /\ buttons \subseteq Tokens /\ ledger \subseteq Tokens
  /\ mem \in States /\ disk \in States
  /\ pc \in {"idle", "updates", "health", "fetch", "signals", "followups"}
  /\ next \in 0 .. MaxUpdates + 1 /\ upto \in 0 .. MaxUpdates
  /\ result \in {"none", "ok", "stale", "failed"}
  /\ todo \subseteq Messages
  /\ faults \in 0 .. MaxFaults /\ life \in 0 .. faults

(***************************************************************************)
(* Whatever fails or crashes and however often a batch is delivered again, *)
(* an update at or below the saved offset, or one Telegram was told it     *)
(* need not deliver any more, has been handled to the end.                 *)
(***************************************************************************)
NoUpdateSkipped == 1 .. disk.last \subseteq handled /\ 1 .. confirmed \subseteq handled

\* When, in this life, signal s was sent to a user by a message of which a
\* call was confirmed.
AnnouncedAt(s) ==
  {at \in Times : \E k \in DOMAIN when : \E i \in DOMAIN when[k] :
     k[2] = s /\ k[3] = "signal" /\ when[k][i].sure /\ when[k][i].at = at}

(***************************************************************************)
(* Within one life of the process a user who got a signal or a follow-up   *)
(* stage in a message of which some call was confirmed does not get it     *)
(* again within the retention time, whatever fails later and whichever     *)
(* messages share it; an out-of-range update follows such a one of the     *)
(* signal only when the signal was sent anew in between.  (A message whose *)
(* calls all raise is tried again, though it may have arrived.)  A chat    *)
(* hears more than one health-check a day only for a failed call or a      *)
(* crash each.                                                             *)
(***************************************************************************)
OncePerLife ==
  /\ \A k \in DOMAIN when : \A i, j \in DOMAIN when[k] :
       i < j /\ when[k][i].sure =>
         IF k[3] = "range"
         THEN \E at \in AnnouncedAt(k[2]) : when[k][i].at < at /\ at <= when[k][j].at
         ELSE when[k][j].at > when[k][i].at + SentTtl
  /\ \A c \in Chats : \A d \in Days : heard[c][d] <= 1 + faults

(***************************************************************************)
(* An operator is told "recorded" only when the backend has the action,    *)
(* and "already handled or expired" only when that is so, a crash lost the *)
(* token, or the call that sent the button raised although it arrived.     *)
(***************************************************************************)
AnswersAreTrue ==
  \A a \in told :
    LET t == a[1] IN
    /\ a[2] = "ok" => t \in ledger
    /\ a[2] = "gone" =>
         t \in ledger \/ phase[t.sig] = "gone" \/ Expired(t) \/ t.life # life \/ ~t.ack

\* Signal s is sent, and marked, in this step.
SentNow(s) == pc = "signals" /\ mem.sent[s] # now /\ mem'.sent[s] = now

(***************************************************************************)
(* What the file says holds across every crash: a signal in it is not sent *)
(* again, and the cooldown and the daily limit in it are kept.             *)
(***************************************************************************)
SavedLimitsHold ==
  [][\A s \in Signals : SentNow(s) =>
       /\ disk.sent[s] = Never
       /\ ActionOf[s] = "enter" => Elapsed(disk.cool[PairOf[s]], Cooldown)
       /\ ActionOf[s] = "hold_open" => disk.hold[PairOf[s]] # Today]_vars

(***************************************************************************)
(* A saved button works until its action is recorded, its signal is stale  *)
(* or its time is up, through failed posts, redeliveries, broadcasts and   *)
(* crashes; only a file that is spoilt loses it.                           *)
(***************************************************************************)
NoButtonLost ==
  [][disk' # EmptyState =>
       \A t \in disk.tokens \ disk'.tokens :
         t \in ledger \/ phase[t.sig] = "gone" \/ Expired(t)]_vars

(***************************************************************************)
(* On a day that lasts, every registered chat hears the bot once the time  *)
(* of the health-check has come.                                           *)
(***************************************************************************)
HeartbeatArrives ==
  []<>(TimeHasCome => \A u \in Targets : heard[mem.reg[u]][LocalDay] > 0)

\* Signal s has come to a user.
Reached(s) == \E t \in buttons : t.act = "mark_viewed" /\ t.sig = s

\* Another signal of the pair has, whose limit s falls under now.
HeldBack(s) ==
  \E t \in buttons :
    /\ t.act = "mark_viewed" /\ PairOf[t.sig] = PairOf[s] /\ ActionOf[t.sig] = ActionOf[s]
    /\ CASE ActionOf[s] = "enter" -> ~Elapsed(t.born, Cooldown)
         [] ActionOf[s] = "hold_open" -> (t.born + Zone) \div DayLen = Today
         [] OTHER -> FALSE

(***************************************************************************)
(* A signal that stays actionable while a user is registered comes to one, *)
(* or the cooldown or the daily limit of its pair still holds it back,     *)
(* though calls fail, answers are lost and the worker crashes before it    *)
(* marks what it sent.                                                     *)
(***************************************************************************)
SignalArrives ==
  []<>(\A s \in Signals :
         phase[s] = "in" /\ Targets # {} /\ ~Overridden(s) => Reached(s) \/ HeldBack(s))
=============================================================================
