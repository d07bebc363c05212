------------------------------ MODULE AlertFeed ------------------------------
(***************************************************************************)
(* The news alerts of the Telegram bot (integrations/telegram_root_,       *)
(* _shock_ and _news_broadcast.py, shock_alert_delivery.py): three feeds,  *)
(* read one after the other in every cycle.  Each keeps a cursor (the time *)
(* of the last row it dealt with) and the fingerprints it sent; the shocks *)
(* also keep their topics, each an episode of numbered events.  The policy *)
(* marks an alert sent and moves the cursor before anything is sent, and   *)
(* the state file is written after the last alert of the feed: what the    *)
(* chats got and what the file says differ after a failed call or a crash; *)
(* and a call that fails may have lost only its answer, so that what the   *)
(* bot takes for not sent is in the chat.                                  *)
(*                                                                         *)
(* The tables of roots, shocks and stories are external: rows come in any  *)
(* order, also below the cursor, and a root's selected event, which is     *)
(* part of its fingerprint, may be chosen anew.                            *)
(***************************************************************************)
EXTENDS Integers, SequencesExt

CONSTANTS
  Chats,          \* registered chats, one for each user
  Rows,           \* rows of the feeds, numbered in the order the feeds sort
  KindOf,         \* feed of each row
  TsOf,           \* first_shock_ts, shock_ts or published_at_utc
  GroupOf,        \* topic of a shock, story of a news row
  Score,          \* of a story's row: how well it is linked
  Size,           \* of a shock: "faint", "weak" or "strong" (its |z|)
  Notable,        \* shocks of at least aftershock_min_tier
  Limit,          \* max_alerts_per_cycle
  Factor,         \* rows loaded for each alert of the limit: 10, for stories 20
  Ttl,            \* sent_fingerprint_ttl_hours
  Reopen,         \* topic_reopen_after_hours
  Cooldown,       \* aftershock_cooldown_minutes
  MaxArrived, MaxVersion, MaxNow, MaxFaults   \* bounds

Feeds == {"root", "shock", "news"}

ASSUME FeedAssumption ==
  /\ Rows \subseteq Nat /\ IsFiniteSet(Rows)
  /\ KindOf \in [Rows -> Feeds]
  /\ TsOf \in [Rows -> Nat]
  /\ \A r, s \in Rows : r < s /\ KindOf[r] = KindOf[s] => TsOf[r] <= TsOf[s]
  /\ DOMAIN GroupOf = Rows
  /\ Score \in [Rows -> Nat]
  /\ Size \in [Rows -> {"faint", "weak", "strong"}]
  /\ Notable \subseteq Rows
  /\ Limit \in Nat \ {0} /\ Factor \in [Feeds -> Nat \ {0}]
  /\ {Ttl, Reopen, Cooldown, MaxArrived, MaxVersion, MaxNow, MaxFaults} \subseteq Nat

VARIABLES
  now,
  visible,   \* external: rows in the tables
  version,   \* external: the selected event of each root
  mem,       \* the worker's state: what it keeps of the alerts
  disk,      \* the state file
  pc,        \* "load" or "send"
  feed,      \* the feed at hand
  queue,     \* alerts still to be sent
  faults,
  tried,     \* history: roots that were put to the chats
  received,  \* history: roots some chat got
  late,      \* history: rows that came below their feed's cursor
  dropped,   \* history: rows that the bound on a load left out
  when,      \* history: when, in this life, a chat got an alert that was marked
  told       \* history: the shock alerts of this life

tables  == <<visible, version>>
place   == <<pc, feed, queue>>
history == <<tried, received, late, dropped, when, told>>
vars    == <<now, tables, mem, disk, place, faults, history>>

-----------------------------------------------------------------------------
Never    == -1
Times    == 0 .. MaxNow
Instants == {TsOf[r] : r \in Rows}
Of(f)    == {r \in Rows : KindOf[r] = f}
Topics   == {GroupOf[r] : r \in Of("shock")}

\* A root's fingerprint names its selected event, the others' only the row.
\* (A story's also names the commodities it was grouped with, left out here:
\* its row is behind the cursor once told and is not looked up again.)
Fingerprints   == Rows \X (0 .. MaxVersion)
Fingerprint(r) == <<r, version[r]>>

Count == 0 .. Cardinality(Rows)

Episodes ==
  [ord : Count, root : Instants, last : Instants, alert : Instants, count : Count]

NoEpisode == [ord |-> 0, count |-> 0]

States ==
  [cursor : [Feeds -> Instants \cup {Never}],
   sent : [Feeds -> [Fingerprints -> Times \cup {Never}]],
   topics : [Topics -> Episodes \cup {NoEpisode}],
   episodes : Count]

EmptyState ==
  [cursor |-> [f \in Feeds |-> Never],
   sent |-> [f \in Feeds |-> [p \in Fingerprints |-> Never]],
   topics |-> [t \in Topics |-> NoEpisode],
   episodes |-> 0]

\* ord and index are those of a shock's episode.
Alerts == [row : Rows, print : Fingerprints, ord : Count, index : Count]

Idle == pc = "load" /\ feed = "root"

Init ==
  /\ now = 0
  /\ visible = {} /\ version = [r \in Rows |-> 0]
  /\ mem = EmptyState /\ disk = EmptyState
  /\ pc = "load" /\ feed = "root" /\ queue = {}
  /\ faults = 0
  /\ tried = {} /\ received = {} /\ late = {} /\ dropped = {}
  /\ when = [p \in Chats \X Fingerprints |-> Never] /\ told = <<>>

-----------------------------------------------------------------------------
(* The tables between two cycles.                                          *)

Tick ==
  /\ Idle /\ now < MaxNow
  /\ now' = now + 1
  /\ UNCHANGED <<tables, mem, disk, place, faults, history>>

\* A row whose time has come is written, sooner or later.
Arrive(r) ==
  /\ Idle /\ r \notin visible /\ TsOf[r] <= now
  /\ Cardinality(visible) < MaxArrived
  /\ visible' = visible \cup {r}
  /\ late' = IF TsOf[r] <= mem.cursor[KindOf[r]] THEN late \cup {r} ELSE late
  /\ UNCHANGED <<now, version, mem, disk, place, faults, tried, received, dropped,
                 when, told>>

\* Maintenance selects another event for a root (of one root, MaxVersion times).
Reselect(r) ==
  /\ Idle /\ r \in visible \cap Of("root")
  /\ version[r] < MaxVersion /\ \A s \in Rows \ {r} : version[s] = 0
  /\ version' = [version EXCEPT ![r] = @ + 1]
  /\ UNCHANGED <<now, visible, mem, disk, place, faults, history>>

-----------------------------------------------------------------------------
(* Loading.                                                                *)

Newest(S, n) == {r \in S : Cardinality({s \in S : s > r}) < n}
Oldest(S, n) == {r \in S : Cardinality({s \in S : s < r}) < n}

\* Mutant: roots of the cursor's instant are not read again.
WaitingAfter(f) == {r \in visible \cap Of(f) : TsOf[r] > mem.cursor[f]}

\* Roots from the cursor on, shocks and stories after it.
Waiting(f) ==
  {r \in visible \cap Of(f) :
     IF f = "root" THEN TsOf[r] >= mem.cursor[f] ELSE TsOf[r] > mem.cursor[f]}

MaxRows(f) == Factor[f] * Limit

\* The queries take the oldest 2 * max_rows, then tail(max_rows) the newest
\* of these; the file of stories has no query.
Load(f) ==
  IF f = "news" THEN Newest(Waiting(f), MaxRows(f))
  ELSE Newest(Oldest(Waiting(f), 2 * MaxRows(f)), MaxRows(f))

\* The rows tail() left out: only those before the newest of the load.
LeftOut(f) == {r \in Waiting(f) \ Load(f) : \E s \in Load(f) : r < s}

-----------------------------------------------------------------------------
(* The policies.                                                           *)

\* Mutant: it stops one alert late.
ReachedOneMore(rows, fresh) ==
  {r \in rows : Cardinality({s \in fresh : s < r}) <= Limit}

\* The rows the loop comes to: it stops at the limit, before a row is read.
Reached(rows, fresh) ==
  {r \in rows : Cardinality({s \in fresh : s < r}) < Limit}

IsFresh(r) == mem.sent[KindOf[r]][Fingerprint(r)] = Never

Marked(sent, prints) == [p \in Fingerprints |-> IF p \in prints THEN now ELSE sent[p]]

Expired(sent) == {p \in Fingerprints : sent[p] # Never /\ now > sent[p] + Ttl}

\* Mutant: every fingerprint is dropped with the first that expires.
CleanedAll(sent) ==
  IF Expired(sent) = {} THEN sent ELSE [p \in Fingerprints |-> Never]

Cleaned(sent) == [p \in Fingerprints |-> IF p \in Expired(sent) THEN Never ELSE sent[p]]

Plain(r) == [row |-> r, print |-> Fingerprint(r), ord |-> 0, index |-> 0]

PlainAlerts(rows) == {Plain(r) : r \in rows}

\* What a policy makes of the state, the alerts to be sent, and whether
\* anything but the cursor changed.
Outcome(state, alerts, changed) ==
  [state |-> state, alerts |-> alerts, changed |-> changed]

\* The rows of the latest time, where a cursor may come to stand.
Latest(S) == {r \in S : \A s \in S : TsOf[s] <= TsOf[r]}

\* Mutant: the cursor moves past the rows the limit left (as the shocks' does).
RootCursorOverAll(rows, reached) == Latest(rows)

\* Only the rows the loop came to move the cursor.
RootCursor(rows, reached) == Latest(reached)

RootOutcomes(rows) ==
  LET fresh   == {r \in rows : IsFresh(r)}
      reached == Reached(rows, fresh)
      taken   == reached \cap fresh
      sent    == Marked(mem.sent["root"], {Fingerprint(r) : r \in taken})
  IN  {Outcome([mem EXCEPT !.sent["root"] = Cleaned(sent), !.cursor["root"] = TsOf[last]],
               PlainAlerts(taken), TRUE) : last \in RootCursor(rows, reached)}

\* The order of a story's rows: by score, then the latest, then the first.
Precedes(r, s) ==
  \/ Score[r] > Score[s]
  \/ Score[r] = Score[s] /\ TsOf[r] > TsOf[s]
  \/ Score[r] = Score[s] /\ TsOf[r] = TsOf[s] /\ r <= s

\* One alert for a story, its best row's.
Leads(rows) == {r \in rows : \A s \in rows : GroupOf[s] = GroupOf[r] => Precedes(r, s)}

\* The newest stories; every story moves the cursor, to its lead's time.
NewsOutcomes(rows) ==
  LET leads == Leads(rows)
      taken == Newest({r \in leads : IsFresh(r)}, Limit)
      sent  == Marked(mem.sent["news"], {Fingerprint(r) : r \in taken})
  IN  {Outcome([mem EXCEPT !.sent["news"] = Cleaned(sent), !.cursor["news"] = TsOf[last]],
               PlainAlerts(taken), TRUE) : last \in Latest(leads)}

IsAftershock(topic, r) == topic # NoEpisode /\ TsOf[r] <= topic.last + Reopen

\* A weak move opens no topic; an aftershock must be notable and not too soon.
Passes(topic, r) ==
  IF IsAftershock(topic, r)
  THEN r \in Notable /\ TsOf[r] >= topic.alert + Cooldown
  ELSE Size[r] = "strong"

\* Mutant: an aftershock does not keep its topic open.
ContinuedBriefly(topic, r) ==
  [topic EXCEPT !.alert = TsOf[r], !.count = @ + 1]

Continued(topic, r) ==
  [topic EXCEPT !.last = TsOf[r], !.alert = TsOf[r], !.count = @ + 1]

Opened(ord, r) ==
  [ord |-> ord, root |-> TsOf[r], last |-> TsOf[r], alert |-> TsOf[r], count |-> 1]

\* One row of the loop over the shocks.
Shock(acc, r) ==
  LET state == acc.state
      topic == state.topics[GroupOf[r]]
      next  == IF IsAftershock(topic, r) THEN Continued(topic, r)
               ELSE Opened(state.episodes + 1, r)
      alert == [row |-> r, print |-> Fingerprint(r), ord |-> next.ord,
                index |-> next.count]
  IN  IF \/ Cardinality(acc.alerts) >= Limit
         \/ Size[r] = "faint"
         \/ state.sent["shock"][Fingerprint(r)] # Never
         \/ ~Passes(topic, r)
      THEN acc
      ELSE Outcome([state EXCEPT !.topics[GroupOf[r]] = next,
                                 !.sent["shock"][Fingerprint(r)] = now,
                                 !.episodes = IF @ < next.ord THEN next.ord ELSE @],
                   acc.alerts \cup {alert}, TRUE)

\* The loop over the shocks, in their order: loop[n] is done with those before n.
ShockLoop(rows) ==
  LET end == Max(rows) + 1
      loop[n \in 0 .. end] ==
        IF n = 0 THEN Outcome(mem, {}, FALSE)
        ELSE IF n - 1 \in rows THEN Shock(loop[n - 1], n - 1) ELSE loop[n - 1]
  IN  loop[end]

\* Every row moves the cursor, which alone is no reason to save.
ShockOutcomes(rows) ==
  LET done == ShockLoop(rows)
      sent == done.state.sent["shock"]
  IN  {Outcome([mem EXCEPT !.sent["shock"] = Cleaned(sent), !.cursor["shock"] = TsOf[last],
                           !.topics = done.state.topics, !.episodes = done.state.episodes],
               done.alerts, done.changed \/ Expired(sent) # {}) : last \in Latest(rows)}

Outcomes(f, rows) ==
  CASE f = "root"  -> RootOutcomes(rows)
    [] f = "shock" -> ShockOutcomes(rows)
    [] f = "news"  -> NewsOutcomes(rows)

-----------------------------------------------------------------------------
(* The broadcast of one feed.                                              *)

After == [root |-> "shock", shock |-> "news", news |-> "root"]

Nothing ==
  /\ pc = "load" /\ Load(feed) = {}
  /\ feed' = After[feed]
  /\ UNCHANGED <<now, tables, mem, disk, pc, queue, faults, history>>

\* The policy changes the state in memory; with nothing to tell and nothing
\* changed but the cursor, the file is not written.
Select ==
  /\ pc = "load" /\ Load(feed) # {}
  /\ \E done \in Outcomes(feed, Load(feed)) :
       /\ mem' = done.state
       /\ queue' = done.alerts
       /\ IF done.alerts = {} /\ ~done.changed THEN feed' = After[feed] /\ UNCHANGED pc
          ELSE pc' = "send" /\ UNCHANGED feed
  /\ dropped' = dropped \cup LeftOut(feed)
  /\ UNCHANGED <<now, tables, disk, faults, tried, received, late, when, told>>

\* The order of sending: stories from the newest, all others from the oldest.
Sooner(a, b) == IF feed = "news" THEN a.row >= b.row ELSE a.row <= b.row

\* An alert of which no call was confirmed is not marked as sent.
Unmark(sent, alert, ok) ==
  IF ok = {} THEN [sent EXCEPT ![feed][alert.print] = Never] ELSE sent

\* History: the alerts whose round counted as delivered.
Heard(alert, reached, ok) ==
  [p \in DOMAIN when |->
     IF ok # {} /\ p \in reached \X {alert.print} THEN now ELSE when[p]]

\* The next alert goes to every chat; it reaches some, and of these some are
\* confirmed: the other calls raise.
Send ==
  /\ pc = "send"
  /\ \E alert \in queue :
       /\ \A other \in queue : Sooner(alert, other)
       /\ queue' = queue \ {alert}
       /\ \E reached \in SUBSET Chats : \E ok \in SUBSET reached :
            /\ ok # Chats => faults < MaxFaults
            /\ faults' = IF ok = Chats THEN faults ELSE faults + 1
            /\ mem' = [mem EXCEPT !.sent = Unmark(@, alert, ok)]
            /\ when' = Heard(alert, reached, ok)
            /\ received' = IF reached = {} THEN received ELSE received \cup {alert.row}
       /\ tried' = tried \cup {alert.row}
       /\ told' = IF feed = "shock" THEN Append(told, alert) ELSE told
  /\ UNCHANGED <<now, tables, disk, pc, feed, late, dropped>>

\* The last alert is out: the file is written.
Save ==
  /\ pc = "send" /\ queue = {}
  /\ disk' = mem
  /\ pc' = "load" /\ feed' = After[feed]
  /\ UNCHANGED <<now, tables, mem, queue, faults, history>>

\* Another part of the cycle writes the file.
SaveElsewhere ==
  /\ Idle
  /\ disk' = mem
  /\ UNCHANGED <<now, tables, mem, place, faults, history>>

\* The process stops, perhaps with an alert in some of the chats, and starts
\* anew from the file, or from nothing when the file is spoilt meanwhile.
Crash ==
  /\ faults < MaxFaults
  /\ faults' = faults + 1
  /\ \/ UNCHANGED received
     \/ \E alert \in queue :
          /\ \A other \in queue : Sooner(alert, other)
          /\ received' = received \cup {alert.row}
  /\ disk' \in {disk, EmptyState} /\ mem' = disk'
  /\ pc' = "load" /\ feed' = "root" /\ queue' = {}
  /\ when' = [p \in DOMAIN when |-> Never] /\ told' = <<>>
  /\ UNCHANGED <<now, tables, tried, late, dropped>>

Worker == Nothing \/ Select \/ Send \/ Save

Next ==
  \/ Tick
  \/ \E r \in Rows : Arrive(r) \/ Reselect(r)
  \/ Worker
  \/ SaveElsewhere
  \/ Crash

Spec == Init /\ [][Next]_vars

\* run_forever starts the next cycle whatever became of the last one.  (A
\* step of the worker is always enabled, so this is its weak fairness.)
FairSpec == Spec /\ []<><<Worker>>_vars

-----------------------------------------------------------------------------
\* Every variable has its type; a feed never queues more than its limit.
TypeOK ==
  /\ now \in Times
  /\ visible \subseteq Rows
  /\ version \in [Rows -> 0 .. MaxVersion]
  /\ mem \in States /\ disk \in States
  /\ pc \in {"load", "send"} /\ feed \in Feeds
  /\ queue \subseteq Alerts /\ Cardinality(queue) <= Limit
  /\ faults \in 0 .. MaxFaults
  /\ {tried, received, late, dropped} \subseteq SUBSET Rows
  /\ when \in [Chats \X Fingerprints -> Times \cup {Never}]
  /\ told \in Seq(Alerts)

\* Whatever fails and whenever the worker stops, the saved cursor of the roots
\* passes none that was not put to the chats: all it leaves behind unseen are
\* rows that came late and rows the bound of a load left out.  (The test of
\* the cycle limit checks this for two roots and no fault.)
RootCursorRespectsLimit ==
  \A r \in visible \cap Of("root") :
    TsOf[r] < disk.cursor["root"] => r \in tried \cup late \cup dropped

\* The alerts of a topic tell one story, over all cycles of a life: within an
\* episode the events are numbered in turn and at least the cooldown apart,
\* and another episode begins, at 1, only after the topic was quiet.
EpisodesHold ==
  \A i, j \in DOMAIN told :
    LET a == told[i]
        b == told[j]
    IN  i < j /\ GroupOf[a.row] = GroupOf[b.row] =>
          \/ /\ a.ord = b.ord /\ a.index < b.index
             /\ TsOf[b.row] >= TsOf[a.row] + Cooldown
          \/ /\ a.ord < b.ord
             /\ b.index = 1 => TsOf[b.row] > TsOf[a.row] + Reopen

\* An alert that a chat got in this life, in a round of calls of which one was
\* confirmed, or that the file has marked as sent when it goes out, is not put
\* to any chat again before the mark expires: neither another cycle, another
\* chat's failed call nor a restart repeats it.  (One whose calls all raise is
\* unmarked, and a root may be told again though it has arrived.)
AlertsAreNotRepeated ==
  [][\A alert \in queue \ queue' :
       LET p == alert.print IN
         pc' = "send" =>
           /\ \A c \in Chats : when[<<c, p>>] # Never => now > when[<<c, p>>] + Ttl
           /\ disk.sent[feed][p] # Never => now > disk.sent[feed][p] + Ttl]_vars

\* A root that came in time is put to the chats in the end, a few in each
\* cycle, unless the bound on a load leaves it out.
RootIsTried ==
  []<>(visible \cap Of("root") \subseteq tried \cup late \cup dropped)

\* The runbook promises one message per root.  (It does not hold: a root that
\* reached nobody is unmarked but the cursor has moved past it, and it is not
\* the newest.)
PassedIsReceived ==
  \A r \in visible \cap Of("root") :
    TsOf[r] < disk.cursor["root"] => r \in received \cup late \cup dropped
=============================================================================
