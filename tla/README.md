# TLA+ verification of trading_advisor

This directory holds TLA+ models of the parts of trading_advisor whose
correctness depends on the order of events: several processes, threads and
requests, files written one after another, crashes, retries, and data that
changes under a computation. TLC checks the models on small instances, TLAPS
proves theorems about them for every instance. Paths below are relative to the
repository; `moex_carry/` stands for `src/moex_carry/`.

## 1. The system

trading_advisor watches MOEX stock/future pairs. Minute bars of both legs are
fetched from the exchange into one CSV file per pair; a replay engine walks the
minutes of a pair and raises entry and exit signals; the API server refreshes
all pairs periodically and publishes a snapshot; operators see it in a web UI
and in Telegram and record what they do. Beside this online path there are
offline ones: backtests, parameter search, a forward (paper) test, a news
pipeline and governance reports.

### Inventory

| component | state it keeps | operations | hard behaviour | what makes it correct |
|---|---|---|---|---|
| minute ingest (`minute_ingest/`) | CSV series per pair, `cursor.json` | fetch from a cursor, upsert, save cursor | crash or error between upsert and cursor; corrected and late minutes | nothing fetched is lost; what changed is reported to the replay |
| incremental replay (`signal_replay/incremental.py`, `unified_runtime.py`) | replay output, `latest.json`, periodic checkpoints, in-memory caches | reuse, append-only, overlap or full replay; forced replay; chart request | callers without a lock over the same files, each with a window of its own; crash between files; stale checkpoints and caches | the output equals a replay from scratch; what is resumed is a state of one |
| replay engine (`pipeline.py`) | runtime state of one pair | one step per minute | signals in flight across minutes, sequential legs | resumed run = run from scratch |
| refresh scheduler (`ui/refresh_scheduler.py`, `storage/repositories.py`, `ui/app.py`) | lease row, thread state, `refresh_lock` | acquire, renew, release, wait, refresh; manual refresh | races on the lease, refreshes longer than it, crashes | one leader refreshes; some leader always does |
| operator actions (`ui/decision_actions.py`, signal actions in `ui/app.py`) | two JSONL logs, `signal_executions` table | record an action under an idempotency key | concurrent retries, crash between two appends | one execution per key |
| telegram worker (`integrations/telegram_worker.py`, `telegram_h4a_followup.py`) | one JSON state file: offset, chats, marks, limits, buttons | poll updates, commands, buttons, health-check, broadcast, follow-ups | send before save, partial delivery, lost answers, redelivered updates, restarts that forget some maps | nothing lost, duplicates bounded, answers true |
| alert feeds (`telegram_root_`, `_shock_`, `_news_broadcast.py`, `shock_alert_delivery.py`) | per feed a cursor and marks, topics of the shocks; in the worker's state file | load, apply a policy, send, save | cursor moved before sending, limits, rows that come late, restarts | each alert once, none skipped, an episode tells one story |
| forward test (`forward/`) | `state.json`, JSONL logs | end of day, open, after close | crash between log and state, calls out of order, missing quotes | each order filled once, the books add up |
| rebalance controller (`portfolio/`) | none | from positions and snapshots to orders | exits, band and turnover cap meet; broken hedges | hedged, within limits, closes what must be closed |
| HPO (`hpo/`) | run directory, status files, thread | start, trials, status | thread lost at restart, status files written in place | a run ends |
| MOEX client (`data/moex_iss.py`) | failover window per host | request with retries | shared window | a host is retried |
| risk and delay gates (`strategy/`, `pretrade/`) | none | pure decisions over records | boundaries | the decision tables of the docs |
| news and shock pipeline (`news*`, `shock_*`) | JSONL and SQL feeds | scrape, score, link, detect | redelivered items | rows the alert feeds can trust |
| backtests, ranking, costs, governance, UI | tables, reports | numerical | - | - |

Interactions: the scheduler thread (or a manual request) runs the ingest of
every pair and then the replay of every pair, in one call, under `refresh_lock`;
the ingest hands a *mutation report* per pair to the replay; an API request for
a pair's chart, or for a snapshot, runs the same replay with no report and no
lock, the chart over a window of its own; the snapshot is built from the replays
and read by the UI and the Telegram worker over HTTP; a button pressed in
Telegram comes back to the server as an operator action under an idempotency
key. The worker reads the tables of the news pipeline directly. The forward test
plans with the rebalance controller. Processes share files and the SQL database
and nothing else.

`PROJECT.json` lists every component with its status and every hazard with its
line.

## 2. Modules

```
MinuteSeries <- ReplayFrames <- IncrementalReplay <- MCIncrementalReplay -> SignalEngine
                   ^  ^                |
                   |  +- PublishedReplay (refined by IncrementalReplay)
                   +- SharedReplay <- MCSharedReplay -> SignalEngine
ReplayFrames_proofs <- IncrementalReplay_proofs -> IncrementalReplay
                    <- SharedReplay_proofs -> SharedReplay

RefreshScheduler <- MCRefreshScheduler,  RefreshScheduler_proofs

OperatorActions <- MCOperatorActions,  OperatorActions_proofs
       |
       +-> AtMostOnce (refined by the signal endpoint)

TelegramWorker <- MCTelegramWorker,  TelegramWorker_proofs

AlertFeed <- MCAlertFeed,  AlertFeed_proofs

Rebalance <- ForwardEngine <- MCForwardEngine,  ForwardEngine_proofs
```

### MinuteSeries - the store of one pair

Pure operators. A series is a function from minutes `1..MaxTs` to a bar or
`NoBar`. `Upsert`, `ChangedTs`, `RetroTs` and `EarliestRetro` are
`upsert_minute_series`; `Watermark` is `compute_watermark`, a digest of the
last minute and of the tail of the series (collisions of the digest are
ignored: it is the tail itself); `FromDay` and `Fetch` are the window and the
answer of the exchange (`runner.py`); `Eligible` is the day cutoff.

### ReplayFrames - replay of a series

A frame is the output of a replay: its rows and, for every minute, the state
after it. `ReplayFrom` runs the engine (`Step`, a CONSTANT) over the minutes
after a given one, as a recursive function; `Extend` is what the incremental
path makes of a prefix and a tail; `FullReplay` is the reference: a replay from
scratch.

### SignalEngine - the automaton

The step of `_apply_spread_carry_signals`: position, signal in flight (its
minute, its deadline, the first leg filled), entry and exit resolution within a
price band and a wait limit, forced exit at the end, simultaneous or sequential
second leg. The z-score, floor rate and liquidity conditions are folded into
one number per bar (`edge`), take profit, stop loss, time and expiry into the
price move; lag in days is 0. It is one instance of `Step`: the invariants of
IncrementalReplay and SharedReplay are about any engine, and the proofs hold for
any.

### IncrementalReplay - the refresh of a pair

| variable | code |
|---|---|
| `source` | what the exchange would answer (external) |
| `series`, `cursor` | the CSV file, `cursor.json` |
| `output`, `latest`, `periodic` | replay parquet, `latest.json`, `checkpoints/<ts>.json` |
| `pc`, `mutation`, `plan` | where the refresh stands, its `ReplayMutation`, what it computed and will write |
| `cache`, `served` | `_PAIR_REPLAY_CACHE`, the replay behind the last snapshot |
| `engine` | the engine signature of the running settings |

Every write of a file is an action of its own, in the order of the code:
`IngestUpsert`, `SaveCursor`, `Compute` (reads the files), `WriteOutput`,
`WritePeriodic`, `WriteLatest`. `IngestFails` and `UpsertThenFails` are the two
ways into the except branch of the ingest, `ServeCached`, `Reuse` and
`NothingToReplay` the early returns, `ForceFull` the forced path. `Crash` and
`Reconfigure` lose the memory and keep the files. `Exchange` appends and
corrects minutes, `Backfill` is `scripts/intraday_minute_replay.py
--save-series-dir` in another process.

This is the refresh alone with its files: one at a time, which `refresh_lock`
sees to. What the API requests do to the same files is SharedReplay, and it is
not nothing: the theorems about the files say what holds of a pair whose chart
and live snapshot nobody asks for.

Abstractions: the ingest of a pair is atomic up to the cursor save (only the
refresh ingests, one at a time, and only a backfill writes the file beside it);
one pair (pairs share nothing but the loop); the window given by `start_date`
and the lookback is the whole history; the preload-cache source is left out;
the forced path uses the same engine (the code runs a second copy of the
automaton, `signal_replay/core.py`); the snapshot cache, keyed by the
watermarks of all pairs, is subsumed by the pair cache.

### SharedReplay - several callers, one set of files

| variable | code |
|---|---|
| `series` | the CSV file of the pair; it only grows here |
| `files` | replay parquet, `checkpoints/<ts>.json`, `latest.json`, in the order they are written; `Nothing` is absent or unreadable |
| `temp` | the temporary file of each, `.{name}.{pid}.tmp` |
| `job` | where each caller stands, its rows and report, what it has read, what it will write, and where the file is that it has open |

The callers are the refresh (`StartRefresh`), one at a time, with what was
appended and its report, and the requests that replay the pair with no lock and
no report (`StartRequest`): `_unified_snapshot` (`ui/app.py:1734`) over the days
of the refresh, and `build_unified_spread_series` (`unified_runtime.py:1696`)
over `window_days` or, for a full-life chart, 3650 days. `From` is the first
minute each of them loads.

Every read of a file is a step (`ReadOutput`, `ReadLatest`, `ReadCheckpoint`),
and every write three: `Open` makes or empties the temporary file, `Fill` writes
it, `Move` renames it over the target. The temporary name is made of the target
and the process id, so two threads that write one target share it
(`incremental.py:577`, `:678`): one empties what the other wrote, moves the file
the other still holds (`holds` becomes "target", and a third move makes it
"gone"), or finds its file moved and fails (`MoveFails`). A write that mixes with
another leaves one of the contents or something that cannot be read, which both
`_load_checkpoint` and the parquet reader answer as absent; that a mixture of two
parquet or JSON files would parse and be neither is not considered. `Crash`
restarts the server: temporary names are new, files stay.

A run served from `_PAIR_REPLAY_CACHE` touches no file and is no step (any run
may miss it). Corrections, the backfill and other settings are in
IncrementalReplay. `_load_nearest_checkpoint` looks at a directory while others
write into it: it finds some of the checkpoints that are being written and any
of the others.

### PublishedReplay - what a reader is promised

The abstract specification: a growing store, and a published replay that is
always a replay from scratch of the store up to some minute and never loses a
minute. No files, checkpoints, callers or caches. `ImplementsPublishedReplay`
says that IncrementalReplay implements it (`series`, `served`, `engine` map
to themselves); TLC checks it and a theorem proves it.

### RefreshScheduler - who refreshes

| variable | code |
|---|---|
| `lease` | the `runtime_leases` row: owner and time left |
| `pc`, `held`, `timer`, `remaining` | the scheduler thread of each worker: place, `lease_held`, the current slice, the rest of the wait |
| `lock`, `manual`, `mtimer` | `refresh_lock` of a process, a manual request in it |

A lease operation is two steps, the SELECT with its decision (`LoopRenew`,
`LoopAcquire`, `WaitRenew`, ...) and the committed write (`CommitInsert`,
`CommitTake`, `CommitRenew`, `CommitExtend`): the session holds no row lock and
the UPDATE has no condition but the primary key, so whatever others committed
in between is overwritten. An UPDATE of a row read as one's own changes
`lease_until` and not `owner_id` (the ORM writes changed columns only).
`ThreadFails` is the way out
of the loop by an exception, through `finally` to `release_runtime_lease`;
nothing restarts the thread until the process is restarted. A crashed process
leaves its row; its owner id, pid and uuid, never comes back (`Gone`).

Time is a count of ticks. Waits and refreshes take time; database operations
and checks take none (a tick waits for them). `Daily` is the set of workers that
run in daily mode. Only singleton mode is modelled;
`refresh_stop` is never set in the code, so the ways out of the loop by it are
not. One manual request at a time per process.

### OperatorActions - what an operator did, under a key

| variable | code |
|---|---|
| `key`, `stage`, `found` | a request in a thread of some server process: its idempotency key, what it does next, whether the action log it read has its key |
| `answer` | `status` of the response; "no answer" is an HTTP error or a lost connection |
| `actions`, `executions` | `decision_actions.jsonl`, `execution_requests.jsonl` |
| `rows` | `signal_executions`, whose partial unique index is over the pair and the key |
| `known` | history: what the action log held when the request was sent |

`DecisionActionService.record` is `ReadActions`, `Scan` (the execution log is
read after the action log and both are searched in memory), `AppendAction`,
`AppendExecution`; `_record_signal_action` is `Select`, `Insert` (with its
commit), `Stored` (the answer) and, after an IntegrityError, `Recheck`. One
decision and one pair: keys of different ones are never compared. A request
without a key, where the endpoint allows it, gets a random one, which is the
request itself here. A retry is another request with the same key; the server
does not tell it from a new one. An append that fails may leave part of a line
(`Torn`): `load_jsonl` parses the whole file, so every later request fails, and
the next line appended is glued to the part. `Crash` takes any set of requests
in flight with a process and leaves files and table.

### AtMostOnce - what a key promises

The abstract specification: of all requests with one key one has an effect,
"ok" goes to that one, "duplicate" only to others. `SignalsAtMostOnce` says
that the signal endpoint implements it (`done` is the table); the decision
endpoint does not.

### TelegramWorker - the bot

| variable | code |
|---|---|
| `updates`, `confirmed`, `buttons`, `phase`, `ledger` | external: what Telegram queues and need not deliver again, the buttons in the chats, where a signal stands in the actionability feed, the actions the backend recorded |
| `mem`, `disk` | `self._state`, the state file |
| `pc`, `next`, `upto`, `result`, `todo` | where `run_cycle` stands: the update at hand, the end of the batch, what became of the post, messages still to be sent |
| `now` | the clock; `DayLen` ticks are a day, and UTC is `Zone` ticks ahead of the local one |

A cycle is `StartCycle` (clean-up and `getUpdates`), one action for each
handler (`HandleStart`, `HandleHelp`, `HandleDeadPress`, `PostAction` and
`SettlePress` for a button), `CommitUpdates` (the offset, saved after the
batch), `HealthCheck`, `FetchSignals`, `Send` for each message of the signals
and then of the follow-ups, `Finish` (the only save of the broadcast). An
exception leaves the cycle (`Abandon`) and `run_forever` starts the next with
what is in memory.

A call that raises may have done nothing or may have lost only its answer (a
timeout after delivery is an exception like any other,
`telegram_worker.py:109-127`). For a message: of the chats it reached, only some
are confirmed (`reached`, `ok`). It is marked when one call is confirmed
(`Delivered`); when none is, it stays unmarked and is sent again in a later
cycle, and the buttons of calls that raised are in the chats with no token
behind them (`ButtonsOf`, `ack = FALSE`). The same for the answer of a handler and
for the post to the backend.

`Crash`, `HealthCheckCrash` and `SendCrash` lose the memory, the last two after
some chats were served. `Load` is `load_state`, which restores all maps but the
six of the follow-ups; when the file cannot be parsed it starts from the empty
state (`Restart` may leave `EmptyState`), in memory and, with the next save, in
the file. `Sent` is what a confirmed message marks: the signal, the cooldown of
its pair, the daily limit of holds, the stages.

The registered chats are a map from users: a second /start moves the user to
another chat, and two users of one group chat give that chat twice
(`_registered_chats` does not merge them). `TimeHasCome` and `LocalDay` are the
gate and the day of the health-check, which go by the display timezone; the
daily limit of holds goes by the UTC day (`Today`).

A signal moves through `Phases` as the feed reports it; `DueStages` are the
stages `build_h4a_followup_state` raises in each. A message is its signal and
what it tells (`parts`); texts and menus are left out. The backend's ledger is
idempotent by key, which is what OperatorActions is about.

Abstractions: the outside changes between cycles (a cycle reads queue and feed
once); every cycle is due; a save is atomic and succeeds (`save_state` writes a
temporary file, of a fixed name, and renames it; the bot is one process and one
thread, so nobody shares that name, and what else may spoil the file is
`Restart`'s choice); Telegram keeps updates for good (it drops them after 24
hours); operators press their own buttons.

### AlertFeed - news alerts

| variable | code |
|---|---|
| `visible`, `version` | external: rows in the tables; a root's selected event |
| `mem`, `disk` | of the worker's state: `*_last_processed_ts`, `sent_*_fingerprints`, the shock topics and the episode counter |
| `pc`, `feed`, `queue` | which feed the cycle is at, and the alerts still to be sent |

`Select` is a load and a policy: rows from the cursor on (`Waiting`), bounded
as the queries and `tail` bound them (`Load`), then `RootOutcomes`,
`ShockOutcomes` or `NewsOutcomes`, which mark the alerts and move the cursor in
memory (an outcome for each row of the latest time: they differ in nothing).
`Send` tries the next alert (`Sooner`) at every chat and takes the mark away if
no call was confirmed, though it may have arrived; `Save` writes the file after
the last. `SaveElsewhere` is a save of another
part of the cycle, `Crash` starts anew from the file, or from the empty state
when the file is spoilt. The policies are pure
operators: `Reached` is where the loop over roots stops, `ShockLoop` the loop
over shocks and `Shock` one turn of it (topics, aftershocks, cooldown,
episodes), `Leads` the row a story is told by.

Abstractions: rows are numbered in the order of the queries and have given
times, topics, scores and sizes; chats are registered for good; the CSV
fallback of the shocks and the news order among equal times are simplified; a
story's fingerprint is its story alone (in the code also its commodity scope,
`telegram_news_broadcast.py:76`, so a story whose scope changes is another one).

### Rebalance - the plan

Pure operators, from a view (positions, snapshots, dates, equity, limit) to
orders: `HardExit`, `Kept`, `Entering` (who gets a free slot), `ContractsForPair`,
`Banded`, `Capped` (`apply_turnover_cap`), `Quantities`, `Orders`. Only what the
forward engine can reach: its snapshots carry no score and its portfolio no
cooldown, so thresholds, soft exits, rotation and cooldown never happen, and
every allocation method gives each target the same weight. Prices are whole
numbers, 0 is no quote. The switches of the configuration have their defaults:
no kill switch, `exit_on_floor_fail` on, hard checks daily, `default_direction`
cash_and_carry, no trailing stop; the take profit by the net result of a round
trip is part of `TakeProfit`.

### ForwardEngine - the paper test

| variable | code |
|---|---|
| `mem`, `disk`, `torn` | `self._state`, `state.json`, a `state.json` that cannot be parsed |
| `trades`, `curve`, `alerts` | `trades.jsonl`, `equity.jsonl`, `alerts.jsonl` |
| `pc`, `lines` | a phase that is done in memory has these lines to append before it saves |
| `view` | history: what the last plan saw |

`RunEod`, `RunOpen` and `RunAfterClose` are the three phases, each with what it
loads and computes; `AppendLine` and `Save` write. Any phase may be called at
any time, again, or not at all, in one process or (`Exit`) in several; the
market gives each pair any of its snapshots. `Crash` is between two writes or
in the middle of a save, the first one of a fresh state included (`save_state`
writes in place). `Filled`, `CostAfter` and `RealizedDelta` are the
broker's arithmetic, compared with the fills by `BooksAgree`.

An order's plan number stands for the orders at hand: the counter in the code's
order ids starts again with every process
(`portfolio/rebalance_controller.py:873`), so ids may repeat between plans.

Left out: the kill switch, fees, the refusal of a state with another config
hash, alerts other than missing quotes and drawdown, fields that are only
displayed, and I/O errors that leave the process alive.

## 3. Runs

Passing runs:

| run | asks | bounds |
|---|---|---|
| append | Is every file and everything published a replay from scratch, if the store only grows, whatever crashes and fails? Does the refresh implement PublishedReplay and catch up? | 5 minutes on 2 days with a cutoff, 2 bars, sequential legs, 2 faults |
| shared | A refresh and a request at once, every read and write of a file a step, shared temporary names, restarts: can a checkpoint ever hold a wrong state? | 3 minutes, 2 callers over the same days |
| corrections | Corrections, a backfill, new settings: are checkpoints settled, do old corrections rebuild? | 3 minutes, 2 corrections, 1 backfill, 1 reconfiguration |
| lease_races | With every interleaving, can the row name a follower, does a leader that lost its lease step down, do refreshes go on? | 3 workers, one of them daily and one with manual requests, lease 2, interval 2, refresh up to 3, 2 faults |
| actions | Do the audit logs agree, do late retries record nothing, does the signal endpoint implement AtMostOnce? | 2 decision and 3 signal requests, 1 shared key and fresh ones, 1 fault |
| telegram | Is an update ever skipped, a confirmed message repeated in a life, a saved limit or button forgotten, an operator told wrong? Do health-check and signals arrive? | 2 users, one of whom moves between 2 chats, 3 signals of a pair, 2 updates, 2 moves of the feed, 2 instants on two UTC days, 1 fault |
| alerts | Does the saved cursor leave a root untried, is a marked alert repeated, do a topic's alerts tell one story, does every root get its turn? | 3 roots, 3 shocks of a topic, 2 rows of a story, 3 of them at a time, 1 alert per cycle and feed, 3 instants, 1 fault |
| forward | Do books and logs agree, is an order filled twice, does the plan keep hedges, exits and the turnover limit? | 2 pairs of 1 and 2 shares a contract, 3 days, 4 phases, quotes missing or not, limit 60% or none, 1 fault |

Minutes: enough for a signal to be raised, to wait and be filled, for a
position to be closed, and for a checkpoint to be taken before, in and after
it; every resume mode (reuse, append, overlap, full) occurs. Two bars are one
that raises a signal and one that lets the trade be closed. Two faults let a
fault hit the recovery from another. The overlap and the digested tail are one
or two minutes so that both older and newer corrections exist; the code's
values (180 minutes) only scale.

Shared files: with a minute for a signal, one for its fill and one beyond, two
callers meet in every pair of places, and a file can be moved from under a
writer and replaced again.

Scheduler: two workers race for the lease while a third takes it from both; the
lease is a few ticks, so that every order of expiry, renewal, end of wait and
end of refresh occurs, including the instant of expiry. Actions: two decision
requests are one and its retry or rival, of three signal requests two race for
the index and the third sees the outcome.

Bot: two chats so that a message can reach one and not the other, and two users
who may share one; two entries of a pair, so that the cooldown is about another
signal than the one sent, and a hold, whose daily limit the run checks across
restarts (that it also binds a second hold of the pair is in the proof only); an
update and one that is redelivered with it; the clock passes a day, the
retention times and the life of a button. Alerts: a limit of one makes every
second row wait; rows arrive above, at and below the cursor; the retention and
reopening times run out within the clock. Forward: four phases are a plan, an
open, a second plan over what it left and its open, or a repetition or omission
of any; a quote may be missing in one leg, which breaks a hedge.

Runs that find a violation (each is a finding in `PROJECT.json`):

| run | what the code does |
|---|---|
| chart_window | a full-life chart request replays a longer window over the same files; the refresh resumes from a checkpoint of its own window, keeps the chart's rows before it, and publishes a replay from scratch of neither; nothing overlaps and nothing fails |
| stuck_update | an update whose answer Telegram always refuses comes first in every cycle, and nothing behind it runs (until Telegram drops the update after 24 hours) |
| alert_lost | a root nobody received is unmarked, but the cursor has passed it |
| forward_stop | stop loss and take profit need a spread at entry that the paper broker never records |

The models show further behaviours of this kind that no run is kept for. The
first six were found by TLC as counterexamples, by properties that were not kept
or by one of the kept ones in another instance; the rest are read off a model:

* A refresh and a request over the same days replay a pair with no lock
  (`ui/app.py:1734`, `unified_runtime.py:1696`,
  `signal_replay/incremental.py:364`): an older output may end up under a newer
  `latest.json`, or one thread's rows in the other's file, and later appends
  keep the hole (`RefreshIsDeterministic` fails also in the instance of the run
  shared). The checkpoints stay right.
* After a correction inside the overlap a periodic checkpoint of before it stays
  (`incremental.py:250`) and a later overlap replay resumes it.
* After a restart with other settings and no new data the replay of the old
  settings is reused: the watermark is compared before the engine signature
  (`incremental.py:190`).
* A forced rebuild after a backfill is undone by the next scheduled refresh
  (`ui/app.py:1762`).
* Two workers that read the same expired lease both take it
  (`storage/repositories.py:99`), and both refresh until one of them looks again.
* Two overlapping decision requests with one key are both recorded and both
  answered ok (`ui/decision_actions.py:61`).
* With corrections and a failed cursor save (`runner.py`, `save_cursor_state`
  after the upsert) the report that a minute was replaced is lost, the next
  ingest reports an append, and the replay keeps rows of the old bar.
* If that minute is older than the digested tail, the watermark does not change
  either and the old replay is reused for ever.
* A refresh longer than the lease is not renewed while it runs
  (`refresh_scheduler.py:135`); another worker takes the lease and refreshes as
  well. So the lease does not make the refresh a singleton, and no property here
  says that it does.
* A scheduler thread that ends by an exception is not restarted while its process
  lives (`refresh_scheduler.py:55`); `SomeoneRefreshes` is about the threads that
  are left.
* A decision request that dies between its two appends leaves an action without
  an execution; its retry is answered "duplicate" with an empty execution.
* Two decision requests whose appends interleave leave the last lines of the
  two logs from different requests; the views join the last lines.
* Bot: after a restart the follow-up stages are told again (`Load`); a crash in a
  broadcast repeats it; a chat whose call failed does not get a message another
  chat got; a message all of whose calls raised is sent again though it may have
  arrived (`telegram_worker.py:1146`), and the buttons of a call that raised are
  answered "already handled or expired" (`:647`).
* Alerts: an alert all of whose calls raised is unmarked though it may have
  arrived, and a root at the cursor is then told again
  (`telegram_root_broadcast.py:352`); a root is told again when its selected
  event changes while it is at the cursor, or when its mark expires there;
  shocks and stories beyond the limit of a cycle are passed by their cursors; a
  story gets another alert when a later row joins it after its lead; more roots
  of one instant than a load holds block that feed.
* Forward: the date of entry is not reset when a position is closed; a closed
  position stays listed and comes back without the entry gates; results of closed
  futures reach neither cash nor equity; a missing stock quote on a day of the
  soft rebalance plans no contracts; a torn `state.json` stops the engine for
  good; the equity curve gets a second point for a day whose phase is repeated or
  crashed before its save.

`CHECK_DEADLOCK FALSE` is set for the replay runs, where the exchange may stop
printing minutes when the bound is reached, for the action runs, which end
when every request has been answered, and for the forward runs, where days and
calls are bounded and a torn state file stops the engine.


### Fairness

Replay: the steps of a refresh never cease (the scheduler starts a refresh every
interval and the loop runs each to its end). Nothing is assumed of the exchange
or of failures. Scheduler: weak fairness of each thread and of time, strong
fairness of taking `refresh_lock` (a thread blocked in a lock that is free again
and again gets it), and of manual requests only that one that was started ends.
No process is assumed to be restarted. Bot: its next step is always taken
(`run_forever` catches everything and goes on; a crashed process is started
anew), which with a bounded number of faults says that calls fail for a while
and not for ever. Alerts: the same, written as `[]<><<Worker>>_vars` because a
step of the worker is always enabled. Operators, feeds and tables may stop at
any time. Forward has no fairness: nobody need call a phase.

## 4. Proofs

Every safety invariant, action property and refinement that a passing run
checks is also a theorem, for every value of the constants that the named
assumptions of its module allow. Three hypotheses are stated with the theorems
that need them; each is met by the run that checks the same property:

| hypothesis | where | why the code justifies it, and what goes wrong without it |
|---|---|---|
| `AppendOnlyStore` | the exactness of the replay files (`IncrementalReplay_proofs`) | no corrections, backfills or new settings, and an overlap that reaches at most two days back (by default 180 minutes; a cold start fetches from two days before the last). Corrections leave stale checkpoints (section 3) |
| `SameWindow` | `SharedCheckpoints` | all callers load from the same first minute: the refresh and `_unified_snapshot` do, the chart of another window does not, and the run chart_window shows what it leaves behind |
| `GoneForGood` | `WorkerAnswersTruly` | a signal the backend calls gone stays gone: `intent_superseded_or_stale` (`ui/app.py:4877`) is answered for an intent that is not the current one of its pair, and an intent's id is a digest of run, minute, pair and action (`signals_ack.py:16`), which a later projection does not have again |

### Induction

The library's induction theorems take an operator as a parameter and cannot be
used with the provers at hand. Where a proof needs induction over data it goes
by a set instead of a predicate: the numbers, or the subsets of a finite set,
that have a property; if some do not, there is a least one (by
`NatLessThanWellFounded` or `FS_StrictSubsetOrderingWellFounded` with `WFMin`),
and everything below it has the property (`TimelineInduction`,
`SubsetInduction`, `CountInduction`). A recursive function is `CHOOSE f : f =
[...]`; that such a function exists is proved by the same induction, from
partial ones, and then it unfolds as written (`ReplayUnfolds`, `LoopUnfolds`).
Sums are folds over a set in an order the library chooses; lemmas show that they
do not depend on it (`SumFirst`, `SumLinear`, `SumRestrict`).

### The replay

`ReplayFrames_proofs` begins with the store: its operators stay in their types;
least and last minutes; what the day cutoff and the watermark do to a series
that grows (`Grows`). Then, for any engine: a run unfolds to the engine's steps;
resumed from a state of the run from scratch it is the run from scratch
(`ResumedRun`); rows that come later do not change the states before them
(`RunGrows`); a frame resumed from such a state is a replay from scratch. Of the
engine it is assumed that a step stays among the states and that the signal in
flight after it is none, the one before it or one of this minute
(`EngineAssumption`, which TLC evaluates for SignalEngine).

`IncrementalReplay_proofs`, with no hypothesis: `TypeCorrect`, `PhasesHold`,
`CheckpointsSettled` from the inductive invariant `IInv`. `SettledCheckpoints`
alone is not inductive: a checkpoint is written a step after it was computed,
so the plan in the refresh's hands must be known to be settled, and that the
plan is of this run and not left from another is `PhasesOK`.
`OldCorrectionsRebuild`: a reported change older than the overlap is never
resumed over. The report is made a step or more before the replay, so its
invariant says what a mutation in the refresh's hands tells (`RetroReported`).

Under `AppendOnlyStore`: `OutputHolds`, `CheckpointsHold`, `LatestOnlyAdvances`,
`StoreIsPublished` and `Implements`. The store is what the exchange has from
some day on (`StoreInv`: a fetch starts at a cursor that may be behind the store,
and must bring nothing older than the store has), and every checkpoint, on disk
or in a plan, is on the run of the store (`RunInv`), because a store that grows
leaves the run before its last minute alone and every way to resume starts from
a checkpoint. `AppendInv` adds that the files are those of a refresh that saw
some earlier store (`FilesAt`), that what is published is the replay of some
earlier store and the mutation of a refresh under way is later (`ServedAt`), and
that a plan is the replay of the store as it is (`PlansFit`). Between two writes
the files are of different refreshes; that the older ones are still states of
the run is `RunInv`. For `Implements` a step that publishes is the step of
PublishedReplay whose minute is the last of the store it replayed, and
everything else is a stutter or growth.

`SharedReplay_proofs`, for any number of requests that overlap in any way:
`SharedTypes`, whose invariant also says that a caller has what its place needs
(`Coherent`: a file left to write, and one open exactly while it fills and moves
it); and, under `SameWindow`, `SharedCheckpoints`. Its invariant `SharedInv` says
of every checkpoint, whether in a file, under a temporary name or in a caller's
hands, that its state is that of the run of the store at its minute
(`FileStates`, `JobStates`). A caller has rows of an earlier store, whose run is
an initial part of this one, and resumes only from checkpoints, so what it
computes is on the run too, and it does not matter who moves it where. Nothing of
the kind holds of the output, which is why only the checkpoints are claimed.

### The scheduler

`RefreshScheduler_proofs`: `TypeCorrect`; `FollowersOwnNothing`, for any number
of workers and with overlapping operations: the row names a worker only from
the moment its own commit put it there, and the worker leaves the states in
which it acts on it only after a read that finds another name. That at most one
worker refreshes is not claimed: it is false (section 3).

### Operator actions

`OperatorActions_proofs`: `SignalsOnce`, the refinement of AtMostOnce by the
signal endpoint, for any number of requests, keys and faults. The invariant
`SignalInv` ties stages to answers and to the table: a request that has not
inserted has no row (so that a row it finds is another's), one that is about to
say "ok" has its row. Each action is then a step of AtMostOnce or a stutter;
the decision endpoint's steps are stutters, and `Insert` is `Effect` because
the index check and the insertion are one step. The theorem needs only that
the two kinds of requests are disjoint and that keys are not requests.
`ActionsTypes`, `AuditsAlwaysAgree` and `LateRetriesRecordNothing` are about the
decision endpoint's files. A request enters the action log only as it leaves
"fresh", and a log that can be read now could be read before and gained exactly
the lines appended since, because a torn line stays (`AuditInv`); a request
whose key was logged when it was sent finds it, so it never gets past "loaded"
and neither log names it (`LateInv`).

### The bot

`TelegramWorker_proofs`, for any chats, signals, moves of the feed, retention
times, updates and faults:

* `WorkerTypes`; `WorkerSkipsNoUpdate`, from the invariant that the offset in
  memory is the saved one, that the batch starts right after it, and that of the
  batch everything before the update at hand has been handled.
* `WorkerLosesNoButton`, from the invariant that the saved buttons are those in
  memory or, during a broadcast, fewer, and that a post that counts as recorded
  or stale is so. `WorkerAnswersTruly` adds that a button in a chat is still
  known, or spent, or of an earlier life of the process, or came with a call that
  raised (`PressInv`).
* `WorkerSendsOnce` (`OncePerLife`): within a life of the process a user who got
  a signal or a stage of its follow-up in a message with a confirmed call gets
  it again only after the retention time, and an out-of-range update again only
  after the signal itself was sent anew; a chat hears at most one health-check a
  day for each fault and one more. The marks cover the log: every entry of the
  log with a confirmed call is past its retention or has a mark at least as new
  (`MarksCover`), and what is due now shares no mark with it (`TodoFresh`).
* `WorkerKeepsSavedLimits`: the file's marks, cooldowns and daily limits are
  those in memory or older (`LimitsFit`), so what a step of sending finds free
  in memory is free in the file.

`AlertFeed_proofs`, for any rows, limits, load factors, failed calls and
crashes:

* `RootsRespectLimit`. The invariant `CursorInv` says of the state in memory and
  of the file that a root behind the cursor, and a root whose fingerprint is
  marked, was put to the chats, came late, was left out or, in memory, is still
  queued; and that the file's cursor is not ahead of memory's, so that a row
  late for the file is late for memory. The step that matters is the policy's:
  the rows the loop comes to are an initial part of the load
  (`ReachedIsDownward`), so a row behind the new cursor was behind the old one,
  left out of the load, marked, or is told now (`RootOutcome`).
* `AlertTypes`. That no policy exceeds its limit is counting (`FewBelow`,
  `FewAbove`); that the counts of a topic stay in range is that they are no more
  than the shocks behind the cursor (`Sound`), since a shock at or behind it is
  not loaded again. The loop over the shocks keeps `LoopInv` from turn to turn
  (`ShockTurn`) and so to its end (`LoopHolds`).
* `EpisodesAlwaysHold`. A topic has come to every alert told of it, or further
  (`Tops`), so the next alert follows all of them (`NextTopicFollows`); `StoryInv`
  says so of what was told and of what is queued, in the order it will be sent.
  An alert with no confirmed call is unmarked, but its topic goes on.
* `AlertsGoOnce`. Whatever a chat got in this life with a confirmed call to some
  chat, and whatever the file has, is covered by the mark in memory, until it
  expires (`MarkInv`); an alert is queued only without a mark, so it finds both
  clear. A mark is taken away when no call was confirmed: what may have arrived
  even so is not covered and may come again.

### The forward test

`ForwardEngine_proofs`, for any pairs, lots, quotes, limits, phases in any order,
and crashes:

* `ForwardFillsOnce` and `ForwardLogsFirst`: fills have the shape of orders and
  an order that is still open has no fill of its plan (`FilledOnce`); every fill
  of the saved state is logged, and what memory has and the logs have not is
  among the lines still to be appended (`Coming`). Nothing of the planning or of
  the prices is used.
* `ForwardTypeCorrect` (`TypeInv`): sums over any finite set of pairs, whole
  divisions and the arithmetic of a fill stay numbers.
* `ForwardNeverShort` (`CarryInv`): an order never takes a leg beyond zero, and
  any part of the orders may be filled. `ForwardHedgeRestored` and
  `ForwardTurnoverHeld` (`ViewInv`): a position stays what the last plan saw until
  the next open. The cap scales increases by what the reductions leave, rounded
  down for each pair, so their sum stays below it (`ScaledSum`).
* `ForwardBooksAgree` (`BooksInv`): a fill changes leg, cash, cost and realised
  result by amounts that balance, and the sums over all fills follow by
  induction. `ForwardUnhedgedIsAlerted` (`AlertInv`): a hedge that is not whole
  was broken by the fill of one leg for want of a quote, of which the same phase
  appends an alert before it saves; until a plan repairs it, no order touches it.

### Model-checked only

Liveness: `CatchesUp`, `StaleLeaderStepsDown`, `SomeoneRefreshes`,
`HeartbeatArrives`, `SignalArrives` and `RootIsTried` need fairness and ENABLED,
which the prover has not. The four runs that end in a violation are
counterexamples and need none. That `EngineStep` of SignalEngine meets
`EngineAssumption` is evaluated by TLC for the instances of the runs.

## 5. Not modelled

* HPO runtime: a daemon thread per run and status files. What matters is one
  hazard, a thread lost at a restart that nobody notices; a model would restate
  it. The objective is numerical.
* MOEX client: retries over a list of hosts. The exchange is an external source
  whose answers may fail; the shared failover window costs time, not
  correctness.
* Risk and delay gates: tables over decimal fields, without state.
* The making of news, roots and shocks: scraping, scoring, linking, detection.
* Formulas and statistics (ranking, costs, floor rate, backtest accounting),
  text handling, rendering, reports, configuration: numerical or textual, they
  carry no protocol.
* Of modelled components what their sections and the notes in `PROJECT.json`
  name.

What would come next: liveness under a prover that has ENABLED and fairness; the
failover window; the backtest's portfolio engine against the rebalance
controller.
