---------------------------- MODULE OperatorActions ----------------------------
(***************************************************************************)
(* The two endpoints that record what an operator did, each under an       *)
(* idempotency key, in the request threads of several server processes.    *)
(*                                                                         *)
(* The decision endpoint appends a line to an action log and a line to an  *)
(* execution log, after looking the key up in what it has just read of     *)
(* them.  The signal endpoint inserts a row into a table with a unique     *)
(* index.  One decision and one pair: keys of others never meet.           *)
(*                                                                         *)
(* A request that carries no key is given a fresh one, which is the        *)
(* request itself here.  Requests refused before they touch any state      *)
(* (unknown decision, invalid action, missing key) are not modelled.       *)
(***************************************************************************)
EXTENDS Naturals, Sequences, Functions

CONSTANTS
  Decisions,  \* requests for the decision endpoint
  Signals,    \* requests for the signal endpoint
  Keys,       \* keys a client may send with several requests
  Nobody,     \* absence of a request or key
  MaxFaults   \* bound: crashes, failed appends and database errors

Requests == Decisions \cup Signals

ASSUME RequestsAssumption ==
  /\ Decisions \cap Signals = {}
  /\ Keys \cap Requests = {}
  /\ Nobody \notin Keys \cup Requests

ASSUME FaultsAssumption == MaxFaults \in Nat

VARIABLES
  key,         \* key of each request
  stage,       \* what each request does next
  found,       \* whether a request's key was in the action log it read
  answer,      \* what each request was answered
  actions,     \* decision_actions.jsonl
  executions,  \* execution_requests.jsonl
  rows,        \* signal_executions
  faults,
  known        \* history: keys in the action log when the request was sent

logs == <<actions, executions>>
vars == <<key, stage, found, answer, actions, executions, rows, faults, known>>

Stages == {"idle", "sent", "loaded", "fresh", "half", "stored", "conflict", "over"}

Answers == {"nothing", "ok", "duplicate", "no answer"}

\* Mutant: the line does not carry its key.
EntryUnkeyed(r) == [key |-> Nobody, req |-> r]

Entry(r) == [key |-> key[r], req |-> r]

\* A line whose write stopped in the middle.
Torn == [key |-> Nobody, req |-> Nobody]

Lines == [key : Keys \cup Requests, req : Requests] \cup {Torn}

\* The whole log is parsed line by line: one bad line and nobody can read it.
Readable(log) == Torn \notin Range(log)

\* A line appended after a torn one only lengthens it.
AddLine(log, line) ==
  IF log # <<>> /\ log[Len(log)] = Torn THEN log ELSE Append(log, line)

KeysIn(log) == {line.key : line \in Range(log)}

Rows(k) == {row \in rows : row.key = k}

InFlight(r) == stage[r] \notin {"idle", "over"}

Init ==
  /\ key = [r \in Requests |-> Nobody]
  /\ stage = [r \in Requests |-> "idle"]
  /\ found = [r \in Requests |-> FALSE]
  /\ answer = [r \in Requests |-> "nothing"]
  /\ actions = <<>>
  /\ executions = <<>>
  /\ rows = {}
  /\ faults = 0
  /\ known = [r \in Requests |-> {}]

\* A click, a retry after a timeout, or a repeated callback.
Send(r) ==
  /\ stage[r] = "idle"
  /\ \E k \in Keys \cup {r} : key' = [key EXCEPT ![r] = k]
  /\ stage' = [stage EXCEPT ![r] = "sent"]
  /\ known' = [known EXCEPT ![r] = KeysIn(actions)]
  /\ UNCHANGED <<found, answer, actions, executions, rows, faults>>

Go(r, from, to) ==
  /\ stage[r] = from
  /\ stage' = [stage EXCEPT ![r] = to]

Reply(r, status) == answer' = [answer EXCEPT ![r] = status]

(***************************************************************************)
(* The decision endpoint.                                                  *)
(***************************************************************************)
\* Mutant: searches the execution log for the key.
RecordedExecution(r) == key[r] \in KeysIn(executions)

Recorded(r) == key[r] \in KeysIn(actions)

ReadActions(r) ==
  /\ Go(r, "sent", "loaded")
  /\ Readable(actions)
  /\ found' = [found EXCEPT ![r] = Recorded(r)]
  /\ UNCHANGED <<key, answer, logs, rows, faults, known>>

\* The execution log is read in either case, and searched when the key is in
\* the action log that was read before it.
Scan(r) ==
  /\ Readable(executions)
  /\ IF found[r]
     THEN Go(r, "loaded", "over") /\ Reply(r, "duplicate")
     ELSE Go(r, "loaded", "fresh") /\ UNCHANGED answer
  /\ UNCHANGED <<key, found, logs, rows, faults, known>>

\* A log that cannot be parsed fails the request, as do all after it.
LoadFails(r) ==
  /\ \/ Go(r, "sent", "over") /\ ~Readable(actions)
     \/ Go(r, "loaded", "over") /\ ~Readable(executions)
  /\ Reply(r, "no answer")
  /\ UNCHANGED <<key, found, logs, rows, faults, known>>

\* Mutant: logs the execution before the action.
ExecutionFirst(r) ==
  /\ Go(r, "fresh", "half")
  /\ executions' = AddLine(executions, Entry(r))
  /\ UNCHANGED <<key, found, answer, actions, rows, faults, known>>

AppendAction(r) ==
  /\ Go(r, "fresh", "half")
  /\ actions' = AddLine(actions, Entry(r))
  /\ UNCHANGED <<key, found, answer, executions, rows, faults, known>>

AppendExecution(r) ==
  /\ Go(r, "half", "over")
  /\ executions' = AddLine(executions, Entry(r))
  /\ Reply(r, "ok")
  /\ UNCHANGED <<key, found, actions, rows, faults, known>>

\* The disk refuses the line, or takes a part of it.
AppendFails(r) ==
  /\ faults < MaxFaults
  /\ \/ Go(r, "fresh", "over") /\ actions' \in {actions, AddLine(actions, Torn)}
        /\ UNCHANGED executions
     \/ Go(r, "half", "over") /\ executions' \in {executions, AddLine(executions, Torn)}
        /\ UNCHANGED actions
  /\ Reply(r, "no answer")
  /\ faults' = faults + 1
  /\ UNCHANGED <<key, found, rows, known>>

(***************************************************************************)
(* The signal endpoint.                                                    *)
(***************************************************************************)
Select(r) ==
  /\ IF Rows(key[r]) # {}
     THEN Go(r, "sent", "over") /\ Reply(r, "duplicate")
     ELSE Go(r, "sent", "fresh") /\ UNCHANGED answer
  /\ UNCHANGED <<key, found, logs, rows, faults, known>>

\* Mutant: no unique index on the table.
InsertUnchecked(r) ==
  /\ Go(r, "fresh", "stored")
  /\ rows' = rows \cup {Entry(r)}
  /\ UNCHANGED <<key, found, answer, logs, faults, known>>

\* INSERT and COMMIT against the unique index.
Insert(r) ==
  /\ IF Rows(key[r]) = {}
     THEN Go(r, "fresh", "stored") /\ rows' = rows \cup {Entry(r)}
     ELSE Go(r, "fresh", "conflict") /\ UNCHANGED rows
  /\ UNCHANGED <<key, found, answer, logs, faults, known>>

Stored(r) ==
  /\ Go(r, "stored", "over")
  /\ Reply(r, "ok")
  /\ UNCHANGED <<key, found, logs, rows, faults, known>>

\* After the IntegrityError: roll back and look again.
Recheck(r) ==
  /\ Go(r, "conflict", "over")
  /\ Reply(r, IF Rows(key[r]) # {} THEN "duplicate" ELSE "no answer")
  /\ UNCHANGED <<key, found, logs, rows, faults, known>>

DatabaseError(r) ==
  /\ faults < MaxFaults
  /\ \E s \in {"sent", "fresh", "conflict"} : Go(r, s, "over")
  /\ Reply(r, "no answer")
  /\ faults' = faults + 1
  /\ UNCHANGED <<key, found, logs, rows, known>>

(***************************************************************************)
(* A server process dies with the requests it was serving; what they       *)
(* appended or committed stays.                                            *)
(***************************************************************************)
Crash ==
  /\ faults < MaxFaults
  /\ \E R \in SUBSET {r \in Requests : InFlight(r)} :
       /\ R # {}
       /\ stage' = [r \in Requests |-> IF r \in R THEN "over" ELSE stage[r]]
       /\ answer' = [r \in Requests |-> IF r \in R THEN "no answer" ELSE answer[r]]
  /\ faults' = faults + 1
  /\ UNCHANGED <<key, found, logs, rows, known>>

Decide(r) ==
  \/ ReadActions(r) \/ Scan(r) \/ LoadFails(r)
  \/ AppendAction(r) \/ AppendExecution(r) \/ AppendFails(r)

Act(r) ==
  Select(r) \/ Insert(r) \/ Stored(r) \/ Recheck(r) \/ DatabaseError(r)

Next ==
  \/ \E r \in Requests : Send(r)
  \/ \E r \in Decisions : Decide(r)
  \/ \E r \in Signals : Act(r)
  \/ Crash

Spec == Init /\ [][Next]_vars

(***************************************************************************)
(* Properties.                                                             *)
(***************************************************************************)
\* Every variable has its type.
TypeOK ==
  /\ key \in [Requests -> Keys \cup Requests \cup {Nobody}]
  /\ stage \in [Requests -> Stages]
  /\ found \in [Requests -> BOOLEAN]
  /\ answer \in [Requests -> Answers]
  /\ actions \in Seq(Lines)
  /\ executions \in Seq(Lines)
  /\ rows \subseteq [key : Keys \cup Requests, req : Requests]
  /\ faults \in 0 .. MaxFaults
  /\ known \in [Requests -> SUBSET (Keys \cup Requests \cup {Nobody})]

Authors(log) == {line.req : line \in Range(log)} \ {Nobody}

\* The two audit logs tell the same story while they can be read: what was
\* asked to be executed was recorded as an action, and an action stands alone
\* only while its request is between the two appends or after it failed there.
AuditsAgree ==
  Readable(actions) /\ Readable(executions) =>
    /\ Authors(executions) \subseteq Authors(actions)
    /\ \A r \in Authors(actions) \ Authors(executions) :
         stage[r] = "half" \/ answer[r] = "no answer"
    /\ \A r \in Decisions : answer[r] = "ok" => r \in Authors(executions)

\* A decision sent with a key that was already in the action log, even by a
\* request that died before its execution was logged, records nothing more.
LateRetryRecordsNothing ==
  \A r \in Decisions :
    key[r] \in known[r] => r \notin Authors(actions) \cup Authors(executions)

Signalled(f) == [r \in Signals |-> f[r]]

Once == INSTANCE AtMostOnce WITH
  Requests <- Signals, key <- Signalled(key), done <- rows, told <- Signalled(answer)

\* The signal endpoint keeps the promise of its keys: however requests race,
\* fail or are repeated, one row per key, "ok" for its author only and
\* "duplicate" only for others.
SignalsAtMostOnce == Once!Spec

\* The contract of the decision endpoint: a repeated key is answered
\* "duplicate", so no two execution requests carry one key.
DecisionOnce ==
  \A i, j \in DOMAIN executions :
    executions[i].key = executions[j].key => i = j
================================================================================
