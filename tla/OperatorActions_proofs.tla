------------------------ MODULE OperatorActions_proofs ------------------------
(***************************************************************************)
(* The signal endpoint keeps the promise of its idempotency keys, the two  *)
(* audit logs agree, and a late retry of a decision records nothing, for   *)
(* any number of requests, keys and faults.                                *)
(***************************************************************************)
EXTENDS OperatorActions, TLAPS

(***************************************************************************)
(* What a signal request at each stage knows of the table: one that has    *)
(* not inserted has no row, and one that reports success has its row.      *)
(***************************************************************************)
KeysFit ==
  /\ key \in [Requests -> Keys \cup Requests \cup {Nobody}]
  /\ \A r \in Requests : key[r] = Nobody <=> stage[r] = "idle"

AnswersFit ==
  /\ stage \in [Requests -> Stages]
  /\ answer \in [Requests -> Answers]
  /\ \A r \in Requests : answer[r] = "nothing" <=> stage[r] # "over"

RowsFit ==
  \A r \in Signals :
    /\ stage[r] = "stored" => Entry(r) \in rows
    /\ stage[r] \notin {"stored", "over"} => \A row \in rows : row.req # r

SignalInv == KeysFit /\ AnswersFit /\ RowsFit

LEMMA SignalInit == Init => SignalInv
<1> SUFFICES ASSUME Init PROVE SignalInv
  OBVIOUS
<1> QED
  BY RequestsAssumption
  DEF Init, SignalInv, KeysFit, AnswersFit, RowsFit, Stages, Answers, Requests

(***************************************************************************)
(* No step disturbs the invariant.                                         *)
(***************************************************************************)
LEMMA SendInv ==
  ASSUME SignalInv, NEW r \in Requests, Send(r)
  PROVE  SignalInv'
<1>1. PICK k \in Keys \cup {r} : key' = [key EXCEPT ![r] = k]
  BY DEF Send
<1>2. k # Nobody
  BY <1>1, RequestsAssumption
<1>3. KeysFit'
  BY <1>1, <1>2 DEF Send, SignalInv, KeysFit, AnswersFit
<1>4. AnswersFit'
  BY DEF Send, SignalInv, AnswersFit, Stages
<1>5. RowsFit'
  BY <1>1 DEF Send, SignalInv, KeysFit, AnswersFit, RowsFit, Entry, Requests
<1> QED BY <1>3, <1>4, <1>5 DEF SignalInv

(***************************************************************************)
(* What all steps of a request in flight have in common: it moves on       *)
(* without an answer, or ends with one.                                    *)
(***************************************************************************)
Progress(r) ==
  /\ UNCHANGED key
  /\ stage[r] \notin {"idle", "over"}
  /\ \/ /\ \E t \in Stages \ {"idle", "over"} : stage' = [stage EXCEPT ![r] = t]
        /\ UNCHANGED answer
     \/ /\ stage' = [stage EXCEPT ![r] = "over"]
        /\ \E a \in Answers \ {"nothing"} : answer' = [answer EXCEPT ![r] = a]

LEMMA ProgressInv ==
  ASSUME SignalInv, NEW r \in Requests, Progress(r)
  PROVE  KeysFit' /\ AnswersFit'
<1>1. KeysFit'
  BY DEF Progress, SignalInv, KeysFit, AnswersFit
<1>2. AnswersFit'
  BY DEF Progress, SignalInv, AnswersFit, Stages, Answers
<1> QED BY <1>1, <1>2

LEMMA DecideProgress ==
  ASSUME NEW r \in Decisions, Decide(r)
  PROVE  Progress(r) /\ UNCHANGED rows
<1>1. CASE ReadActions(r)
  BY <1>1 DEF ReadActions, Progress, Go, Stages
<1>2. CASE Scan(r)
  <2>1. CASE found[r]
    BY <1>2, <2>1 DEF Scan, Progress, Go, Reply, Answers
  <2>2. CASE ~found[r]
    BY <1>2, <2>2 DEF Scan, Progress, Go, Stages
  <2> QED BY <2>1, <2>2
<1>3. CASE LoadFails(r)
  BY <1>3 DEF LoadFails, Progress, Go, Reply, Answers
<1>4. CASE AppendAction(r)
  BY <1>4 DEF AppendAction, Progress, Go, Stages
<1>5. CASE AppendExecution(r)
  BY <1>5 DEF AppendExecution, Progress, Go, Reply, Answers
<1>6. CASE AppendFails(r)
  BY <1>6 DEF AppendFails, Progress, Go, Reply, Answers
<1> QED BY <1>1, <1>2, <1>3, <1>4, <1>5, <1>6 DEF Decide

LEMMA ActProgress ==
  ASSUME NEW r \in Signals, Act(r)
  PROVE  Progress(r)
<1>1. CASE Select(r)
  <2>1. CASE Rows(key[r]) # {}
    BY <1>1, <2>1 DEF Select, Progress, Go, Reply, Answers
  <2>2. CASE Rows(key[r]) = {}
    BY <1>1, <2>2 DEF Select, Progress, Go, Stages
  <2> QED BY <2>1, <2>2
<1>2. CASE Insert(r)
  <2>1. \E t \in {"stored", "conflict"} : Go(r, "fresh", t)
    BY <1>2 DEF Insert
  <2>2. UNCHANGED <<key, answer>>
    BY <1>2 DEF Insert
  <2> QED BY <2>1, <2>2 DEF Progress, Go, Stages
<1>3. CASE Stored(r)
  BY <1>3 DEF Stored, Progress, Go, Reply, Answers
<1>4. CASE Recheck(r)
  <2>1. PICK a \in {"duplicate", "no answer"} : Reply(r, a)
    BY <1>4 DEF Recheck
  <2>2. Go(r, "conflict", "over") /\ UNCHANGED key
    BY <1>4 DEF Recheck
  <2> QED BY <2>1, <2>2 DEF Progress, Go, Reply, Answers
<1>5. CASE DatabaseError(r)
  BY <1>5 DEF DatabaseError, Progress, Go, Reply, Answers
<1> QED BY <1>1, <1>2, <1>3, <1>4, <1>5 DEF Act

LEMMA DecideInv ==
  ASSUME SignalInv, NEW r \in Decisions, Decide(r)
  PROVE  SignalInv'
<1>1. r \in Requests /\ r \notin Signals
  BY RequestsAssumption DEF Requests
<1>2. Progress(r) /\ UNCHANGED rows
  BY DecideProgress
<1>3. RowsFit'
  BY <1>1, <1>2 DEF Progress, SignalInv, AnswersFit, RowsFit, Entry, Requests
<1> QED BY <1>1, <1>2, <1>3, ProgressInv DEF SignalInv

LEMMA ActInv ==
  ASSUME SignalInv, NEW r \in Signals, Act(r)
  PROVE  SignalInv'
<1>1. r \in Requests
  BY DEF Requests
<1>2. Progress(r)
  BY ActProgress
<1>3. CASE Insert(r)
  <2>1. RowsFit'
    BY <1>1, <1>3 DEF SignalInv, AnswersFit, RowsFit, Insert, Go, Entry, Requests
  <2> QED BY <1>1, <1>2, <2>1, ProgressInv DEF SignalInv
<1>4. CASE Select(r) \/ Stored(r) \/ Recheck(r) \/ DatabaseError(r)
  <2>1. UNCHANGED <<key, rows>> /\ stage' \in {[stage EXCEPT ![r] = t] : t \in {"fresh", "over"}}
    BY <1>4 DEF Select, Stored, Recheck, DatabaseError, Go
  <2>2. stage[r] \notin {"idle", "over"} /\ (stage[r] = "stored" => stage'[r] = "over")
    BY <1>4, <1>1 DEF Select, Stored, Recheck, DatabaseError, Go, SignalInv, AnswersFit
  <2>3. RowsFit'
    BY <1>1, <2>1, <2>2 DEF SignalInv, AnswersFit, RowsFit, Entry, Requests
  <2> QED BY <1>1, <1>2, <2>3, ProgressInv DEF SignalInv
<1> QED BY <1>3, <1>4 DEF Act

LEMMA CrashInv ==
  ASSUME SignalInv, Crash
  PROVE  SignalInv'
<1>1. KeysFit'
  BY DEF Crash, SignalInv, KeysFit, AnswersFit, InFlight
<1>2. AnswersFit'
  BY DEF Crash, SignalInv, AnswersFit, InFlight, Stages, Answers
<1>3. RowsFit'
  BY DEF Crash, SignalInv, AnswersFit, RowsFit, InFlight, Entry, Requests
<1> QED BY <1>1, <1>2, <1>3 DEF SignalInv

LEMMA NextInv == SignalInv /\ [Next]_vars => SignalInv'
<1> SUFFICES ASSUME SignalInv, [Next]_vars PROVE SignalInv'
  OBVIOUS
<1>1. CASE UNCHANGED vars
  BY <1>1 DEF vars, SignalInv, KeysFit, AnswersFit, RowsFit, Entry
<1> QED BY <1>1, SendInv, DecideInv, ActInv, CrashInv DEF Next

(***************************************************************************)
(* Every step of the endpoints is a step of the promise, or changes        *)
(* nothing it speaks of.                                                   *)
(***************************************************************************)
LEMMA SendImplements ==
  ASSUME SignalInv, NEW r \in Requests, Send(r)
  PROVE  [Once!Next]_Once!vars
<1>1. PICK k \in Keys \cup {r} : key' = [key EXCEPT ![r] = k]
  BY DEF Send
<1>2. UNCHANGED <<rows, answer>>
  BY DEF Send
<1>3. CASE r \in Signals
  <2>1. Signalled(key)[r] = Nobody
    BY <1>3 DEF Signalled, Send, SignalInv, KeysFit
  <2>2. Signalled(key)' = [Signalled(key) EXCEPT ![r] = k]
    BY <1>1, <1>3 DEF Signalled, SignalInv, KeysFit, Requests
  <2>3. Signalled(answer)' = Signalled(answer)
    BY <1>2 DEF Signalled
  <2>4. Once!Send(r)
    BY <1>2, <2>1, <2>2, <2>3 DEF Once!Send
  <2> QED BY <1>3, <2>4 DEF Once!Next
<1>4. CASE r \notin Signals
  <2>1. Signalled(key)' = Signalled(key)
    BY <1>1, <1>4 DEF Signalled, SignalInv, KeysFit, Requests
  <2> QED BY <1>2, <2>1 DEF Once!vars, Signalled
<1> QED BY <1>3, <1>4

LEMMA DecideImplements ==
  ASSUME SignalInv, NEW r \in Decisions, Decide(r)
  PROVE  UNCHANGED Once!vars
<1>1. r \in Requests /\ r \notin Signals
  BY RequestsAssumption DEF Requests
<1>2. Progress(r) /\ UNCHANGED rows
  BY DecideProgress
<1>3. Signalled(answer)' = Signalled(answer)
  BY <1>1, <1>2 DEF Signalled, Progress, SignalInv, AnswersFit, Requests
<1> QED BY <1>2, <1>3 DEF Progress, Once!vars, Signalled

\* A reply the signal endpoint gives is a reply of the promise.
LEMMA ReplyImplements ==
  ASSUME SignalInv, NEW r \in Signals, NEW a, Reply(r, a), UNCHANGED <<key, rows>>,
         stage[r] \notin {"idle", "over"},
         \/ a = "ok" /\ Entry(r) \in rows
         \/ a = "duplicate" /\ Rows(key[r]) # {} /\ \A row \in rows : row.req # r
         \/ a = "no answer"
  PROVE  Once!Next
<1>1. r \in Requests
  BY DEF Requests
<1>2. /\ Signalled(answer)[r] = "nothing"
      /\ Signalled(answer)' = [Signalled(answer) EXCEPT ![r] = a]
      /\ Signalled(key)' = Signalled(key)
      /\ Signalled(key)[r] = key[r]
  BY <1>1 DEF Signalled, Reply, SignalInv, AnswersFit, Requests
<1>3. CASE a = "ok" /\ Entry(r) \in rows
  <2>1. Once!Confirm(r)
    BY <1>2, <1>3 DEF Once!Confirm, Entry
  <2> QED BY <2>1 DEF Once!Next
<1>4. CASE a = "duplicate" /\ Rows(key[r]) # {} /\ \A row \in rows : row.req # r
  <2>1. Once!Refuse(r)
    BY <1>2, <1>4 DEF Once!Refuse, Rows
  <2> QED BY <2>1 DEF Once!Next
<1>5. CASE a = "no answer"
  <2>1. Signalled(answer)' = [s \in Signals |-> IF s \in {r} THEN "no answer"
                                                 ELSE Signalled(answer)[s]]
    BY <1>2, <1>5 DEF Signalled
  <2>2. Once!Abandon({r})
    BY <1>2, <2>1 DEF Once!Abandon
  <2> QED BY <2>2 DEF Once!Next
<1> QED BY <1>3, <1>4, <1>5

LEMMA ActImplements ==
  ASSUME SignalInv, NEW r \in Signals, Act(r)
  PROVE  [Once!Next]_Once!vars
<1>1. r \in Requests
  BY DEF Requests
<1>2. CASE Select(r)
  <2>1. CASE Rows(key[r]) # {}
    <3>1. Reply(r, "duplicate") /\ stage[r] = "sent" /\ UNCHANGED <<key, rows>>
      BY <1>2, <2>1 DEF Select, Go
    <3> QED BY <2>1, <3>1, ReplyImplements DEF SignalInv, RowsFit
  <2>2. CASE Rows(key[r]) = {}
    BY <1>2, <2>2 DEF Select, Once!vars, Signalled
  <2> QED BY <2>1, <2>2
<1>3. CASE Insert(r)
  <2>1. UNCHANGED <<key, answer>> /\ stage[r] = "fresh"
    BY <1>3 DEF Insert, Go
  <2>2. CASE Rows(key[r]) = {}
    <3>1. rows' = rows \cup {Entry(r)}
      BY <1>3, <2>2 DEF Insert
    <3>2. /\ Signalled(key)[r] = key[r] /\ key[r] # Nobody
          /\ Signalled(answer)[r] = "nothing"
      BY <1>1, <2>1 DEF Signalled, SignalInv, KeysFit, AnswersFit
    <3>3. Once!Effect(r)
      BY <2>1, <2>2, <3>1, <3>2 DEF Once!Effect, Rows, Entry, Signalled
    <3> QED BY <3>3 DEF Once!Next
  <2>3. CASE Rows(key[r]) # {}
    BY <1>3, <2>1, <2>3 DEF Insert, Once!vars, Signalled
  <2> QED BY <2>2, <2>3
<1>4. CASE Stored(r)
  <2>1. Reply(r, "ok") /\ stage[r] = "stored" /\ UNCHANGED <<key, rows>>
    BY <1>4 DEF Stored, Go
  <2> QED BY <2>1, ReplyImplements DEF SignalInv, RowsFit
<1>5. CASE Recheck(r)
  <2>1. stage[r] = "conflict" /\ UNCHANGED <<key, rows>>
    BY <1>5 DEF Recheck, Go
  <2>2. CASE Rows(key[r]) # {}
    BY <1>5, <2>1, <2>2, ReplyImplements DEF Recheck, SignalInv, RowsFit
  <2>3. CASE Rows(key[r]) = {}
    BY <1>5, <2>1, <2>3, ReplyImplements DEF Recheck
  <2> QED BY <2>2, <2>3
<1>6. CASE DatabaseError(r)
  <2>1. Reply(r, "no answer") /\ UNCHANGED <<key, rows>> /\ stage[r] \notin {"idle", "over"}
    BY <1>6 DEF DatabaseError, Go
  <2> QED BY <2>1, ReplyImplements
<1> QED BY <1>2, <1>3, <1>4, <1>5, <1>6 DEF Act

LEMMA CrashImplements ==
  ASSUME SignalInv, Crash
  PROVE  [Once!Next]_Once!vars
<1>1. PICK R \in SUBSET {r \in Requests : InFlight(r)} :
        answer' = [r \in Requests |-> IF r \in R THEN "no answer" ELSE answer[r]]
  BY DEF Crash
<1>2. UNCHANGED <<key, rows>>
  BY DEF Crash
<1>3. \A r \in R \cap Signals : Signalled(answer)[r] = "nothing"
  BY <1>1 DEF SignalInv, AnswersFit, InFlight, Signalled
<1>4. Signalled(answer)' =
        [r \in Signals |-> IF r \in R \cap Signals THEN "no answer" ELSE Signalled(answer)[r]]
  BY <1>1 DEF Signalled, Requests
<1>5. Once!Abandon(R \cap Signals)
  BY <1>2, <1>3, <1>4 DEF Once!Abandon, Signalled
<1>6. R \cap Signals \in SUBSET Signals
  OBVIOUS
<1> QED BY <1>5, <1>6 DEF Once!Next

(***************************************************************************)
(* The signal endpoint implements the promise: at most one row per key,    *)
(* "ok" for its author only, "duplicate" for others only, under every      *)
(* interleaving of requests, database errors and crashes.                  *)
(***************************************************************************)
THEOREM SignalsOnce == Spec => SignalsAtMostOnce
<1>1. Init => SignalInv /\ Once!Init
  <2> SUFFICES ASSUME Init PROVE Once!Init
    BY SignalInit
  <2> QED BY DEF Init, Once!Init, Signalled, Requests
<1>2. SignalInv /\ [Next]_vars => SignalInv' /\ [Once!Next]_Once!vars
  <2> SUFFICES ASSUME SignalInv, [Next]_vars PROVE [Once!Next]_Once!vars
    BY NextInv
  <2>1. CASE UNCHANGED vars
    BY <2>1 DEF vars, Once!vars, Signalled
  <2> QED
    BY <2>1, SendImplements, DecideImplements, ActImplements, CrashImplements DEF Next
<1> QED BY <1>1, <1>2, PTL DEF Spec, SignalsAtMostOnce, Once!Spec

(***************************************************************************)
(* What appending a line makes of a log: it keeps its lines and gains the  *)
(* new one, or it could not be read before and cannot be read after.       *)
(***************************************************************************)
LEMMA AddLineFacts ==
  ASSUME NEW log \in Seq(Lines), NEW line \in Lines
  PROVE  /\ AddLine(log, line) \in Seq(Lines)
         /\ Range(log) \subseteq Range(AddLine(log, line))
         /\ Range(AddLine(log, line)) \subseteq Range(log) \cup {line}
         /\ Readable(AddLine(log, line)) =>
              Readable(log) /\ Range(AddLine(log, line)) = Range(log) \cup {line}
<1>1. CASE log # <<>> /\ log[Len(log)] = Torn
  <2>1. AddLine(log, line) = log
    BY <1>1 DEF AddLine
  <2>2. Len(log) \in DOMAIN log
    BY <1>1
  <2>3. ~Readable(log)
    BY <1>1, <2>2 DEF Readable, Range
  <2> QED BY <2>1, <2>3
<1>2. CASE ~(log # <<>> /\ log[Len(log)] = Torn)
  <2>1. AddLine(log, line) = Append(log, line)
    BY <1>2 DEF AddLine
  <2>2. Append(log, line) \in Seq(Lines)
    OBVIOUS
  <2>3. Range(Append(log, line)) = Range(log) \cup {line}
    <3>1. DOMAIN Append(log, line) = DOMAIN log \cup {Len(log) + 1}
      OBVIOUS
    <3>2. \A i \in DOMAIN log : Append(log, line)[i] = log[i]
      OBVIOUS
    <3>3. Append(log, line)[Len(log) + 1] = line
      OBVIOUS
    <3> QED BY <3>1, <3>2, <3>3 DEF Range
  <2> QED BY <2>1, <2>2, <2>3 DEF Readable
<1> QED BY <1>1, <1>2

(***************************************************************************)
(* Types.                                                                  *)
(***************************************************************************)
LEMMA EntryIsLine ==
  ASSUME SignalInv, NEW r \in Requests, stage[r] # "idle"
  PROVE  /\ Entry(r) \in [key : Keys \cup Requests, req : Requests]
         /\ Entry(r) \in Lines /\ Torn \in Lines /\ Entry(r) # Torn
<1>1. key[r] \in Keys \cup Requests
  BY DEF SignalInv, KeysFit
<1>2. Nobody \notin Requests
  BY RequestsAssumption
<1> QED BY <1>1, <1>2 DEF Entry, Lines, Torn

LEMMA KeysOfLines ==
  ASSUME NEW log \in Seq(Lines)
  PROVE  KeysIn(log) \subseteq Keys \cup Requests \cup {Nobody}
<1>1. Range(log) \subseteq Lines
  BY DEF Range
<1>2. \A line \in Lines : line.key \in Keys \cup Requests \cup {Nobody}
  BY DEF Lines, Torn
<1> QED BY <1>1, <1>2 DEF KeysIn

OneFault == faults' = faults \/ (faults < MaxFaults /\ faults' = faults + 1)

LEMMA FaultCount == TypeOK /\ OneFault => faults' \in 0 .. MaxFaults
BY FaultsAssumption DEF TypeOK, OneFault

LEMMA TypeInit == Init => TypeOK
BY RequestsAssumption, FaultsAssumption DEF Init, TypeOK, Stages, Answers

LEMMA TypeNext == TypeOK /\ SignalInv /\ [Next]_vars => TypeOK'
<1> SUFFICES ASSUME TypeOK, SignalInv, [Next]_vars PROVE TypeOK'
  OBVIOUS
<1>1. SignalInv'
  BY NextInv
<1>2. key' \in [Requests -> Keys \cup Requests \cup {Nobody}]
      /\ stage' \in [Requests -> Stages] /\ answer' \in [Requests -> Answers]
  BY <1>1 DEF SignalInv, KeysFit, AnswersFit
<1>3. ASSUME NEW r \in Requests, Send(r) PROVE TypeOK'
  <2>1. KeysIn(actions) \subseteq Keys \cup Requests \cup {Nobody}
    BY KeysOfLines DEF TypeOK
  <2> QED BY <1>2, <1>3, <2>1 DEF TypeOK, Send
<1>4. ASSUME NEW r \in Decisions, Decide(r) PROVE TypeOK'
  <2>1. r \in Requests
    BY DEF Requests
  <2>2. CASE ReadActions(r)
    BY <1>2, <2>1, <2>2 DEF TypeOK, ReadActions, Recorded, logs
  <2>3. CASE Scan(r) \/ LoadFails(r)
    BY <1>2, <2>3 DEF TypeOK, Scan, LoadFails, logs
  <2>4. CASE AppendAction(r) \/ AppendExecution(r) \/ AppendFails(r)
    <3>1. stage[r] # "idle"
      BY <2>4 DEF AppendAction, AppendExecution, AppendFails, Go
    <3>2. /\ {AddLine(actions, Entry(r)), AddLine(actions, Torn)} \subseteq Seq(Lines)
          /\ {AddLine(executions, Entry(r)), AddLine(executions, Torn)} \subseteq Seq(Lines)
      BY <2>1, <3>1, EntryIsLine, AddLineFacts DEF TypeOK
    <3>3. actions' \in Seq(Lines) /\ executions' \in Seq(Lines)
      BY <2>4, <3>2 DEF TypeOK, AppendAction, AppendExecution, AppendFails
    <3>4. UNCHANGED <<found, rows, known>> /\ OneFault
      BY <2>4 DEF AppendAction, AppendExecution, AppendFails, OneFault
    <3> QED BY <1>2, <3>3, <3>4, FaultCount DEF TypeOK
  <2> QED BY <1>4, <2>2, <2>3, <2>4 DEF Decide
<1>5. ASSUME NEW r \in Signals, Act(r) PROVE TypeOK'
  <2>1. r \in Requests
    BY DEF Requests
  <2>2. rows' \subseteq [key : Keys \cup Requests, req : Requests]
    <3>1. CASE Insert(r)
      <4>1. Entry(r) \in [key : Keys \cup Requests, req : Requests]
        BY <2>1, <3>1, EntryIsLine DEF Insert, Go
      <4> QED BY <3>1, <4>1 DEF Insert, TypeOK
    <3>2. CASE ~Insert(r)
      BY <1>5, <3>2 DEF Act, Select, Stored, Recheck, DatabaseError, TypeOK
    <3> QED BY <3>1, <3>2
  <2>3. UNCHANGED <<found, actions, executions, known>> /\ OneFault
    BY <1>5 DEF Act, Select, Insert, Stored, Recheck, DatabaseError, OneFault, logs
  <2> QED BY <1>2, <2>2, <2>3, FaultCount DEF TypeOK
<1>6. CASE Crash
  <2>1. UNCHANGED <<found, actions, executions, rows, known>> /\ OneFault
    BY <1>6 DEF Crash, OneFault, logs
  <2> QED BY <1>2, <2>1, FaultCount DEF TypeOK
<1>7. CASE UNCHANGED vars
  BY <1>7 DEF TypeOK, vars, logs
<1> QED BY <1>3, <1>4, <1>5, <1>6, <1>7 DEF Next

(***************************************************************************)
(* Every variable keeps its type, whatever is torn, raced or lost.         *)
(***************************************************************************)
THEOREM ActionsTypes == Spec => []TypeOK
<1>1. Init => TypeOK /\ SignalInv
  BY TypeInit, SignalInit
<1>2. (TypeOK /\ SignalInv) /\ [Next]_vars => (TypeOK /\ SignalInv)'
  BY TypeNext, NextInv
<1> QED BY <1>1, <1>2, PTL DEF Spec

(***************************************************************************)
(* Who is in the logs: a decision request enters the action log when it    *)
(* leaves "fresh", and one whose key was there before it was sent never    *)
(* comes so far.                                                           *)
(***************************************************************************)
Before == {"idle", "sent", "loaded", "fresh"}

Silent(r) == r \notin Authors(actions) \cup Authors(executions)

LateInv ==
  \A r \in Decisions :
    /\ stage[r] \in Before => Silent(r)
    /\ key[r] \in known[r] =>
         /\ Silent(r)
         /\ key[r] \in KeysIn(actions)
         /\ stage[r] \notin {"idle", "fresh", "half"}
         /\ stage[r] = "loaded" => found[r]

AuditInv ==
  /\ AuditsAgree
  /\ Readable(actions) =>
       \A r \in Decisions : stage[r] = "half" => r \in Authors(actions)

LogInv == TypeOK /\ SignalInv /\ LateInv /\ AuditInv

LEMMA LogInit == Init => LogInv
<1> SUFFICES ASSUME Init PROVE LogInv
  OBVIOUS
<1>1. TypeOK /\ SignalInv
  BY TypeInit, SignalInit
<1>2. Range(actions) = {} /\ Range(executions) = {}
  BY DEF Init, Range
<1>3. Authors(actions) = {} /\ Authors(executions) = {}
  BY <1>2 DEF Authors
<1>4. LateInv
  BY <1>3 DEF Init, LateInv, Silent, Requests
<1>5. AuditInv
  BY <1>3 DEF Init, AuditInv, AuditsAgree, Requests
<1> QED BY <1>1, <1>4, <1>5 DEF LogInv

LEMMA AuthorsAreRequests ==
  ASSUME TypeOK
  PROVE  Authors(actions) \subseteq Requests
<1>1. Range(actions) \subseteq Lines
  BY DEF TypeOK, Range
<1>2. \A line \in Lines : line.req \in Requests \cup {Nobody}
  BY DEF Lines, Torn
<1> QED BY <1>1, <1>2 DEF Authors

\* What an append does to the authors and the keys of a log.
LEMMA AppendFacts ==
  ASSUME NEW log \in Seq(Lines), NEW line \in Lines
  PROVE  /\ Authors(log) \subseteq Authors(AddLine(log, line))
         /\ Authors(AddLine(log, line)) \subseteq Authors(log) \cup {line.req}
         /\ KeysIn(log) \subseteq KeysIn(AddLine(log, line))
         /\ Readable(AddLine(log, line)) =>
              /\ Readable(log)
              /\ line # Torn
              /\ Authors(AddLine(log, line)) = Authors(log) \cup ({line.req} \ {Nobody})
<1>1. Readable(AddLine(log, line)) => line # Torn
  BY AddLineFacts DEF Readable
<1> QED BY <1>1, AddLineFacts DEF Authors, KeysIn

(***************************************************************************)
(* A step that leaves the logs alone and moves requests.                   *)
(***************************************************************************)
LEMMA QuietInv ==
  ASSUME LogInv, UNCHANGED <<actions, executions>>,
         \A r \in Decisions :
           \/ /\ stage'[r] = stage[r] /\ answer'[r] = answer[r]
              /\ key'[r] = key[r] /\ known'[r] = known[r] /\ found'[r] = found[r]
           \/ /\ stage[r] # "over" /\ stage'[r] = "over"
              /\ key'[r] = key[r] /\ known'[r] = known[r]
              /\ \/ answer'[r] = "no answer"
                 \/ answer'[r] = "duplicate" /\ stage[r] = "loaded",
         \A r \in Requests : answer[r] = "no answer" => answer'[r] = "no answer",
         \A r \in Requests : stage[r] = "half" => stage'[r] = "half" \/ answer'[r] = "no answer"
  PROVE  LateInv' /\ AuditInv'
<1>1. LateInv'
  BY DEF LogInv, LateInv, Silent, Before
<1>2. Authors(actions) \subseteq Requests
  BY AuthorsAreRequests DEF LogInv
<1>3. AuditsAgree'
  BY <1>2 DEF LogInv, AuditInv, AuditsAgree
<1>4. AuditInv'
  BY <1>3 DEF LogInv, AuditInv
<1> QED BY <1>1, <1>4

LEMMA SendLogInv ==
  ASSUME LogInv, NEW r \in Requests, Send(r)
  PROVE  LateInv' /\ AuditInv'
<1>1. /\ stage' = [stage EXCEPT ![r] = "sent"] /\ stage[r] = "idle"
      /\ known' = [known EXCEPT ![r] = KeysIn(actions)]
      /\ UNCHANGED <<found, answer, actions, executions>>
      /\ \A s \in Requests \ {r} : key'[s] = key[s]
  BY DEF Send, LogInv, TypeOK
<1>2. stage \in [Requests -> Stages] /\ known \in [Requests -> SUBSET (Keys \cup Requests \cup {Nobody})]
  BY DEF LogInv, TypeOK
<1>3. LateInv'
  BY <1>1, <1>2 DEF LogInv, LateInv, Silent, Before, Requests
<1>4. \A s \in Requests : stage'[s] = "half" <=> stage[s] = "half"
  BY <1>1, <1>2
<1>5. Authors(actions) \subseteq Requests
  BY AuthorsAreRequests DEF LogInv
<1>6. AuditInv'
  BY <1>1, <1>4, <1>5 DEF LogInv, AuditInv, AuditsAgree, Requests
<1> QED BY <1>3, <1>6

(***************************************************************************)
(* The decision endpoint.                                                  *)
(***************************************************************************)
LEMMA ReadLogInv ==
  ASSUME LogInv, NEW r \in Decisions, ReadActions(r)
  PROVE  LateInv' /\ AuditInv'
<1>1. r \in Requests
  BY DEF Requests
<1>2. /\ stage' = [stage EXCEPT ![r] = "loaded"] /\ stage[r] = "sent"
      /\ found' = [found EXCEPT ![r] = Recorded(r)]
      /\ UNCHANGED <<key, answer, actions, executions, known>>
  BY DEF ReadActions, Go, logs
<1>3. stage \in [Requests -> Stages] /\ found \in [Requests -> BOOLEAN]
  BY DEF LogInv, TypeOK
<1>4. LateInv'
  BY <1>1, <1>2, <1>3 DEF LogInv, LateInv, Silent, Before, Requests, Recorded
<1>5. Authors(actions) \subseteq Requests
  BY AuthorsAreRequests DEF LogInv
<1>6. \A s \in Requests : stage'[s] = "half" <=> stage[s] = "half"
  BY <1>1, <1>2, <1>3
<1>7. AuditInv'
  BY <1>2, <1>5, <1>6 DEF LogInv, AuditInv, AuditsAgree, Requests
<1> QED BY <1>4, <1>7

LEMMA ScanLogInv ==
  ASSUME LogInv, NEW r \in Decisions, Scan(r)
  PROVE  LateInv' /\ AuditInv'
<1>1. r \in Requests
  BY DEF Requests
<1>2. stage \in [Requests -> Stages] /\ answer \in [Requests -> Answers]
  BY DEF LogInv, TypeOK
<1>3. stage[r] = "loaded" /\ answer[r] = "nothing"
  BY <1>1 DEF Scan, Go, LogInv, SignalInv, AnswersFit
<1>4. CASE found[r]
  <2>1. /\ stage' = [stage EXCEPT ![r] = "over"]
        /\ answer' = [answer EXCEPT ![r] = "duplicate"]
        /\ UNCHANGED <<key, found, actions, executions, known>>
    BY <1>4 DEF Scan, Go, Reply, logs
  <2> QED BY <1>1, <1>2, <1>3, <2>1, QuietInv DEF Requests
<1>5. CASE ~found[r]
  <2>1. /\ stage' = [stage EXCEPT ![r] = "fresh"]
        /\ UNCHANGED <<key, found, answer, actions, executions, known>>
    BY <1>5 DEF Scan, Go, logs
  <2>2. LateInv'
    BY <1>1, <1>2, <1>3, <1>5, <2>1 DEF LogInv, LateInv, Silent, Before, Requests
  <2>3. Authors(actions) \subseteq Requests
    BY AuthorsAreRequests DEF LogInv
  <2>4. \A s \in Requests : stage'[s] = "half" <=> stage[s] = "half"
    BY <1>1, <1>2, <1>3, <2>1
  <2>5. AuditInv'
    BY <2>1, <2>3, <2>4 DEF LogInv, AuditInv, AuditsAgree, Requests
  <2> QED BY <2>2, <2>5
<1> QED BY <1>4, <1>5

LEMMA LoadFailsLogInv ==
  ASSUME LogInv, NEW r \in Decisions, LoadFails(r)
  PROVE  LateInv' /\ AuditInv'
<1>1. r \in Requests
  BY DEF Requests
<1>2. stage \in [Requests -> Stages] /\ answer \in [Requests -> Answers]
  BY DEF LogInv, TypeOK
<1>3. /\ stage[r] \in {"sent", "loaded"}
      /\ stage' = [stage EXCEPT ![r] = "over"]
      /\ answer' = [answer EXCEPT ![r] = "no answer"]
      /\ UNCHANGED <<key, found, actions, executions, known>>
  BY DEF LoadFails, Go, Reply, logs
<1> QED BY <1>1, <1>2, <1>3, QuietInv DEF Requests

LEMMA AppendActionLogInv ==
  ASSUME LogInv, NEW r \in Decisions, AppendAction(r)
  PROVE  LateInv' /\ AuditInv'
<1>1. r \in Requests /\ r # Nobody
  BY RequestsAssumption DEF Requests
<1>2. stage \in [Requests -> Stages] /\ actions \in Seq(Lines)
  BY DEF LogInv, TypeOK
<1>3. /\ stage[r] = "fresh" /\ stage' = [stage EXCEPT ![r] = "half"]
      /\ actions' = AddLine(actions, Entry(r))
      /\ UNCHANGED <<key, found, answer, executions, known>>
  BY DEF AppendAction, Go
<1>4. Entry(r) \in Lines /\ Entry(r).req = r
  BY <1>1, <1>3, EntryIsLine DEF LogInv, Entry
<1>5. /\ Authors(actions) \subseteq Authors(actions')
      /\ Authors(actions') \subseteq Authors(actions) \cup {r}
      /\ KeysIn(actions) \subseteq KeysIn(actions')
      /\ Readable(actions') => Readable(actions) /\ Authors(actions') = Authors(actions) \cup {r}
  BY <1>1, <1>2, <1>3, <1>4, AppendFacts
<1>6. LateInv'
  BY <1>1, <1>2, <1>3, <1>5 DEF LogInv, LateInv, Silent, Before, Requests
<1>7. Authors(actions) \subseteq Requests
  BY AuthorsAreRequests DEF LogInv
<1>8. AuditsAgree'
  BY <1>1, <1>2, <1>3, <1>5, <1>7 DEF LogInv, AuditInv, AuditsAgree
<1>9. AuditInv'
  BY <1>1, <1>2, <1>3, <1>5, <1>8 DEF LogInv, AuditInv, Requests
<1> QED BY <1>6, <1>9

LEMMA AppendExecutionLogInv ==
  ASSUME LogInv, NEW r \in Decisions, AppendExecution(r)
  PROVE  LateInv' /\ AuditInv'
<1>1. r \in Requests /\ r # Nobody
  BY RequestsAssumption DEF Requests
<1>2. /\ stage \in [Requests -> Stages] /\ answer \in [Requests -> Answers]
      /\ executions \in Seq(Lines)
  BY DEF LogInv, TypeOK
<1>3. /\ stage[r] = "half" /\ stage' = [stage EXCEPT ![r] = "over"]
      /\ answer' = [answer EXCEPT ![r] = "ok"]
      /\ executions' = AddLine(executions, Entry(r))
      /\ UNCHANGED <<key, found, actions, known>>
  BY DEF AppendExecution, Go, Reply
<1>4. Entry(r) \in Lines /\ Entry(r).req = r
  BY <1>1, <1>3, EntryIsLine DEF LogInv, Entry
<1>5. /\ Authors(executions) \subseteq Authors(executions')
      /\ Authors(executions') \subseteq Authors(executions) \cup {r}
      /\ Readable(executions') =>
           Readable(executions) /\ Authors(executions') = Authors(executions) \cup {r}
  BY <1>1, <1>2, <1>3, <1>4, AppendFacts
<1>6. LateInv'
  BY <1>1, <1>2, <1>3, <1>5 DEF LogInv, LateInv, Silent, Before, Requests
<1>7. Authors(actions) \subseteq Requests
  BY AuthorsAreRequests DEF LogInv
<1>8. AuditsAgree'
  BY <1>1, <1>2, <1>3, <1>5, <1>7 DEF LogInv, AuditInv, AuditsAgree, Requests
<1>9. AuditInv'
  BY <1>1, <1>2, <1>3, <1>8 DEF LogInv, AuditInv, Requests
<1> QED BY <1>6, <1>9

LEMMA AppendFailsLogInv ==
  ASSUME LogInv, NEW r \in Decisions, AppendFails(r)
  PROVE  LateInv' /\ AuditInv'
<1>1. r \in Requests
  BY DEF Requests
<1>2. /\ stage \in [Requests -> Stages] /\ answer \in [Requests -> Answers]
      /\ actions \in Seq(Lines) /\ executions \in Seq(Lines) /\ Torn \in Lines
  BY DEF LogInv, TypeOK, Lines
<1>3. /\ stage[r] \in {"fresh", "half"} /\ stage' = [stage EXCEPT ![r] = "over"]
      /\ answer' = [answer EXCEPT ![r] = "no answer"]
      /\ UNCHANGED <<key, found, known>>
      /\ actions' \in {actions, AddLine(actions, Torn)}
      /\ executions' \in {executions, AddLine(executions, Torn)}
  BY DEF AppendFails, Go, Reply
<1>4. Torn.req = Nobody
  BY DEF Torn
<1>5. /\ Authors(AddLine(actions, Torn)) = Authors(actions)
      /\ KeysIn(actions) \subseteq KeysIn(AddLine(actions, Torn))
      /\ ~Readable(AddLine(actions, Torn))
  <2>1. Nobody \notin Authors(AddLine(actions, Torn))
    BY DEF Authors
  <2>2. /\ Authors(actions) \subseteq Authors(AddLine(actions, Torn))
        /\ Authors(AddLine(actions, Torn)) \subseteq Authors(actions) \cup {Nobody}
        /\ KeysIn(actions) \subseteq KeysIn(AddLine(actions, Torn))
        /\ ~Readable(AddLine(actions, Torn))
    BY <1>2, <1>4, AppendFacts
  <2> QED BY <2>1, <2>2
<1>6. /\ Authors(AddLine(executions, Torn)) = Authors(executions)
      /\ ~Readable(AddLine(executions, Torn))
  <2>1. Nobody \notin Authors(AddLine(executions, Torn))
    BY DEF Authors
  <2>2. /\ Authors(executions) \subseteq Authors(AddLine(executions, Torn))
        /\ Authors(AddLine(executions, Torn)) \subseteq Authors(executions) \cup {Nobody}
        /\ KeysIn(executions) \subseteq KeysIn(AddLine(executions, Torn))
        /\ ~Readable(AddLine(executions, Torn))
    BY <1>2, <1>4, AppendFacts
  <2> QED BY <2>1, <2>2
<1>7. /\ Authors(actions') = Authors(actions) /\ Authors(executions') = Authors(executions)
      /\ KeysIn(actions) \subseteq KeysIn(actions')
      /\ Readable(actions') => actions' = actions
      /\ Readable(executions') => executions' = executions
  BY <1>3, <1>5, <1>6
<1>8. LateInv'
  BY <1>1, <1>2, <1>3, <1>7 DEF LogInv, LateInv, Silent, Before, Requests
<1>9. Authors(actions) \subseteq Requests
  BY AuthorsAreRequests DEF LogInv
<1>10. AuditsAgree'
  BY <1>1, <1>2, <1>3, <1>7, <1>9 DEF LogInv, AuditInv, AuditsAgree, Requests
<1>11. AuditInv'
  BY <1>1, <1>2, <1>3, <1>7, <1>10 DEF LogInv, AuditInv, Requests
<1> QED BY <1>8, <1>11

LEMMA DecideLogInv ==
  ASSUME LogInv, NEW r \in Decisions, Decide(r)
  PROVE  LateInv' /\ AuditInv'
BY ReadLogInv, ScanLogInv, LoadFailsLogInv, AppendActionLogInv, AppendExecutionLogInv,
   AppendFailsLogInv DEF Decide

(***************************************************************************)
(* The signal endpoint and crashes leave the logs alone.                   *)
(***************************************************************************)
LEMMA ActLogInv ==
  ASSUME LogInv, NEW r \in Signals, Act(r)
  PROVE  LateInv' /\ AuditInv'
<1>1. r \in Requests /\ r \notin Decisions
  BY RequestsAssumption DEF Requests
<1>2. UNCHANGED <<actions, executions, found, known>>
  BY DEF Act, Select, Insert, Stored, Recheck, DatabaseError, logs
<1>3. Progress(r)
  BY ActProgress
<1>4. stage[r] # "half"
  BY DEF Act, Select, Insert, Stored, Recheck, DatabaseError, Go
<1>5. answer[r] = "nothing"
  BY <1>1, <1>3 DEF LogInv, SignalInv, AnswersFit, Progress
<1>6. \A s \in Requests \ {r} : stage'[s] = stage[s] /\ answer'[s] = answer[s]
  BY <1>1, <1>3 DEF Progress, LogInv, TypeOK
<1> QED BY <1>1, <1>2, <1>3, <1>4, <1>5, <1>6, QuietInv DEF Progress, Requests

LEMMA CrashLogInv ==
  ASSUME LogInv, Crash
  PROVE  LateInv' /\ AuditInv'
<1>1. PICK R \in SUBSET {r \in Requests : InFlight(r)} :
        /\ stage' = [r \in Requests |-> IF r \in R THEN "over" ELSE stage[r]]
        /\ answer' = [r \in Requests |-> IF r \in R THEN "no answer" ELSE answer[r]]
  BY DEF Crash
<1>2. UNCHANGED <<key, found, actions, executions, known>>
  BY DEF Crash, logs
<1> QED BY <1>1, <1>2, QuietInv DEF Requests, InFlight

LEMMA LogInvariant == Spec => []LogInv
<1>1. LogInv /\ [Next]_vars => LogInv'
  <2> SUFFICES ASSUME LogInv, [Next]_vars PROVE LogInv'
    OBVIOUS
  <2>1. TypeOK' /\ SignalInv'
    BY TypeNext, NextInv DEF LogInv
  <2>2. LateInv' /\ AuditInv'
    <3>1. CASE UNCHANGED vars
      BY <3>1, QuietInv DEF vars, logs
    <3> QED BY <3>1, SendLogInv, DecideLogInv, ActLogInv, CrashLogInv DEF Next
  <2> QED BY <2>1, <2>2 DEF LogInv
<1> QED BY <1>1, LogInit, PTL DEF Spec

(***************************************************************************)
(* The two audit logs tell one story as long as they can be read, for any  *)
(* requests, races, crashes and appends that fail half way.                *)
(***************************************************************************)
THEOREM AuditsAlwaysAgree == Spec => []AuditsAgree
<1>1. LogInv => AuditsAgree
  BY DEF LogInv, AuditInv
<1> QED BY <1>1, LogInvariant, PTL

(***************************************************************************)
(* A decision request whose key was logged before it was sent is never     *)
(* recorded, in either log.                                                *)
(***************************************************************************)
THEOREM LateRetriesRecordNothing == Spec => []LateRetryRecordsNothing
<1>1. LogInv => LateRetryRecordsNothing
  BY DEF LogInv, LateInv, Silent, LateRetryRecordsNothing
<1> QED BY <1>1, LogInvariant, PTL
===============================================================================
