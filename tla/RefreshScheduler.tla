-------------------------- MODULE RefreshScheduler --------------------------
(***************************************************************************)
(* Which API process refreshes the signals: the refresh loop of every      *)
(* worker (ui/refresh_scheduler.py), the lease row they share in the       *)
(* database (storage/repositories.py) and the lock a scheduled and a       *)
(* manual refresh of one process share (ui/app.py).                        *)
(*                                                                         *)
(* A lease operation reads the row, decides, and writes it in a later      *)
(* statement: two workers may read before either writes.                   *)
(*                                                                         *)
(* Time is counted in ticks.  Only a refresh and a wait take time; a step  *)
(* that is due is taken before the next tick.                              *)
(***************************************************************************)
EXTENDS Naturals, Integers

CONSTANTS
  Workers,        \* API processes
  Manual,         \* workers that get manual refresh requests
  Ttl,            \* ui.signal_refresh_lease_sec
  RenewEvery,     \* ui.signal_refresh_lease_renew_sec
  Interval,       \* ui.signal_refresh_interval_sec, or time to the daily run
  Daily,          \* workers that wait for the daily time, then refresh
  MaxRun,         \* longest refresh
  MaxFaults,      \* bound: crashes and database errors
  NoLease, Gone   \* no row; the owner id of a process that is no more

ASSUME SchedulerAssumption ==
  /\ Manual \subseteq Workers
  /\ Ttl \in Nat \ {0}
  /\ RenewEvery \in Nat \ {0}
  /\ Interval \in Nat \ {0}
  /\ MaxRun \in Nat \ {0}
  /\ Daily \subseteq Workers
  /\ MaxFaults \in Nat
  /\ Gone \notin Workers

\* left is lease_until minus now; -1 stands for every time after lease_until.
Leases == [owner : Workers \cup {Gone}, left : -1 .. Ttl]

ASSUME NoLeaseAssumption == NoLease \notin Leases

VARIABLES
  lease,      \* the runtime_leases row
  pc,         \* where the scheduler thread of each worker stands
  held,       \* lease_held of _refresh_loop
  timer,      \* time left of the refresh or of the slice a thread waits
  remaining,  \* remaining of _wait_with_optional_lease after this slice
  lock,       \* refresh_lock of each process
  manual,     \* a manual request: "idle", "enter" (past the check) or "run"
  mtimer,     \* time left of its refresh
  faults

thread == <<pc, held, timer, remaining>>
local  == <<lock, manual, mtimer>>
vars   == <<lease, pc, held, timer, remaining, lock, manual, mtimer, faults>>

-----------------------------------------------------------------------------
(* The lease row.                                                          *)

\* Mutant: a lease never expires.
TakenForGood(w) == lease # NoLease /\ lease.owner # w

\* try_acquire_runtime_lease: the row belongs to someone else and is valid.
Taken(w) == lease # NoLease /\ lease.owner # w /\ lease.left > 0

\* Mutant: a renewal only asks that the lease has not expired.
RenewAnyOwner(w) == lease # NoLease /\ lease.left >= 0

\* renew_runtime_lease
RenewOk(w) == lease # NoLease /\ lease.owner = w /\ lease.left >= 0

\* A read was answered and its write has not been committed.
InTransaction(w) == pc[w] \in {"inserting", "taking", "renewing", "extending", "releasing"}

Least(a, b) == IF a < b THEN a ELSE b

\* _wait_with_optional_lease: the next slice of a wait of d.
StartWait(w, d) ==
  /\ timer' = [timer EXCEPT ![w] = Least(d, RenewEvery)]
  /\ remaining' = [remaining EXCEPT ![w] = d - Least(d, RenewEvery)]

Goto(w, label) == pc' = [pc EXCEPT ![w] = label]

-----------------------------------------------------------------------------
Init ==
  /\ lease = NoLease
  /\ pc = [w \in Workers |-> "loop"]
  /\ held = [w \in Workers |-> FALSE]
  /\ timer = [w \in Workers |-> 0]
  /\ remaining = [w \in Workers |-> 0]
  /\ lock = [w \in Workers |-> "free"]
  /\ manual = [w \in Workers |-> "idle"]
  /\ mtimer = [w \in Workers |-> 0]
  /\ faults = 0

(***************************************************************************)
(* The top of the loop: renew what is held, else try to acquire.           *)
(***************************************************************************)
LoopRenew(w) ==
  /\ pc[w] = "loop" /\ held[w]
  /\ RenewOk(w)
  /\ Goto(w, "renewing")
  /\ UNCHANGED <<lease, held, timer, remaining, local, faults>>

LoopLoses(w) ==
  /\ pc[w] = "loop" /\ held[w]
  /\ ~ RenewOk(w)
  /\ held' = [held EXCEPT ![w] = FALSE]
  /\ UNCHANGED <<lease, pc, timer, remaining, local, faults>>

\* Without a row it will insert one; the owner of an expired row changes.
LoopAcquire(w) ==
  /\ pc[w] = "loop" /\ ~ held[w]
  /\ ~ Taken(w)
  /\ Goto(w, IF lease = NoLease THEN "inserting"
             ELSE IF lease.owner = w THEN "renewing" ELSE "taking")
  /\ UNCHANGED <<lease, held, timer, remaining, local, faults>>

LoopFollow(w) ==
  /\ pc[w] = "loop" /\ ~ held[w]
  /\ Taken(w)
  /\ Goto(w, "follow")
  /\ StartWait(w, RenewEvery)
  /\ UNCHANGED <<lease, held, local, faults>>

\* A follower looks again after one slice.
FollowEnds(w) ==
  /\ pc[w] = "follow" /\ timer[w] = 0
  /\ Goto(w, "loop")
  /\ UNCHANGED <<lease, held, timer, remaining, local, faults>>

-----------------------------------------------------------------------------
(* The writes.                                                             *)

\* The leader refreshes at once, or waits for the daily time first.
Lead(w) ==
  /\ held' = [held EXCEPT ![w] = TRUE]
  /\ IF w \in Daily THEN Goto(w, "wait") /\ StartWait(w, Interval)
     ELSE Goto(w, "check") /\ UNCHANGED <<timer, remaining>>

Dies(w) ==
  /\ Goto(w, "dead")
  /\ held' = [held EXCEPT ![w] = FALSE]
  /\ UNCHANGED <<timer, remaining>>

\* An exception ends the thread; finally releases a lease that is held.
ThreadFails(w) ==
  IF held[w] THEN Goto(w, "failing") /\ UNCHANGED <<held, timer, remaining>>
  ELSE Dies(w)

\* INSERT: a row that came first is an IntegrityError.
CommitInsert(w) ==
  /\ pc[w] = "inserting"
  /\ IF lease = NoLease
     THEN lease' = [owner |-> w, left |-> Ttl] /\ Lead(w)
     ELSE ThreadFails(w) /\ UNCHANGED lease
  /\ UNCHANGED <<local, faults>>

\* UPDATE by primary key: it overwrites whoever is there by now.
CommitTake(w) ==
  /\ pc[w] = "taking"
  /\ IF lease # NoLease
     THEN lease' = [owner |-> w, left |-> Ttl] /\ Lead(w)
     ELSE ThreadFails(w) /\ UNCHANGED lease
  /\ UNCHANGED <<local, faults>>

\* Mutant: a renewal counts from the end of the lease, not from now.
ExtendFromEnd == [lease EXCEPT !.left = lease.left + Ttl]

\* The UPDATE of a row read as one's own writes lease_until, not owner_id.
Extended == [lease EXCEPT !.left = Ttl]

CommitRenew(w) ==
  /\ pc[w] = "renewing"
  /\ IF lease # NoLease
     THEN lease' = Extended /\ Lead(w)
     ELSE ThreadFails(w) /\ UNCHANGED lease
  /\ UNCHANGED <<local, faults>>

-----------------------------------------------------------------------------
(* The refresh: _run_signal_refresh.                                       *)

\* What the loop does after a refresh, or after one that was skipped.
AfterRefresh(w) ==
  IF w \in Daily THEN Goto(w, "loop") /\ UNCHANGED <<timer, remaining>>
  ELSE Goto(w, "wait") /\ StartWait(w, Interval)

\* refresh_lock.locked(): the refresh is skipped as busy.
SkipBusy(w) ==
  /\ pc[w] = "check" /\ lock[w] # "free"
  /\ AfterRefresh(w)
  /\ UNCHANGED <<lease, held, local, faults>>

\* Not locked when checked; it may be by the time it is acquired.
PassCheck(w) ==
  /\ pc[w] = "check" /\ lock[w] = "free"
  /\ Goto(w, "enter")
  /\ UNCHANGED <<lease, held, timer, remaining, local, faults>>

StartRefresh(w) ==
  /\ pc[w] = "enter" /\ lock[w] = "free"
  /\ lock' = [lock EXCEPT ![w] = "scheduled"]
  /\ \E d \in 1 .. MaxRun : timer' = [timer EXCEPT ![w] = d]
  /\ Goto(w, "run")
  /\ UNCHANGED <<lease, held, remaining, manual, mtimer, faults>>

FinishRefresh(w) ==
  /\ pc[w] = "run" /\ timer[w] = 0
  /\ lock' = [lock EXCEPT ![w] = "free"]
  /\ AfterRefresh(w)
  /\ UNCHANGED <<lease, held, manual, mtimer, faults>>

-----------------------------------------------------------------------------
(* The wait of the leader: a renewal after every slice.                    *)

WaitRenew(w) ==
  /\ pc[w] = "wait" /\ timer[w] = 0
  /\ RenewOk(w)
  /\ Goto(w, "extending")
  /\ UNCHANGED <<lease, held, timer, remaining, local, faults>>

\* Mutant: a leader that cannot renew follows, and does not try to acquire.
WaitEndsAsFollower(w) ==
  /\ pc[w] = "wait" /\ timer[w] = 0
  /\ ~ RenewOk(w)
  /\ held' = [held EXCEPT ![w] = FALSE]
  /\ Goto(w, "follow")
  /\ StartWait(w, RenewEvery)
  /\ UNCHANGED <<lease, local, faults>>

\* The lease is lost: back to the top of the loop, to acquire it anew.
WaitLoses(w) ==
  /\ pc[w] = "wait" /\ timer[w] = 0
  /\ ~ RenewOk(w)
  /\ held' = [held EXCEPT ![w] = FALSE]
  /\ Goto(w, "loop")
  /\ UNCHANGED <<lease, timer, remaining, local, faults>>

CommitExtend(w) ==
  /\ pc[w] = "extending"
  /\ IF lease = NoLease
     THEN ThreadFails(w) /\ UNCHANGED lease
     ELSE /\ lease' = Extended
          /\ IF remaining[w] > 0
             THEN Goto(w, "wait") /\ StartWait(w, remaining[w])
             ELSE /\ Goto(w, IF w \in Daily THEN "check" ELSE "loop")
                  /\ UNCHANGED <<timer, remaining>>
          /\ UNCHANGED held
  /\ UNCHANGED <<local, faults>>

-----------------------------------------------------------------------------
(* The end of a thread: finally, release_runtime_lease.                    *)

ReadRelease(w) ==
  /\ pc[w] = "failing"
  /\ IF lease # NoLease /\ lease.owner = w
     THEN Goto(w, "releasing") /\ UNCHANGED <<held, timer, remaining>>
     ELSE Dies(w)
  /\ UNCHANGED <<lease, local, faults>>

\* DELETE by primary key, whoever owns the row by now.
CommitRelease(w) ==
  /\ pc[w] = "releasing"
  /\ lease' = NoLease
  /\ Dies(w)
  /\ UNCHANGED <<local, faults>>

\* A statement fails, "database is locked" say.
DatabaseError(w) ==
  /\ InTransaction(w)
  /\ faults < MaxFaults
  /\ faults' = faults + 1
  /\ IF pc[w] = "releasing" THEN Dies(w) ELSE ThreadFails(w)
  /\ UNCHANGED <<lease, local>>

-----------------------------------------------------------------------------
(* Manual requests: POST /api/signals/refresh, which takes no lease.       *)

ManualRequest(w) ==
  /\ w \in Manual
  /\ pc[w] # "down"
  /\ manual[w] = "idle" /\ lock[w] = "free"
  /\ manual' = [manual EXCEPT ![w] = "enter"]
  /\ UNCHANGED <<lease, thread, lock, mtimer, faults>>

ManualStart(w) ==
  /\ manual[w] = "enter" /\ lock[w] = "free"
  /\ lock' = [lock EXCEPT ![w] = "manual"]
  /\ manual' = [manual EXCEPT ![w] = "run"]
  /\ \E d \in 1 .. MaxRun : mtimer' = [mtimer EXCEPT ![w] = d]
  /\ UNCHANGED <<lease, thread, faults>>

ManualFinish(w) ==
  /\ manual[w] = "run" /\ mtimer[w] = 0
  /\ lock' = [lock EXCEPT ![w] = "free"]
  /\ manual' = [manual EXCEPT ![w] = "idle"]
  /\ UNCHANGED <<lease, thread, mtimer, faults>>

-----------------------------------------------------------------------------
(* Processes and time.                                                     *)

\* The row outlives its owner, whose id (pid and uuid) is never used again.
Crash(w) ==
  /\ pc[w] # "down"
  /\ faults < MaxFaults
  /\ faults' = faults + 1
  /\ Goto(w, "down")
  /\ held' = [held EXCEPT ![w] = FALSE]
  /\ timer' = [timer EXCEPT ![w] = 0]
  /\ remaining' = [remaining EXCEPT ![w] = 0]
  /\ lock' = [lock EXCEPT ![w] = "free"]
  /\ manual' = [manual EXCEPT ![w] = "idle"]
  /\ mtimer' = [mtimer EXCEPT ![w] = 0]
  /\ lease' = IF lease # NoLease /\ lease.owner = w
              THEN [lease EXCEPT !.owner = Gone] ELSE lease

Restart(w) ==
  /\ pc[w] = "down"
  /\ Goto(w, "loop")
  /\ UNCHANGED <<lease, held, timer, remaining, local, faults>>

ThreadIdle(w) ==
  \/ pc[w] \in {"dead", "down"}
  \/ pc[w] \in {"wait", "follow", "run"} /\ timer[w] > 0
  \/ pc[w] = "enter" /\ lock[w] # "free"

ManualIdle(w) ==
  \/ manual[w] = "idle"
  \/ manual[w] = "enter" /\ lock[w] # "free"
  \/ manual[w] = "run" /\ mtimer[w] > 0

Elapse(clock) == [w \in Workers |-> IF clock[w] > 0 THEN clock[w] - 1 ELSE 0]

Tick ==
  /\ \A w \in Workers : ThreadIdle(w) /\ ManualIdle(w)
  /\ timer' = Elapse(timer)
  /\ mtimer' = Elapse(mtimer)
  /\ lease' = IF lease # NoLease /\ lease.left > -1
              THEN [lease EXCEPT !.left = lease.left - 1] ELSE lease
  /\ UNCHANGED <<pc, held, remaining, lock, manual, faults>>

-----------------------------------------------------------------------------
Loop(w) ==
  \/ LoopRenew(w) \/ LoopLoses(w) \/ LoopAcquire(w) \/ LoopFollow(w)
  \/ FollowEnds(w)

Commit(w) ==
  \/ CommitInsert(w) \/ CommitTake(w) \/ CommitRenew(w) \/ CommitExtend(w)

RefreshAndWait(w) ==
  \/ SkipBusy(w) \/ PassCheck(w) \/ StartRefresh(w) \/ FinishRefresh(w)
  \/ WaitRenew(w) \/ WaitLoses(w)

Thread(w) ==
  \/ Loop(w) \/ Commit(w) \/ RefreshAndWait(w)
  \/ ReadRelease(w) \/ CommitRelease(w)

Next ==
  \/ \E w \in Workers :
       \/ Thread(w)
       \/ DatabaseError(w)
       \/ ManualRequest(w) \/ ManualStart(w) \/ ManualFinish(w)
       \/ Crash(w) \/ Restart(w)
  \/ Tick

Spec == Init /\ [][Next]_vars

(***************************************************************************)
(* Threads run, time passes, and a thread that waits for refresh_lock gets *)
(* it if it is free again and again.  Nothing restarts a process and no    *)
(* manual request has to come.                                             *)
(***************************************************************************)
Fairness ==
  /\ \A w \in Workers : /\ WF_vars(Thread(w))
                        /\ SF_vars(StartRefresh(w))
                        /\ WF_vars(ManualStart(w) \/ ManualFinish(w))
  /\ WF_vars(Tick)

FairSpec == Spec /\ Fairness

-----------------------------------------------------------------------------
(* Properties.                                                             *)

Labels ==
  {"loop", "follow", "inserting", "taking", "renewing", "check", "enter",
   "run", "wait", "extending", "failing", "releasing", "dead", "down"}

TypeOK ==
  /\ lease \in Leases \cup {NoLease}
  /\ pc \in [Workers -> Labels]
  /\ held \in [Workers -> BOOLEAN]
  /\ timer \in [Workers -> Nat]
  /\ remaining \in [Workers -> Nat]
  /\ lock \in [Workers -> {"free", "scheduled", "manual"}]
  /\ manual \in [Workers -> {"idle", "enter", "run"}]
  /\ mtimer \in [Workers -> Nat]
  /\ faults \in 0 .. MaxFaults

(***************************************************************************)
(* However reads and writes of the lease interleave, the row never names a *)
(* worker that has settled as a follower: a lease nobody acts on always    *)
(* belongs to a process or a thread that is gone.                          *)
(***************************************************************************)
FollowerOwnsNothing ==
  \A w \in Workers : pc[w] = "follow" => lease = NoLease \/ lease.owner # w

(***************************************************************************)
(* A worker whose lease was taken over, in a race or because its refresh   *)
(* outlasted it, stops leading or gets the lease back.                     *)
(***************************************************************************)
StaleLeader(w) == held[w] /\ lease # NoLease /\ lease.owner # w

StaleLeaderStepsDown ==
  \A w \in Workers : StaleLeader(w) ~> ~ StaleLeader(w)

(***************************************************************************)
(* The lease moves on: as long as some scheduler thread lives, refreshes   *)
(* go on, whichever processes crash with or without the lease.  (A         *)
(* scheduled one may be skipped for ever, if manual ones keep coming.)     *)
(***************************************************************************)
Halted(w) == pc[w] \in {"dead", "down"}

SomeoneRefreshes ==
  []<>((\E w \in Workers : lock[w] # "free") \/ \A w \in Workers : Halted(w))
=============================================================================
