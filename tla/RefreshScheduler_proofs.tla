----------------------- MODULE RefreshScheduler_proofs -----------------------
(***************************************************************************)
(* What the scheduler lease guarantees for every set of workers and every  *)
(* choice of periods.                                                      *)
(***************************************************************************)
EXTENDS RefreshScheduler, TLAPS

(***************************************************************************)
(* A slice of a wait is no longer than the renewal period.                 *)
(***************************************************************************)
LEMMA SliceBound ==
  ASSUME NEW d \in Nat
  PROVE  /\ Least(d, RenewEvery) \in Nat
         /\ Least(d, RenewEvery) <= RenewEvery
         /\ d - Least(d, RenewEvery) \in Nat
  BY SchedulerAssumption DEF Least

(***************************************************************************)
(* The values of a row that was inserted, taken over, extended, orphaned   *)
(* or has aged by one tick are values of a row.                            *)
(***************************************************************************)
LEMMA LeaseType ==
  ASSUME TypeOK
  PROVE  /\ \A w \in Workers : [owner |-> w, left |-> Ttl] \in Leases
         /\ lease # NoLease =>
              /\ lease.owner \in Workers \cup {Gone}
              /\ lease.left \in -1 .. Ttl
              /\ Extended \in Leases
              /\ Extended.owner = lease.owner
              /\ Extended.left = Ttl
              /\ [lease EXCEPT !.owner = Gone] \in Leases
              /\ lease.left > -1 => [lease EXCEPT !.left = lease.left - 1] \in Leases
<1>1. Ttl \in -1 .. Ttl
  BY SchedulerAssumption
<1>2. lease # NoLease => lease \in Leases
  BY DEF TypeOK
<1>3. \A i \in -1 .. Ttl : i > -1 => i - 1 \in -1 .. Ttl
  BY SchedulerAssumption
<1> QED BY <1>1, <1>2, <1>3 DEF Leases, Extended

(***************************************************************************)
(* The initial state has the types.                                        *)
(***************************************************************************)
LEMMA InitType == Init => TypeOK
  BY SchedulerAssumption DEF Init, TypeOK, Labels

(***************************************************************************)
(* A step of a scheduler thread keeps the types.                           *)
(***************************************************************************)
LEMMA ThreadType ==
  ASSUME TypeOK, NEW w \in Workers, Thread(w)
  PROVE  TypeOK'
<1>1. /\ Interval \in Nat /\ RenewEvery \in Nat
      /\ \A d \in 1 .. MaxRun : d \in Nat
  BY SchedulerAssumption
<1>2. ASSUME NEW d \in Nat, StartWait(w, d)
      PROVE  timer' \in [Workers -> Nat] /\ remaining' \in [Workers -> Nat]
  BY <1>2, SliceBound DEF StartWait, TypeOK
<1>3. ASSUME NEW l \in Labels, Goto(w, l) PROVE pc' \in [Workers -> Labels]
  BY <1>3 DEF Goto, TypeOK
<1>4. ASSUME Lead(w)
      PROVE  /\ pc' \in [Workers -> Labels] /\ held' \in [Workers -> BOOLEAN]
             /\ timer' \in [Workers -> Nat] /\ remaining' \in [Workers -> Nat]
  BY <1>1, <1>2, <1>3, <1>4 DEF Lead, TypeOK, Labels
<1>5. ASSUME AfterRefresh(w)
      PROVE  /\ pc' \in [Workers -> Labels]
             /\ timer' \in [Workers -> Nat] /\ remaining' \in [Workers -> Nat]
  BY <1>1, <1>2, <1>3, <1>5 DEF AfterRefresh, TypeOK, Labels
<1>6. ASSUME ThreadFails(w) \/ Dies(w)
      PROVE  /\ pc' \in [Workers -> Labels] /\ held' \in [Workers -> BOOLEAN]
             /\ timer' \in [Workers -> Nat] /\ remaining' \in [Workers -> Nat]
  BY <1>3, <1>6 DEF ThreadFails, Dies, TypeOK, Labels
<1>7. CASE LoopRenew(w) \/ LoopLoses(w) \/ LoopAcquire(w) \/ FollowEnds(w)
  BY <1>3, <1>7 DEF LoopRenew, LoopLoses, LoopAcquire, FollowEnds, TypeOK,
                    Labels, local
<1>8. CASE LoopFollow(w)
  BY <1>1, <1>2, <1>3, <1>8 DEF LoopFollow, TypeOK, Labels, local
<1>9. CASE CommitInsert(w) \/ CommitTake(w) \/ CommitRenew(w)
  <2>1. lease' \in Leases \cup {NoLease}
    BY <1>9, LeaseType DEF CommitInsert, CommitTake, CommitRenew, TypeOK
  <2>2. Lead(w) \/ ThreadFails(w)
    BY <1>9 DEF CommitInsert, CommitTake, CommitRenew
  <2>3. UNCHANGED <<local, faults>>
    BY <1>9 DEF CommitInsert, CommitTake, CommitRenew
  <2> QED BY <1>4, <1>6, <2>1, <2>2, <2>3 DEF TypeOK, local
<1>10. CASE CommitExtend(w)
  <2>1. lease' \in Leases \cup {NoLease}
    BY <1>10, LeaseType DEF CommitExtend, TypeOK
  <2>2. remaining[w] \in Nat
    BY DEF TypeOK
  <2>3. /\ pc' \in [Workers -> Labels] /\ held' \in [Workers -> BOOLEAN]
        /\ timer' \in [Workers -> Nat] /\ remaining' \in [Workers -> Nat]
    BY <1>2, <1>3, <1>6, <1>10, <2>2 DEF CommitExtend, TypeOK, Labels
  <2> QED BY <1>10, <2>1, <2>3 DEF CommitExtend, TypeOK, local
<1>11. CASE SkipBusy(w) \/ PassCheck(w) \/ WaitRenew(w) \/ WaitLoses(w)
  BY <1>3, <1>5, <1>11 DEF SkipBusy, PassCheck, WaitRenew, WaitLoses, TypeOK,
                           Labels, local
<1>12. CASE StartRefresh(w)
  BY <1>1, <1>3, <1>12 DEF StartRefresh, TypeOK, Labels
<1>13. CASE FinishRefresh(w)
  BY <1>5, <1>13 DEF FinishRefresh, TypeOK
<1>14. CASE ReadRelease(w) \/ CommitRelease(w)
  BY <1>3, <1>6, <1>14 DEF ReadRelease, CommitRelease, TypeOK, Labels, local
<1> QED
  BY <1>7, <1>8, <1>9, <1>10, <1>11, <1>12, <1>13, <1>14
     DEF Thread, Loop, Commit, RefreshAndWait

(***************************************************************************)
(* A database error, a manual request, a crash, a restart or a tick keeps  *)
(* the types.                                                              *)
(***************************************************************************)
LEMMA OtherType ==
  ASSUME TypeOK,
         \/ \E w \in Workers :
              \/ DatabaseError(w) \/ ManualRequest(w) \/ ManualStart(w)
              \/ ManualFinish(w) \/ Crash(w) \/ Restart(w)
         \/ Tick
         \/ UNCHANGED vars
  PROVE  TypeOK'
<1>1. faults < MaxFaults => faults + 1 \in 0 .. MaxFaults
  BY SchedulerAssumption DEF TypeOK
<1>2. ASSUME NEW w \in Workers, DatabaseError(w) PROVE TypeOK'
  BY <1>1, <1>2 DEF DatabaseError, ThreadFails, Dies, Goto, TypeOK, Labels, local
<1>3. ASSUME NEW w \in Workers, ManualRequest(w) \/ ManualFinish(w) PROVE TypeOK'
  BY <1>3 DEF ManualRequest, ManualFinish, TypeOK, thread
<1>4. ASSUME NEW w \in Workers, ManualStart(w) PROVE TypeOK'
  BY <1>4, SchedulerAssumption DEF ManualStart, TypeOK, thread
<1>5. ASSUME NEW w \in Workers, Crash(w) PROVE TypeOK'
  <2>1. lease' \in Leases \cup {NoLease}
    BY <1>5, LeaseType DEF Crash, TypeOK
  <2> QED BY <1>1, <1>5, <2>1 DEF Crash, Goto, TypeOK, Labels
<1>6. ASSUME NEW w \in Workers, Restart(w) PROVE TypeOK'
  BY <1>6 DEF Restart, Goto, TypeOK, Labels, local
<1>7. CASE Tick
  <2>1. lease' \in Leases \cup {NoLease}
    BY <1>7, LeaseType DEF Tick, TypeOK
  <2>2. Elapse(timer) \in [Workers -> Nat] /\ Elapse(mtimer) \in [Workers -> Nat]
    BY DEF Elapse, TypeOK
  <2> QED BY <1>7, <2>1, <2>2 DEF Tick, TypeOK
<1>8. CASE UNCHANGED vars
  BY <1>8 DEF vars, TypeOK
<1> QED BY <1>2, <1>3, <1>4, <1>5, <1>6, <1>7, <1>8

(***************************************************************************)
(* Every step keeps the types.                                             *)
(***************************************************************************)
LEMMA NextType == TypeOK /\ [Next]_vars => TypeOK'
  BY ThreadType, OtherType DEF Next

(***************************************************************************)
(* Type correctness, for every set of workers and every period.            *)
(***************************************************************************)
THEOREM TypeCorrect == Spec => []TypeOK
<1> QED BY InitType, NextType, PTL DEF Spec

-----------------------------------------------------------------------------
(***************************************************************************)
(* A step changes who follows, and who owns the row, for the worker that   *)
(* takes it only.                                                          *)
(***************************************************************************)
LEMMA FollowerStep ==
  ASSUME TypeOK, FollowerOwnsNothing, [Next]_vars
  PROVE  FollowerOwnsNothing'
<1> SUFFICES ASSUME NEW v \in Workers, pc'[v] = "follow"
             PROVE  lease' = NoLease \/ lease'.owner # v
  BY DEF FollowerOwnsNothing
<1>1. pc[v] = "follow" => lease = NoLease \/ lease.owner # v
  BY DEF FollowerOwnsNothing
<1>2. Gone # v
  BY SchedulerAssumption
<1>3. ASSUME NEW w \in Workers, Thread(w)
      PROVE  lease' = NoLease \/ lease'.owner # v
  <2>1. CASE lease' = lease /\ w # v
    BY <1>1, <1>3, <2>1
       DEF TypeOK, Thread, Loop, Commit, RefreshAndWait, LoopRenew, LoopLoses,
           LoopAcquire, LoopFollow, FollowEnds, CommitInsert, CommitTake,
           CommitRenew, CommitExtend, SkipBusy, PassCheck, StartRefresh,
           FinishRefresh, WaitRenew, WaitLoses, ReadRelease, CommitRelease,
           Goto, Lead, ThreadFails, Dies, AfterRefresh
  <2>2. CASE lease' = lease /\ w = v
    BY <1>3, <2>2
       DEF TypeOK, Thread, Loop, Commit, RefreshAndWait, LoopRenew, LoopLoses,
           LoopAcquire, LoopFollow, FollowEnds, CommitInsert, CommitTake,
           CommitRenew, CommitExtend, SkipBusy, PassCheck, StartRefresh,
           FinishRefresh, WaitRenew, WaitLoses, ReadRelease, CommitRelease,
           Goto, Lead, ThreadFails, Dies, AfterRefresh, Taken
  <2>3. CASE lease' # lease
    <3>1. \/ CommitInsert(w) \/ CommitTake(w) \/ CommitRenew(w) \/ CommitExtend(w)
          \/ CommitRelease(w)
      BY <1>3, <2>3
         DEF Thread, Loop, Commit, RefreshAndWait, LoopRenew, LoopLoses,
             LoopAcquire, LoopFollow, FollowEnds, SkipBusy, PassCheck,
             StartRefresh, FinishRefresh, WaitRenew, WaitLoses, ReadRelease
    <3>2. w # v
      BY <3>1, <2>3
         DEF TypeOK, CommitInsert, CommitTake, CommitRenew, CommitExtend,
             CommitRelease, Goto, Lead, ThreadFails, Dies
    <3>3. pc[v] = "follow"
      BY <3>1, <3>2
         DEF TypeOK, CommitInsert, CommitTake, CommitRenew, CommitExtend,
             CommitRelease, Goto, Lead, ThreadFails, Dies
    <3>4. lease # NoLease /\ lease' = Extended => lease'.owner = lease.owner
      BY LeaseType
    <3> QED
      BY <1>1, <2>3, <3>1, <3>2, <3>3, <3>4
         DEF CommitInsert, CommitTake, CommitRenew, CommitExtend, CommitRelease
  <2> QED BY <2>1, <2>2, <2>3
<1>4. ASSUME NEW w \in Workers,
             \/ DatabaseError(w) \/ ManualRequest(w) \/ ManualStart(w)
             \/ ManualFinish(w) \/ Restart(w)
      PROVE  lease' = NoLease \/ lease'.owner # v
  BY <1>1, <1>4 DEF TypeOK, DatabaseError, ManualRequest, ManualStart,
                    ManualFinish, Restart, ThreadFails, Dies, Goto, thread
<1>5. ASSUME NEW w \in Workers, Crash(w)
      PROVE  lease' = NoLease \/ lease'.owner # v
  <2>1. lease # NoLease => [lease EXCEPT !.owner = Gone].owner = Gone
    BY DEF TypeOK, Leases
  <2> QED BY <1>1, <1>2, <1>5, <2>1 DEF TypeOK, Crash, Goto
<1>6. CASE Tick
  <2>1. lease # NoLease =>
          [lease EXCEPT !.left = lease.left - 1].owner = lease.owner
    BY DEF TypeOK, Leases
  <2> QED BY <1>1, <1>6, <2>1 DEF Tick
<1>7. CASE UNCHANGED vars
  BY <1>1, <1>7 DEF vars
<1> QED BY <1>3, <1>4, <1>5, <1>6, <1>7 DEF Next

(***************************************************************************)
(* However the lease operations of any number of workers interleave, fail  *)
(* or are cut short, the row never names a worker that follows: no lease   *)
(* is kept alive, or waited for, by the worker that owns it.               *)
(***************************************************************************)
THEOREM FollowersOwnNothing == Spec => []FollowerOwnsNothing
<1>1. Init => FollowerOwnsNothing
  BY DEF Init, FollowerOwnsNothing
<1>2. TypeOK /\ FollowerOwnsNothing /\ [Next]_vars => FollowerOwnsNothing'
  BY FollowerStep
<1> QED BY <1>1, <1>2, TypeCorrect, PTL DEF Spec
=============================================================================
