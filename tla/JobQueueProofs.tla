--------------------------- MODULE JobQueueProofs ---------------------------
(***************************************************************************)
(* Proofs about JobQueue, for every number of jobs, workers, replicas,     *)
(* attempts and faults.                                                    *)
(***************************************************************************)
EXTENDS JobQueue, TLAPS

(* A worker has a batch only inside the for loop, and the job it is        *)
(* dispatching is one of it.                                               *)
LoopInv ==
    \A w \in Worker :
        /\ pc[w] \in {"top", "claim", "idle", "stopped", "down"} => batch[w] = {}
        /\ pc[w] \in {"run"} \cup Outcome => cur[w] \in batch[w]

(* The lock of an owned job is young: otherwise it overran.                *)
YoungInv ==
    \A j \in Job \ overran : \A w \in Worker : j \in batch[w] => ~lockOld[j]

(* What the job's attempts, its holder's attempt and its status say of     *)
(* each other.                                                             *)
BudgetInv ==
    \A j \in Job \ overran :
        /\ status[j] = "absent" => attempts[j] = 0
        /\ status[j] = "pending" => attempts[j] < MaxAttempts + spare[j]
        /\ \A w \in Worker : j \in batch[w] => got[w][j] = attempts[j]

(* The result a worker is about to write is one its dispatch returned.     *)
ResultInv ==
    \A w \in Worker :
        /\ pc[w] = "ok" => cur[w] \in ranOk
        /\ pc[w] \in {"terminal", "retry"} => cur[w] \in failed

OwnInv == LoopInv /\ OwnedUnlessOverrun /\ YoungInv

-----------------------------------------------------------------------------

LEMMA InitType == Init => TypeOK
BY JobQueueAssumption DEF Init, TypeOK, Status, PC, Outcome, Finished

LEMMA InitLoop == Init => LoopInv
BY DEF Init, LoopInv, Outcome

(* A return sets a result for cur[w], which is a job only because the loop *)
(* never dispatches outside a batch: hence LoopInv.                        *)
LEMMA NextType == TypeOK /\ LoopInv /\ [Next]_vars => TypeOK'
<1> SUFFICES ASSUME TypeOK, LoopInv, [Next]_vars
             PROVE  TypeOK'
    OBVIOUS
<1> USE DEF TypeOK, Fault
<1>1. ASSUME NEW j \in Job, Enqueue(j) PROVE TypeOK'
    BY <1>1 DEF Enqueue, workerVars, historyVars, Status
<1>2. ASSUME NEW j \in Job, Mature(j) PROVE TypeOK'
    BY <1>2 DEF Mature, workerVars, historyVars
<1>3. ASSUME NEW j \in Job, AbandonedLockAges(j) PROVE TypeOK'
    BY <1>3 DEF AbandonedLockAges, workerVars, historyVars
<1>4. ASSUME NEW j \in Job, HeldLockAges(j) PROVE TypeOK'
    BY <1>4 DEF HeldLockAges, workerVars
<1>5. ASSUME NEW w \in Worker, Stop(w) PROVE TypeOK'
    BY <1>5 DEF Stop, TakeSignal, tableVars, historyVars, PC
<1>6. ASSUME NEW w \in Worker, Reap(w) PROVE TypeOK'
    BY <1>6 DEF Reap, Stuck, PC, Status
<1>7. ASSUME NEW w \in Worker, Claim(w) PROVE TypeOK'
  <2>1. PICK S \in SUBSET Claimable :
            /\ ClaimRows(w, S)
            /\ batch' = [batch EXCEPT ![w] = S]
            /\ got' = [got EXCEPT ![w] = [j \in Job |-> IF j \in S THEN attempts[j] + 1 ELSE 0]]
            /\ pc' = [pc EXCEPT ![w] = IF S = {} THEN "idle" ELSE "batch"]
    BY <1>7 DEF Claim
  <2>2. S \subseteq Job
    BY <2>1 DEF Claimable
  <2>3. [j \in Job |-> IF j \in S THEN attempts[j] + 1 ELSE 0] \in [Job -> Nat]
    OBVIOUS
  <2>4. batch' \in [Worker -> SUBSET Job] /\ got' \in [Worker -> [Job -> Nat]]
    BY <2>1, <2>2, <2>3
  <2>5. pc' \in [Worker -> PC]
    BY <2>1 DEF PC
  <2>6. /\ status' \in [Job -> Status] /\ lockedBy' \in [Job -> Worker \cup {NoWorker}]
        /\ lockOld' \in [Job -> BOOLEAN] /\ attempts' \in [Job -> Nat]
    BY <2>1 DEF ClaimRows, Status
  <2>7. QED
    BY <1>7, <2>4, <2>5, <2>6 DEF Claim, historyVars
<1>8. ASSUME NEW w \in Worker, ClaimFails(w) PROVE TypeOK'
    BY <1>8 DEF ClaimFails, ClaimRows, historyVars, PC, Status
<1>9. ASSUME NEW w \in Worker, Wake(w) \/ EndBatch(w) PROVE TypeOK'
    BY <1>9 DEF Wake, EndBatch, tableVars, historyVars, PC
<1>10. ASSUME NEW w \in Worker, NEW j \in Job, Dispatch(w, j) PROVE TypeOK'
    BY <1>10 DEF Dispatch, tableVars, historyVars, PC
<1>11. ASSUME NEW w \in Worker, NEW j \in Job, Release(w, j) PROVE TypeOK'
    BY <1>11 DEF Release, TakeSignal, WriteStatus, NextJob, PC, Status
<1>12. ASSUME NEW w \in Worker, NEW j \in Job, ReleaseFails(w, j) PROVE TypeOK'
    BY <1>12 DEF ReleaseFails, TakeSignal, NextJob, tableVars, historyVars, PC
<1>13. ASSUME NEW w \in Worker, NEW o \in Outcome, Return(w, o) PROVE TypeOK'
    BY <1>13 DEF Return, LoopInv, tableVars, PC, Outcome
<1>14. ASSUME NEW w \in Worker, Report(w) PROVE TypeOK'
  <2>1. cur[w] \in Job
    BY <1>14 DEF Report, LoopInv
  <2>2. Verdict(w, cur[w]) \in Status
    BY <1>14 DEF Report, Verdict, Outcome, Status, Finished
  <2>3. QED
    BY <1>14, <2>1, <2>2 DEF Report, WriteStatus, NextJob, historyVars, PC
<1>15. ASSUME NEW w \in Worker, ReportFails(w) PROVE TypeOK'
    BY <1>15 DEF ReportFails, NextJob, LoopInv, tableVars, historyVars, PC
<1>16. ASSUME NEW r \in Replica, Trigger(r) PROVE TypeOK'
    BY <1>16 DEF Trigger, tableVars, historyVars
<1>17. ASSUME NEW r \in Replica, Crash(r) PROVE TypeOK'
    BY <1>17 DEF Crash, tableVars, historyVars, PC
<1>18. ASSUME NEW r \in Replica, Restart(r) PROVE TypeOK'
    BY <1>18 DEF Restart, tableVars, historyVars, PC
<1>19. CASE UNCHANGED vars
    BY <1>19 DEF vars, tableVars, workerVars, historyVars
<1>20. QED
    BY <1>1, <1>2, <1>3, <1>4, <1>5, <1>6, <1>7, <1>8, <1>9, <1>10, <1>11, <1>12,
       <1>13, <1>14, <1>15, <1>16, <1>17, <1>18, <1>19
    DEF Next, WorkerStep

LEMMA NextLoop == TypeOK /\ LoopInv /\ [Next]_vars => LoopInv'
<1> SUFFICES ASSUME TypeOK, LoopInv, [Next]_vars
             PROVE  LoopInv'
    OBVIOUS
<1> USE DEF TypeOK, LoopInv, Outcome
<1>1. ASSUME NEW j \in Job,
             Enqueue(j) \/ Mature(j) \/ AbandonedLockAges(j) \/ HeldLockAges(j)
      PROVE  LoopInv'
    BY <1>1 DEF Enqueue, Mature, AbandonedLockAges, HeldLockAges, workerVars
<1>2. ASSUME NEW w \in Worker,
             Stop(w) \/ Reap(w) \/ ClaimFails(w) \/ Wake(w) \/ EndBatch(w)
      PROVE  LoopInv'
    BY <1>2 DEF Stop, Reap, ClaimFails, AtClaim, Wake, EndBatch, PC
<1>3. ASSUME NEW w \in Worker, Claim(w) PROVE LoopInv'
    BY <1>3 DEF Claim, AtClaim, PC
<1>4. ASSUME NEW w \in Worker, NEW j \in Job,
             Dispatch(w, j) \/ Release(w, j) \/ ReleaseFails(w, j)
      PROVE  LoopInv'
  <2>1. CASE Dispatch(w, j)
    BY <2>1 DEF Dispatch, NextJob, PC
  <2>2. CASE Release(w, j) \/ ReleaseFails(w, j)
    BY <2>2 DEF Release, ReleaseFails, NextJob, PC
  <2> QED BY <1>4, <2>1, <2>2
<1>5. ASSUME NEW w \in Worker, NEW o \in Outcome, Return(w, o) PROVE LoopInv'
    BY <1>5 DEF Return, PC
<1>6. ASSUME NEW w \in Worker, Report(w) \/ ReportFails(w) PROVE LoopInv'
    BY <1>6 DEF Report, ReportFails, NextJob, PC
<1>7. ASSUME NEW r \in Replica, Trigger(r) \/ Crash(r) \/ Restart(r) PROVE LoopInv'
    BY <1>7 DEF Trigger, Crash, Restart, TasksOf, PC
<1>8. CASE UNCHANGED vars
    BY <1>8 DEF vars, workerVars
<1>9. QED
    BY <1>1, <1>2, <1>3, <1>4, <1>5, <1>6, <1>7, <1>8 DEF Next, WorkerStep

(* Every queue row is of the declared type in every reachable state.       *)
THEOREM TypeCorrect == Spec => []TypeOK
<1>1. Init => TypeOK /\ LoopInv
    BY InitType, InitLoop
<1>2. TypeOK /\ LoopInv /\ [Next]_vars => (TypeOK /\ LoopInv)'
    BY NextType, NextLoop
<1>3. QED
    BY <1>1, <1>2, PTL DEF Spec

-----------------------------------------------------------------------------
(* Ownership.                                                              *)

LEMMA NextOwned ==
    TypeOK /\ OwnInv /\ [Next]_vars => (OwnedUnlessOverrun /\ YoungInv)'
<1> SUFFICES ASSUME TypeOK, OwnInv, [Next]_vars
             PROVE  (OwnedUnlessOverrun /\ YoungInv)'
    OBVIOUS
<1> USE DEF TypeOK, OwnInv, OwnedUnlessOverrun, YoungInv
<1> DEFINE Goal == (OwnedUnlessOverrun /\ YoungInv)'
<1>1. ASSUME NEW j \in Job, Enqueue(j) \/ Mature(j) PROVE Goal
    BY <1>1 DEF Enqueue, Mature, workerVars, historyVars
<1>2. ASSUME NEW j \in Job, AbandonedLockAges(j) PROVE Goal
    \* A holder of j would be the owner, and j is not in the owner's batch.
    BY <1>2 DEF AbandonedLockAges, Claimed, workerVars, historyVars
<1>3. ASSUME NEW j \in Job, HeldLockAges(j) PROVE Goal
    BY <1>3 DEF HeldLockAges, workerVars
<1>4. ASSUME NEW w \in Worker, Stop(w) \/ Wake(w) \/ EndBatch(w) PROVE Goal
    BY <1>4 DEF Stop, Wake, EndBatch, tableVars, historyVars
<1>5. ASSUME NEW w \in Worker, Reap(w) PROVE Goal
    \* The rows it takes are old, hence in nobody's batch.
    BY <1>5 DEF Reap, Stuck
<1>6. ASSUME NEW w \in Worker, Claim(w) PROVE Goal
  <2>1. PICK S \in SUBSET Claimable : ClaimRows(w, S) /\ batch' = [batch EXCEPT ![w] = S]
    BY <1>6 DEF Claim
  <2>2. \A j \in S : j \in Job /\ status[j] = "pending"
    BY <2>1 DEF Claimable
  <2>3. overran' = overran
    BY <1>6 DEF Claim, historyVars
  <2>4. \A j \in Job \ overran : \A v \in Worker :
            j \in batch'[v] => status'[j] = "in_progress" /\ lockedBy'[j] = v /\ ~lockOld'[j]
    BY <2>1, <2>2 DEF ClaimRows
  <2>5. QED
    BY <2>3, <2>4
<1>7. ASSUME NEW w \in Worker, ClaimFails(w) PROVE Goal
  <2>1. PICK S \in SUBSET Claimable : ClaimRows(w, S)
    BY <1>7 DEF ClaimFails
  <2>2. \A j \in S : j \in Job /\ status[j] = "pending"
    BY <2>1 DEF Claimable
  <2>3. QED
    BY <1>7, <2>1, <2>2 DEF ClaimFails, ClaimRows, historyVars
<1>8. ASSUME NEW w \in Worker, NEW j \in Job, Dispatch(w, j) PROVE Goal
    BY <1>8 DEF Dispatch, tableVars, historyVars
<1>9. ASSUME NEW w \in Worker, NEW j \in Job, Release(w, j) PROVE Goal
    BY <1>9 DEF Release, WriteStatus, NextJob
<1>10. ASSUME NEW w \in Worker, NEW j \in Job, ReleaseFails(w, j) PROVE Goal
    BY <1>10 DEF ReleaseFails, NextJob, tableVars, historyVars
<1>11. ASSUME NEW w \in Worker, NEW o \in Outcome, Return(w, o) PROVE Goal
    BY <1>11 DEF Return, tableVars
<1>12. ASSUME NEW w \in Worker, Report(w) PROVE Goal
  <2>1. cur[w] \in batch[w] /\ cur[w] \in Job
    BY <1>12 DEF Report, LoopInv
  <2>2. QED
    BY <1>12, <2>1 DEF Report, WriteStatus, NextJob, historyVars
<1>13. ASSUME NEW w \in Worker, ReportFails(w) PROVE Goal
    BY <1>13 DEF ReportFails, NextJob, tableVars, historyVars
<1>14. ASSUME NEW r \in Replica, Trigger(r) \/ Crash(r) \/ Restart(r) PROVE Goal
  <2>1. UNCHANGED <<tableVars, historyVars>> /\ \A w \in Worker : batch'[w] \subseteq batch[w]
    BY <1>14 DEF Trigger, Crash, Restart, tableVars, historyVars
  <2>2. QED
    BY <2>1 DEF tableVars, historyVars
<1>15. CASE UNCHANGED vars
    BY <1>15 DEF vars, tableVars, workerVars, historyVars
<1>16. QED
    BY <1>1, <1>2, <1>3, <1>4, <1>5, <1>6, <1>7, <1>8, <1>9, <1>10, <1>11, <1>12,
       <1>13, <1>14, <1>15
    DEF Next, WorkerStep

LEMMA OwnInvariant == Spec => [](TypeOK /\ OwnInv)
<1>1. Init => TypeOK /\ OwnInv
    BY InitType, InitLoop DEF Init, OwnInv, OwnedUnlessOverrun, YoungInv
<1>2. TypeOK /\ OwnInv /\ [Next]_vars => (TypeOK /\ OwnInv)'
    BY NextType, NextLoop, NextOwned DEF OwnInv
<1>3. QED
    BY <1>1, <1>2, PTL DEF Spec

(* No job is in two workers' batches, and its holder owns the row, unless  *)
(* its lock aged in a live worker's hands: claim_batch, reap_stuck and the *)
(* unconditional result writes are enough for that, whatever crashes,      *)
(* failed writes and shutdowns happen.                                     *)
THEOREM Ownership == Spec => []OwnedUnlessOverrun
BY OwnInvariant, PTL DEF OwnInv

(* A finished row is never written again, under the same condition.        *)
THEOREM Finality == Spec => FinalUnlessOverrun
<1> DEFINE Final == \A j \in Job \ overran' :
                        status[j] \in Finished => status'[j] = status[j]
<1>1. TypeOK /\ OwnInv /\ [Next]_vars => [Final]_vars
  <2> SUFFICES ASSUME TypeOK, OwnInv, Next
               PROVE  Final
    BY DEF vars
  <2> USE DEF TypeOK, OwnInv, OwnedUnlessOverrun, Finished
  <2>1. ASSUME NEW j \in Job,
               Enqueue(j) \/ Mature(j) \/ AbandonedLockAges(j) \/ HeldLockAges(j)
        PROVE  Final
    BY <2>1 DEF Enqueue, Mature, AbandonedLockAges, HeldLockAges
  <2>2. ASSUME NEW w \in Worker,
               Stop(w) \/ Wake(w) \/ EndBatch(w) \/ ReportFails(w)
        PROVE  Final
    BY <2>2 DEF Stop, Wake, EndBatch, ReportFails, tableVars
  <2>3. ASSUME NEW w \in Worker, Reap(w) \/ Claim(w) \/ ClaimFails(w) PROVE Final
    BY <2>3 DEF Reap, Stuck, Claim, ClaimFails, ClaimRows, Claimable
  <2>4. ASSUME NEW w \in Worker, NEW j \in Job,
               Dispatch(w, j) \/ Release(w, j) \/ ReleaseFails(w, j)
        PROVE  Final
    BY <2>4 DEF Dispatch, Release, ReleaseFails, WriteStatus, tableVars
  <2>5. ASSUME NEW w \in Worker, NEW o \in Outcome, Return(w, o) PROVE Final
    BY <2>5 DEF Return, tableVars
  <2>6. ASSUME NEW w \in Worker, Report(w) PROVE Final
    <3>1. cur[w] \in batch[w] /\ cur[w] \in Job
      BY <2>6 DEF Report, LoopInv
    <3>2. overran' = overran
      BY <2>6 DEF Report, historyVars
    <3>3. QED
      BY <2>6, <3>1, <3>2 DEF Report, WriteStatus
  <2>7. ASSUME NEW r \in Replica, Trigger(r) \/ Crash(r) \/ Restart(r) PROVE Final
    BY <2>7 DEF Trigger, Crash, Restart, tableVars
  <2>8. QED
    BY <2>1, <2>2, <2>3, <2>4, <2>5, <2>6, <2>7 DEF Next, WorkerStep
<1>2. QED
    BY <1>1, OwnInvariant, PTL DEF Spec, FinalUnlessOverrun

-----------------------------------------------------------------------------
(* Attempts.                                                               *)

LEMMA NextTokens ==
    TypeOK /\ LoopInv /\ AttemptsAreTokens /\ [Next]_vars => AttemptsAreTokens'
<1> SUFFICES ASSUME TypeOK, LoopInv, AttemptsAreTokens, [Next]_vars
             PROVE  AttemptsAreTokens'
    OBVIOUS
<1> USE DEF TypeOK, AttemptsAreTokens
<1>1. CASE UNCHANGED <<attempts, batch, got>>
    BY <1>1
<1>2. ASSUME NEW w \in Worker, NEW j \in Job, NextJob(w, j), UNCHANGED attempts
      PROVE  AttemptsAreTokens'
    BY <1>2 DEF NextJob
<1>3. ASSUME NEW w \in Worker, Claim(w) PROVE AttemptsAreTokens'
  <2>1. PICK S \in SUBSET Claimable :
            /\ ClaimRows(w, S)
            /\ batch' = [batch EXCEPT ![w] = S]
            /\ got' = [got EXCEPT ![w] = [j \in Job |-> IF j \in S THEN attempts[j] + 1 ELSE 0]]
    BY <1>3 DEF Claim
  <2>2. S \subseteq Job
    BY <2>1 DEF Claimable
  <2>3. \A j \in S : attempts'[j] = attempts[j] + 1 /\ got'[w][j] = attempts[j] + 1
    BY <2>1, <2>2 DEF ClaimRows
  <2>4. \A j \in Job : attempts[j] <= attempts'[j]
    BY <2>1, <2>2 DEF ClaimRows
  <2>5. batch'[w] = S
    BY <2>1
  <2>6. \A v \in Worker \ {w} : got'[v] = got[v] /\ batch'[v] = batch[v]
    BY <2>1
  <2>7. \A v \in Worker \ {w} : \A j \in batch[v] : got[v][j] <= attempts[j] /\ j \in Job
    OBVIOUS
  <2>8. \A v \in Worker : \A j \in Job : got[v][j] \in Nat /\ attempts[j] \in Nat
    OBVIOUS
  <2>9. ASSUME NEW v \in Worker, NEW j \in batch'[v]
        PROVE  got'[v][j] <= attempts'[j]
    <3>1. CASE v = w
      BY <3>1, <2>2, <2>3, <2>5, <2>8
    <3>2. CASE v # w
      <4>1. j \in batch[v] /\ got'[v] = got[v]
        BY <3>2, <2>6
      <4>2. j \in Job /\ got[v][j] <= attempts[j] /\ attempts[j] <= attempts'[j]
        BY <3>2, <4>1, <2>4, <2>7
      <4>3. attempts'[j] \in Nat
        BY <4>2, <2>1 DEF ClaimRows
      <4>4. QED
        BY <4>1, <4>2, <4>3, <2>8
    <3>3. QED
      BY <3>1, <3>2
  <2>10. ASSUME NEW u \in Worker, NEW v \in Worker \ {u}, NEW j \in batch'[u], j \in batch'[v]
         PROVE  got'[v][j] # got'[u][j]
    <3>1. CASE u = w
      BY <2>10, <3>1, <2>2, <2>3, <2>5, <2>6, <2>7, <2>8
    <3>2. CASE v = w
      BY <2>10, <3>2, <2>2, <2>3, <2>5, <2>6, <2>7, <2>8
    <3>3. CASE u # w /\ v # w
      BY <2>10, <3>3, <2>6
    <3>4. QED
      BY <3>1, <3>2, <3>3
  <2>11. QED
    BY <2>9, <2>10
<1>4. ASSUME NEW w \in Worker, ClaimFails(w) PROVE AttemptsAreTokens'
    BY <1>4 DEF ClaimFails, ClaimRows
<1>5. ASSUME NEW r \in Replica, Crash(r) PROVE AttemptsAreTokens'
    BY <1>5 DEF Crash, tableVars
<1>6. ASSUME NEW w \in Worker, Report(w) \/ ReportFails(w) PROVE AttemptsAreTokens'
    BY <1>2, <1>6 DEF Report, ReportFails, tableVars, LoopInv
<1>7. ASSUME NEW w \in Worker, NEW j \in Job, Release(w, j) \/ ReleaseFails(w, j)
      PROVE  AttemptsAreTokens'
    BY <1>2, <1>7 DEF Release, ReleaseFails, tableVars
<1>8. CASE UNCHANGED vars
    BY <1>1, <1>8 DEF vars, tableVars, workerVars
<1>9. ASSUME NEW j \in Job,
             Enqueue(j) \/ Mature(j) \/ AbandonedLockAges(j) \/ HeldLockAges(j)
      PROVE  AttemptsAreTokens'
    BY <1>1, <1>9 DEF Enqueue, Mature, AbandonedLockAges, HeldLockAges, workerVars
<1>10. ASSUME NEW w \in Worker, Stop(w) \/ Reap(w) \/ Wake(w) \/ EndBatch(w)
       PROVE  AttemptsAreTokens'
    BY <1>1, <1>10 DEF Stop, Reap, Wake, EndBatch, tableVars
<1>11. ASSUME NEW w \in Worker, NEW j \in Job, Dispatch(w, j) PROVE AttemptsAreTokens'
    BY <1>1, <1>11 DEF Dispatch, tableVars
<1>12. ASSUME NEW w \in Worker, NEW o \in Outcome, Return(w, o) PROVE AttemptsAreTokens'
    BY <1>1, <1>12 DEF Return, tableVars
<1>13. ASSUME NEW r \in Replica, Trigger(r) \/ Restart(r) PROVE AttemptsAreTokens'
    BY <1>1, <1>13 DEF Trigger, Restart, tableVars
<1>14. QED
    BY <1>3, <1>4, <1>5, <1>6, <1>7, <1>8, <1>9, <1>10, <1>11, <1>12, <1>13
    DEF Next, WorkerStep

(* Two holders of a job, which an overrun makes possible, never hold it    *)
(* under the same attempt number.                                          *)
THEOREM Tokens == Spec => []AttemptsAreTokens
<1>1. Init => AttemptsAreTokens
    BY DEF Init, AttemptsAreTokens
<1>2. QED
    BY <1>1, NextTokens, OwnInvariant, PTL DEF Spec, OwnInv

LEMMA NextBudget ==
    TypeOK /\ OwnInv /\ BudgetInv /\ AttemptBudget /\ [Next]_vars
        => (BudgetInv /\ AttemptBudget)'
<1> SUFFICES ASSUME TypeOK, OwnInv, BudgetInv, AttemptBudget, [Next]_vars
             PROVE  (BudgetInv /\ AttemptBudget)'
    OBVIOUS
<1> USE JobQueueAssumption DEF TypeOK, OwnInv, OwnedUnlessOverrun, BudgetInv, AttemptBudget
<1> DEFINE Goal == (BudgetInv /\ AttemptBudget)'
<1>1. CASE UNCHANGED <<status, attempts, batch, got, spare, overran>>
    BY <1>1
<1>2. ASSUME NEW j \in Job, Enqueue(j) PROVE Goal
    BY <1>2 DEF Enqueue, workerVars, historyVars
<1>3. ASSUME NEW j \in Job, HeldLockAges(j) PROVE Goal
    BY <1>3 DEF HeldLockAges, workerVars
<1>4. ASSUME NEW w \in Worker, Reap(w) PROVE Goal
    BY <1>4 DEF Reap, Stuck
<1>5. ASSUME NEW w \in Worker, Claim(w) PROVE Goal
  <2>1. PICK S \in SUBSET Claimable :
            /\ ClaimRows(w, S)
            /\ batch' = [batch EXCEPT ![w] = S]
            /\ got' = [got EXCEPT ![w] = [j \in Job |-> IF j \in S THEN attempts[j] + 1 ELSE 0]]
    BY <1>5 DEF Claim
  <2>2. \A j \in S : j \in Job /\ status[j] = "pending"
    BY <2>1 DEF Claimable
  <2>3. spare' = spare /\ overran' = overran
    BY <1>5 DEF Claim, historyVars
  <2>4. /\ \A j \in S : status'[j] = "in_progress" /\ attempts'[j] = attempts[j] + 1
        /\ \A j \in Job \ S : status'[j] = status[j] /\ attempts'[j] = attempts[j]
    BY <2>1, <2>2 DEF ClaimRows
  <2>5. AttemptBudget'
    BY <2>2, <2>3, <2>4
  <2>6. \A j \in Job \ overran : \A v \in Worker : j \in batch'[v] => got'[v][j] = attempts'[j]
    <3>1. ASSUME NEW j \in S, j \notin overran, NEW v \in Worker, j \in batch'[v]
          PROVE  got'[v][j] = attempts'[j]
      <4>1. v = w
        BY <2>1, <2>2, <3>1
      <4>2. QED
        BY <2>1, <2>2, <2>4, <4>1
    <3>2. ASSUME NEW j \in Job \ S, j \notin overran, NEW v \in Worker, j \in batch'[v]
          PROVE  got'[v][j] = attempts'[j]
      <4>1. v # w
        BY <2>1, <3>2
      <4>2. QED
        BY <2>1, <2>4, <3>2, <4>1
    <3>3. QED
      BY <3>1, <3>2
  <2>7. QED
    BY <2>3, <2>4, <2>5, <2>6
<1>6. ASSUME NEW w \in Worker, ClaimFails(w) PROVE Goal
  <2>1. PICK S \in SUBSET Claimable : ClaimRows(w, S)
    BY <1>6 DEF ClaimFails
  <2>2. \A j \in S : j \in Job /\ status[j] = "pending"
    BY <2>1 DEF Claimable
  <2>3. UNCHANGED <<batch, got, spare, overran>>
    BY <1>6 DEF ClaimFails, historyVars
  <2>4. QED
    BY <2>1, <2>2, <2>3 DEF ClaimRows
<1>7. ASSUME NEW w \in Worker, NEW j \in Job, Release(w, j) PROVE Goal
    BY <1>7 DEF Release, WriteStatus, NextJob
<1>8. ASSUME NEW w \in Worker, NEW j \in Job, ReleaseFails(w, j) PROVE Goal
    BY <1>8 DEF ReleaseFails, NextJob, tableVars, historyVars
<1>9. ASSUME NEW w \in Worker, Report(w) PROVE Goal
  <2>1. cur[w] \in batch[w] /\ cur[w] \in Job
    BY <1>9 DEF Report, LoopInv
  <2>2. \/ Verdict(w, cur[w]) \in {"completed", "dead"}
        \/ Verdict(w, cur[w]) = "pending" /\ got[w][cur[w]] < MaxAttempts
    BY <1>9, <2>1 DEF Report, Verdict, Outcome
  <2>3. UNCHANGED <<attempts, spare, overran>>
    BY <1>9 DEF Report, historyVars
  <2>4. QED
    BY <1>9, <2>1, <2>2, <2>3 DEF Report, WriteStatus, NextJob
<1>10. ASSUME NEW w \in Worker, ReportFails(w) PROVE Goal
    BY <1>10 DEF ReportFails, NextJob, LoopInv, tableVars, historyVars
<1>11. ASSUME NEW r \in Replica, Crash(r) PROVE Goal
    BY <1>11 DEF Crash, tableVars, historyVars
<1>12. ASSUME NEW j \in Job, Mature(j) \/ AbandonedLockAges(j) PROVE Goal
    BY <1>1, <1>12 DEF Mature, AbandonedLockAges, workerVars, historyVars
<1>13. ASSUME NEW w \in Worker, Stop(w) \/ Wake(w) \/ EndBatch(w) PROVE Goal
    BY <1>1, <1>13 DEF Stop, Wake, EndBatch, tableVars, historyVars
<1>14. ASSUME NEW w \in Worker, NEW j \in Job, Dispatch(w, j) PROVE Goal
    BY <1>1, <1>14 DEF Dispatch, tableVars, historyVars
<1>15. ASSUME NEW w \in Worker, NEW o \in Outcome, Return(w, o) PROVE Goal
    BY <1>1, <1>15 DEF Return, tableVars
<1>16. ASSUME NEW r \in Replica, Trigger(r) \/ Restart(r) PROVE Goal
    BY <1>1, <1>16 DEF Trigger, Restart, tableVars, historyVars
<1>17. CASE UNCHANGED vars
    BY <1>1, <1>17 DEF vars, tableVars, workerVars, historyVars
<1>18. QED
    BY <1>2, <1>3, <1>4, <1>5, <1>6, <1>7, <1>8, <1>9, <1>10, <1>11, <1>12, <1>13,
       <1>14, <1>15, <1>16, <1>17
    DEF Next, WorkerStep

(* A job's attempts exceed max_attempts by at most the number of times a   *)
(* reap or a shutdown release put it back.                                 *)
THEOREM Budget == Spec => []AttemptBudget
<1>1. Init => BudgetInv /\ AttemptBudget
    BY JobQueueAssumption DEF Init, BudgetInv, AttemptBudget
<1>2. QED
    BY <1>1, NextBudget, OwnInvariant, PTL DEF Spec

-----------------------------------------------------------------------------
(* Results and the contract.                                               *)

LEMMA NextResult ==
    TypeOK /\ LoopInv /\ ResultInv /\ FinishedJobsRan /\ [Next]_vars
        => (ResultInv /\ FinishedJobsRan)'
<1> SUFFICES ASSUME TypeOK, LoopInv, ResultInv, FinishedJobsRan, [Next]_vars
             PROVE  (ResultInv /\ FinishedJobsRan)'
    OBVIOUS
<1> USE DEF TypeOK, ResultInv, FinishedJobsRan
<1> DEFINE Goal == (ResultInv /\ FinishedJobsRan)'
<1>1. ASSUME NEW j \in Job,
             Enqueue(j) \/ Mature(j) \/ AbandonedLockAges(j) \/ HeldLockAges(j)
      PROVE  Goal
    BY <1>1 DEF Enqueue, Mature, AbandonedLockAges, HeldLockAges, workerVars, historyVars
<1>2. ASSUME NEW w \in Worker, Stop(w) \/ Wake(w) \/ EndBatch(w) PROVE Goal
    BY <1>2 DEF Stop, Wake, EndBatch, tableVars, historyVars
<1>3. ASSUME NEW w \in Worker, Reap(w) PROVE Goal
    BY <1>3 DEF Reap
<1>4. ASSUME NEW w \in Worker, Claim(w) \/ ClaimFails(w) PROVE Goal
    BY <1>4 DEF Claim, ClaimFails, ClaimRows, historyVars
<1>5. ASSUME NEW w \in Worker, NEW j \in Job, Dispatch(w, j) PROVE Goal
    BY <1>5 DEF Dispatch, tableVars, historyVars
<1>6. ASSUME NEW w \in Worker, NEW j \in Job, Release(w, j) \/ ReleaseFails(w, j) PROVE Goal
    BY <1>6 DEF Release, ReleaseFails, WriteStatus, NextJob, tableVars, historyVars
<1>7. ASSUME NEW w \in Worker, NEW o \in Outcome, Return(w, o) PROVE Goal
    BY <1>7 DEF Return, tableVars, Outcome
<1>8. ASSUME NEW w \in Worker, Report(w) PROVE Goal
  <2>1. cur[w] \in Job
    BY <1>8 DEF Report, LoopInv
  <2>2. /\ Verdict(w, cur[w]) = "completed" => cur[w] \in ranOk
        /\ Verdict(w, cur[w]) = "dead" => cur[w] \in failed
    BY <1>8 DEF Report, Verdict, Outcome
  <2>3. QED
    BY <1>8, <2>1, <2>2 DEF Report, WriteStatus, NextJob, historyVars
<1>9. ASSUME NEW w \in Worker, ReportFails(w) PROVE Goal
    BY <1>9 DEF ReportFails, NextJob, tableVars, historyVars
<1>10. ASSUME NEW r \in Replica, Trigger(r) \/ Crash(r) \/ Restart(r) PROVE Goal
  <2>1. UNCHANGED <<status, ranOk, failed>>
    BY <1>10 DEF Trigger, Crash, Restart, tableVars, historyVars
  <2>2. \A w \in Worker : (pc'[w] = pc[w] /\ cur'[w] = cur[w]) \/ pc'[w] \in {"top", "down"}
    BY <1>10 DEF Trigger, Crash, Restart
  <2>3. QED
    BY <2>1, <2>2
<1>11. CASE UNCHANGED vars
    BY <1>11 DEF vars, tableVars, workerVars, historyVars
<1>12. QED
    BY <1>1, <1>2, <1>3, <1>4, <1>5, <1>6, <1>7, <1>8, <1>9, <1>10, <1>11
    DEF Next, WorkerStep

LEMMA ResultInvariant == Spec => [](ResultInv /\ FinishedJobsRan)
<1>1. Init => ResultInv /\ FinishedJobsRan
    BY DEF Init, ResultInv, FinishedJobsRan
<1>2. QED
    BY <1>1, NextResult, OwnInvariant, PTL DEF Spec, OwnInv

(* A completed job has run to Ok, a dead one has failed: no crash, reap,   *)
(* release or late write finishes a job that never ran.                    *)
THEOREM Results == Spec => []FinishedJobsRan
BY ResultInvariant, PTL

(* Only the lock of a row that is there can age.                           *)
OverranInv == \A j \in overran : status[j] # "absent"

LEMMA NextOverran == TypeOK /\ LoopInv /\ OverranInv /\ [Next]_vars => OverranInv'
<1> SUFFICES ASSUME TypeOK, LoopInv, OverranInv, [Next]_vars,
                    NEW j \in overran'
             PROVE  status'[j] # "absent"
    BY DEF OverranInv
<1> USE DEF TypeOK
<1>1. CASE j \in overran /\ status'[j] = status[j]
    BY <1>1 DEF OverranInv
<1>2. ASSUME NEW i \in Job, HeldLockAges(i) PROVE status'[j] # "absent"
    BY <1>2 DEF HeldLockAges, Claimed, OverranInv
<1>3. ASSUME NEW i \in Job, Enqueue(i) PROVE status'[j] # "absent"
    BY <1>3 DEF Enqueue, OverranInv, historyVars
<1>4. ASSUME NEW i \in Job, Mature(i) \/ AbandonedLockAges(i) PROVE status'[j] # "absent"
    BY <1>1, <1>4 DEF Mature, AbandonedLockAges, historyVars
<1>5. ASSUME NEW w \in Worker,
             Stop(w) \/ Wake(w) \/ EndBatch(w) \/ ReportFails(w)
               \/ (\E i \in Job : Dispatch(w, i) \/ ReleaseFails(w, i))
               \/ (\E o \in Outcome : Return(w, o))
      PROVE status'[j] # "absent"
    BY <1>1, <1>5 DEF Stop, Wake, EndBatch, ReportFails, Dispatch, ReleaseFails, Return,
                      tableVars, historyVars
<1>6. ASSUME NEW w \in Worker, Reap(w) \/ Claim(w) \/ ClaimFails(w)
      PROVE  status'[j] # "absent"
    BY <1>1, <1>6 DEF Reap, Claim, ClaimFails, ClaimRows, historyVars
<1>7. ASSUME NEW w \in Worker, NEW i \in Job, Release(w, i) PROVE status'[j] # "absent"
    BY <1>1, <1>7 DEF Release, WriteStatus
<1>8. ASSUME NEW w \in Worker, Report(w) PROVE status'[j] # "absent"
  <2>1. /\ cur[w] \in Job /\ overran' = overran
        /\ status' = [status EXCEPT ![cur[w]] = Verdict(w, cur[w])]
        /\ Verdict(w, cur[w]) \in {"completed", "dead", "pending"}
    BY <1>8 DEF Report, WriteStatus, historyVars, LoopInv, Verdict, Outcome
  <2>2. QED
    BY <1>1, <2>1
<1>9. ASSUME NEW r \in Replica, Trigger(r) \/ Crash(r) \/ Restart(r)
      PROVE  status'[j] # "absent"
    BY <1>1, <1>9 DEF Trigger, Crash, Restart, tableVars, historyVars
<1>10. CASE UNCHANGED vars
    BY <1>1, <1>10 DEF vars, tableVars, historyVars
<1>11. QED
    BY <1>2, <1>3, <1>4, <1>5, <1>6, <1>7, <1>8, <1>9, <1>10 DEF Next, WorkerStep

(* All that the refinement needs of a state.                               *)
ContractInv == TypeOK /\ OwnInv /\ ResultInv /\ OverranInv

LEMMA ContractInvariant == Spec => []ContractInv
<1>1. Init => OverranInv
    BY DEF Init, OverranInv
<1>2. Spec => [](TypeOK /\ LoopInv)
    BY OwnInvariant, PTL DEF OwnInv
<1>3. Spec => []OverranInv
    BY <1>1, <1>2, NextOverran, PTL DEF Spec
<1>4. QED
    BY <1>3, OwnInvariant, ResultInvariant, PTL DEF ContractInv

(* A step that writes neither statuses nor results, and that starts and    *)
(* ends no run, is invisible to the contract.                              *)
LEMMA Invisible ==
    ASSUME UNCHANGED <<status, ranOk, failed, overran>>,
           \A w \in Worker : pc'[w] = "run" <=> pc[w] = "run",
           \A w \in Worker : pc[w] = "run" => cur'[w] = cur[w]
    PROVE  UNCHANGED Contract!vars
<1>1. Running' = Running
    BY DEF Running
<1>2. Phase' = Phase
    BY DEF Phase
<1>3. QED
    BY <1>1, <1>2 DEF Contract!vars

(* The reap, the claim and a failed claim move rows between pending and    *)
(* in_progress only, which is one phase of the contract.                   *)
LEMMA SamePhase ==
    ASSUME TypeOK, TypeOK', UNCHANGED overran,
           \A j \in Job \ overran :
               \/ status'[j] = status[j]
               \/ {status[j], status'[j]} \subseteq {"pending", "in_progress"}
    PROVE  Phase' = Phase
BY DEF TypeOK, Phase

(* Writing the status of one job that is not void changes its phase only.  *)
LEMMA PhaseOfOne ==
    ASSUME TypeOK, UNCHANGED overran, NEW j \in Job \ overran,
           NEW s, status' = [status EXCEPT ![j] = s]
    PROVE  /\ status[j] = "absent" => Phase[j] = "absent"
           /\ s = "pending" => Phase' = [Phase EXCEPT ![j] = "open"]
           /\ s \in {"completed", "dead"} => Phase' = [Phase EXCEPT ![j] = s]
<1>1. /\ \A i \in Job : status'[i] = IF i = j THEN s ELSE status[i]
      /\ \A i \in Job : i \in overran' <=> i \in overran
    BY DEF TypeOK
<1>2. s = "pending" => \A i \in Job : Phase'[i] = IF i = j THEN "open" ELSE Phase[i]
    BY <1>1 DEF Phase
<1>3. s \in {"completed", "dead"} =>
        \A i \in Job : Phase'[i] = IF i = j THEN s ELSE Phase[i]
    BY <1>1 DEF Phase
<1>4. Phase = [i \in Job |-> Phase[i]] /\ Phase' = [i \in Job |-> Phase'[i]]
    BY DEF Phase
<1>5. status[j] = "absent" => Phase[j] = "absent"
    BY DEF Phase
<1>6. QED
    BY <1>2, <1>3, <1>4, <1>5

LEMMA StepImplementsContract ==
    ContractInv /\ ContractInv' /\ [Next]_vars => [Contract!Next]_(Contract!vars)
<1> SUFFICES ASSUME ContractInv, ContractInv', [Next]_vars
             PROVE  Contract!Next \/ UNCHANGED Contract!vars
    OBVIOUS
<1> DEFINE Goal == Contract!Next \/ UNCHANGED Contract!vars
<1> USE DEF ContractInv, TypeOK
<1>own. \A j \in Job \ overran : \A w \in Worker :
            j \in batch[w] => status[j] = "in_progress" /\ lockedBy[j] = w
    BY DEF OwnInv, OwnedUnlessOverrun
<1>run. \A w \in Worker :
            pc[w] \in {"run"} \cup Outcome => cur[w] \in Job /\ cur[w] \in batch[w]
    BY DEF OwnInv, LoopInv
<1>1. ASSUME NEW j \in Job, Enqueue(j) PROVE Goal
  <2>1. /\ status[j] = "absent" /\ status' = [status EXCEPT ![j] = "pending"]
        /\ overran' = overran /\ j \notin overran
    BY <1>1 DEF Enqueue, historyVars, OverranInv
  <2>2. UNCHANGED <<Running, ranOk \ overran, failed \ overran>>
    BY <1>1 DEF Enqueue, workerVars, historyVars, Running
  <2>3. Phase[j] = "absent" /\ Phase' = [Phase EXCEPT ![j] = "open"]
    BY <2>1, PhaseOfOne
  <2>4. Contract!Submit(j)
    BY <2>2, <2>3 DEF Contract!Submit
  <2>5. QED
    BY <2>4 DEF Contract!Next
<1>2. ASSUME NEW j \in Job, Mature(j) \/ AbandonedLockAges(j) PROVE Goal
    BY <1>2, Invisible DEF Mature, AbandonedLockAges, workerVars, historyVars
<1>void. ASSUME NEW j \in Job, HeldLockAges(j) PROVE Goal
  <2>1. /\ status[j] = "in_progress" /\ overran' = overran \cup {j}
        /\ UNCHANGED <<status, pc, cur, ranOk, failed>>
    BY <1>void DEF HeldLockAges, Claimed, workerVars
  <2>2. CASE j \in overran
    <3>1. overran' = overran
      BY <2>1, <2>2
    <3>2. QED
      BY <2>1, <3>1, Invisible
  <2>3. CASE j \notin overran
    <3>1. Phase[j] = "open" /\ Phase' = [Phase EXCEPT ![j] = "void"]
      BY <2>1, <2>3 DEF Phase
    <3>2. Running' = Running \ {j}
      BY <2>1 DEF Running
    <3>3. (ranOk \ overran)' = (ranOk \ overran) \ {j}
      BY <2>1
    <3>4. (failed \ overran)' = (failed \ overran) \ {j}
      BY <2>1
    <3>5. Contract!Forfeit(j)
      BY <3>1, <3>2, <3>3, <3>4 DEF Contract!Forfeit
    <3>6. QED
      BY <3>5 DEF Contract!Next
  <2>4. QED
    BY <2>2, <2>3
<1>3. ASSUME NEW w \in Worker, Stop(w) \/ Wake(w) \/ EndBatch(w) PROVE Goal
    BY <1>3, Invisible DEF Stop, Wake, EndBatch, tableVars, historyVars
<1>4. ASSUME NEW w \in Worker, Reap(w) \/ Claim(w) \/ ClaimFails(w) PROVE Goal
  <2>1. \A j \in Job : \/ status'[j] = status[j]
                       \/ {status[j], status'[j]} \subseteq {"pending", "in_progress"}
    BY <1>4 DEF Reap, Stuck, Claim, ClaimFails, ClaimRows, Claimable
  <2>2. UNCHANGED <<cur, ranOk, failed, overran>>
    BY <1>4 DEF Reap, Claim, ClaimFails, historyVars
  <2>3. Phase' = Phase
    BY <2>1, <2>2, SamePhase
  <2>4. \A v \in Worker : pc'[v] = "run" <=> pc[v] = "run"
    BY <1>4 DEF Reap, Claim, ClaimFails, AtClaim
  <2>5. Running' = Running
    BY <2>2, <2>4 DEF Running
  <2>6. QED
    BY <2>2, <2>3, <2>5 DEF Contract!vars
<1>5. ASSUME NEW w \in Worker, NEW j \in Job, Dispatch(w, j) PROVE Goal
  <2>1. /\ pc[w] = "batch" /\ j \in batch[w]
        /\ cur' = [cur EXCEPT ![w] = j] /\ pc' = [pc EXCEPT ![w] = "run"]
        /\ UNCHANGED <<status, ranOk, failed, overran>>
    BY <1>5 DEF Dispatch, tableVars, historyVars
  <2>2. Phase' = Phase
    BY <2>1 DEF Phase
  <2>3. CASE j \in overran
    <3>1. Running' = Running
      BY <2>1, <2>3 DEF Running
    <3>2. QED
      BY <2>1, <2>2, <3>1 DEF Contract!vars
  <2>4. CASE j \notin overran
    <3>1. j \notin Running /\ Phase[j] = "open"
      BY <2>1, <2>4, <1>own, <1>run DEF Running, Phase
    <3>2. Running' = Running \cup {j}
      BY <2>1, <2>4 DEF Running
    <3>3. Contract!Start(j)
      BY <2>1, <2>2, <3>1, <3>2 DEF Contract!Start
    <3>4. QED
      BY <3>3 DEF Contract!Next
  <2>5. QED
    BY <2>3, <2>4
<1>6. ASSUME NEW w \in Worker, NEW j \in Job, Release(w, j) PROVE Goal
  <2>1. /\ pc[w] = "batch" /\ pc' = [pc EXCEPT ![w] = "batch"] /\ j \in batch[w]
        /\ cur' = [cur EXCEPT ![w] = NoJob] /\ UNCHANGED <<ranOk, failed, overran>>
        /\ status' = [status EXCEPT ![j] = "pending"]
    BY <1>6 DEF Release, NextJob, WriteStatus
  <2>2. j \notin overran => status[j] = "in_progress"
    BY <2>1, <1>own
  <2>3. Phase' = Phase
    BY <2>1, <2>2, SamePhase
  <2>4. Running' = Running
    BY <2>1 DEF Running
  <2>5. QED
    BY <2>1, <2>3, <2>4 DEF Contract!vars
<1>7. ASSUME NEW w \in Worker, NEW j \in Job, ReleaseFails(w, j) PROVE Goal
    BY <1>7, Invisible DEF ReleaseFails, NextJob, tableVars, historyVars
<1>8. ASSUME NEW w \in Worker, NEW o \in Outcome, Return(w, o) PROVE Goal
  <2> DEFINE j == cur[w]
  <2>1. /\ pc[w] = "run" /\ pc' = [pc EXCEPT ![w] = o] /\ o # "run"
        /\ UNCHANGED <<status, cur, overran>>
    BY <1>8 DEF Return, tableVars, Outcome
  <2>2. j \in Job /\ j \in batch[w]
    BY <2>1, <1>run
  <2>3. Phase' = Phase
    BY <2>1 DEF Phase
  <2>4. CASE j \in overran
    <3>1. Running' = Running
      BY <2>1, <2>4 DEF Running
    <3>2. UNCHANGED <<ranOk \ overran, failed \ overran>>
      BY <1>8, <2>1, <2>4 DEF Return
    <3>3. QED
      BY <2>3, <3>1, <3>2 DEF Contract!vars
  <2>5. CASE j \notin overran
    <3>1. j \in Running /\ Running' = Running \ {j}
      BY <2>1, <2>2, <2>5, <1>own, <1>run DEF Running
    <3>2. Contract!Succeed(j) \/ Contract!Fail(j)
      BY <1>8, <2>1, <2>3, <2>5, <3>1 DEF Return, Contract!Succeed, Contract!Fail
    <3>3. QED
      BY <2>2, <3>2 DEF Contract!Next
  <2>6. QED
    BY <2>4, <2>5
<1>9. ASSUME NEW w \in Worker, Report(w) PROVE Goal
  <2> DEFINE j == cur[w]
             v == Verdict(w, cur[w])
  <2>1. /\ pc[w] \in Outcome /\ pc' = [pc EXCEPT ![w] = "batch"]
        /\ cur' = [cur EXCEPT ![w] = NoJob] /\ UNCHANGED <<ranOk, failed, overran>>
        /\ status' = [status EXCEPT ![j] = v]
    BY <1>9 DEF Report, NextJob, WriteStatus, historyVars
  <2>2. j \in Job /\ j \in batch[w] /\ (j \notin overran => status[j] = "in_progress")
    BY <2>1, <1>own, <1>run
  <2>3. Running' = Running
    BY <2>1 DEF Running, Outcome
  <2>4. j \notin Running
    BY <2>1, <2>2, <1>own, <1>run DEF Running, Outcome
  <2>5. v \in {"completed", "dead", "pending"}
    BY <2>1 DEF Verdict, Outcome
  <2>6. CASE v = "pending" \/ j \in overran
    <3>1. Phase' = Phase
      BY <2>1, <2>2, <2>6, SamePhase
    <3>2. QED
      BY <2>1, <2>3, <3>1 DEF Contract!vars
  <2>7. CASE v \in {"completed", "dead"} /\ j \notin overran
    <3>1. Phase[j] = "open" /\ Phase' = [Phase EXCEPT ![j] = v]
      BY <2>1, <2>2, <2>7, PhaseOfOne DEF Phase
    <3>2. \/ v = "completed" /\ j \in ranOk \ overran
          \/ v = "dead" /\ j \in failed \ overran
      BY <2>1, <2>7 DEF ResultInv, Verdict, Outcome
    <3>3. Contract!Close(j, v)
      BY <2>1, <2>3, <2>4, <3>1, <3>2 DEF Contract!Close
    <3>4. QED
      BY <2>2, <2>7, <3>3 DEF Contract!Next
  <2>8. QED
    BY <2>5, <2>6, <2>7
<1>10. ASSUME NEW w \in Worker, ReportFails(w) PROVE Goal
    BY <1>10, Invisible DEF ReportFails, NextJob, tableVars, historyVars, Outcome
<1>11. ASSUME NEW r \in Replica, Crash(r) PROVE Goal
  <2>1. UNCHANGED <<status, ranOk, failed, overran>>
    BY <1>11 DEF Crash, tableVars, historyVars
  <2>2. Running' \subseteq Running
    BY <1>11, <2>1 DEF Crash, Running
  <2>3. Running' = Running \ (Running \ Running')
    BY <2>2
  <2>4. Contract!Abort(Running \ Running')
    BY <2>1, <2>3 DEF Contract!Abort, Phase
  <2>5. QED
    BY <2>4 DEF Contract!Next
<1>12. ASSUME NEW r \in Replica, Trigger(r) \/ Restart(r) PROVE Goal
  <2>1. UNCHANGED <<status, ranOk, failed, overran, cur>>
    BY <1>12 DEF Trigger, Restart, tableVars, historyVars
  <2>2. \A w \in Worker : pc'[w] = "run" <=> pc[w] = "run"
    BY <1>12 DEF Trigger, Restart
  <2>3. QED
    BY <2>1, <2>2, Invisible
<1>13. CASE UNCHANGED vars
    BY <1>13, Invisible DEF vars, tableVars, workerVars, historyVars
<1>14. QED
    BY <1>1, <1>2, <1>void, <1>3, <1>4, <1>5, <1>6, <1>7, <1>8, <1>9, <1>10, <1>11, <1>12, <1>13
    DEF Next, WorkerStep

(* For any number of jobs, workers and replicas the table and its workers  *)
(* implement the contract: a job whose lock has not grown too old in a     *)
(* live worker's hands has one run at a time, and is closed once and for   *)
(* all after a run with the result the row states.                         *)
THEOREM QueueImplementsContract == Spec => ImplementsContract
<1>1. Init => Contract!Init
    BY DEF Init, Contract!Init, Phase, Running
<1>2. QED
    BY <1>1, ContractInvariant, StepImplementsContract, PTL
    DEF Spec, ImplementsContract, Contract!Spec

-----------------------------------------------------------------------------
(* The process the workers live in, with their receivers of the broadcast. *)
CONSTANTS MaxBatch, MaxAccounts, MaxRequests, MaxTicks
VARIABLES main, broadcast, unread, place, left, requests, ticks, overdue, rounds
Life == INSTANCE Shutdown WITH pc <- place, signal <- broadcast, due <- overdue

(* main returns when it has joined every task, and a stopped task stays.   *)
Places == {"top", "claim", "pause", "idle", "batch", "run", "stopped",
           "connect", "listen", "delay", "round", "wait"}
JoinInv ==
    /\ place \in [Life!Task -> Places] /\ left \in [Life!Task -> Int]
    /\ main = "stopped" => \A t \in Life!Task : place[t] = "stopped"
    /\ \A t \in Life!Task : place[t] = "stopped" => left[t] = 0

LEMMA JoinInit == Life!Init => JoinInv
BY DEF Life!Init, JoinInv, Places

(* A step of a task leaves main and the other tasks alone; the task that   *)
(* stops has nothing left.                                                 *)
LEMMA TaskKeepsJoin ==
    ASSUME JoinInv, main # "stopped", NEW t \in Life!Task, Life!TaskStep(t)
    PROVE  JoinInv'
<1> USE DEF JoinInv, Places
<1>1. ASSUME NEW u \in Life!Task, NEW l \in Places, NEW n \in Int, Life!Goto(u, l, n),
             l = "stopped" => n = 0, UNCHANGED main
      PROVE  JoinInv'
  BY <1>1 DEF Life!Goto
<1>2. UNCHANGED main
  BY DEF Life!TaskStep, Life!Top, Life!Notice, Life!Wake, Life!Next1, Life!Done, Life!Claim,
     Life!Connect, Life!Delay, Life!Round, Life!NextRound, Life!mainVars
<1>3. CASE Life!Top(t) \/ Life!Notice(t) \/ Life!Wake(t)
  BY <1>1, <1>2, <1>3 DEF Life!Top, Life!Notice, Life!Wake
<1>4. CASE Life!Next1(t) \/ Life!Done(t)
  <2>1. left[t] \in Int /\ left[t] - 1 \in Int
    OBVIOUS
  <2> QED BY <1>1, <1>2, <1>4, <2>1 DEF Life!Next1, Life!Done
<1>5. CASE Life!Claim(t) \/ (t = Life!Listener /\ Life!Connect)
  <2>1. \A n \in 1..MaxBatch : n \in Int
    OBVIOUS
  <2> QED BY <1>1, <1>2, <1>5, <2>1 DEF Life!Claim, Life!Connect
<1>6. CASE t = Life!Reconciler /\ (Life!Delay \/ Life!Round \/ Life!NextRound)
  <2>1. CASE Life!Delay \/ Life!NextRound
    BY <1>1, <1>2, <1>6, <2>1 DEF Life!Delay, Life!NextRound
  <2>2. CASE Life!Round
    BY <1>1, <1>2, <1>6, <2>2 DEF Life!Round
  <2> QED BY <1>6, <2>1, <2>2
<1> QED BY <1>3, <1>4, <1>5, <1>6 DEF Life!TaskStep

LEMMA JoinStep == JoinInv /\ [Life!Next]_(Life!vars) => JoinInv'
<1> SUFFICES ASSUME JoinInv, [Life!Next]_(Life!vars) PROVE JoinInv'
  OBVIOUS
<1>1. CASE UNCHANGED Life!vars
  BY <1>1 DEF JoinInv, Life!vars, Life!mainVars, Life!taskVars
<1>2. CASE main # "stopped" /\ (Life!MainStep \/ Life!Signal \/ Life!Request \/ Life!Tick)
  <2>1. UNCHANGED Life!taskVars
    BY <1>2 DEF Life!MainStep, Life!Watch, Life!Serve, Life!Signal, Life!Trigger, Life!Request,
       Life!Respond, Life!Drain, Life!Exit, Life!Tick
  <2>2. main' = "stopped" => \A t \in Life!Task : place[t] = "stopped"
    BY <1>2 DEF Life!MainStep, Life!Watch, Life!Serve, Life!Signal, Life!Trigger, Life!Request,
       Life!Respond, Life!Drain, Life!Exit, Life!Tick, Life!mainVars
  <2> QED BY <2>1, <2>2 DEF JoinInv, Life!taskVars
<1> QED BY <1>1, <1>2, TaskKeepsJoin DEF Life!Next

(* When main returns no task has a job it neither ran nor released.        *)
THEOREM JoinedTasksAreDone == Life!Spec => []Life!NothingInFlightAtExit
<1>1. JoinInv => Life!NothingInFlightAtExit
  BY DEF JoinInv, Life!NothingInFlightAtExit
<1> QED BY <1>1, JoinInit, JoinStep, PTL DEF Life!Spec
=============================================================================
