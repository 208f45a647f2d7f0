------------------------------- MODULE JobQueue -------------------------------
(***************************************************************************)
(* The durable job queue: the jobs table (migrations/007_jobs.sql), the    *)
(* queue operations of services/jobs.rs and the polling workers of         *)
(* tasks/job_worker.rs, with the shutdown guard they share                 *)
(* (tasks/shutdown.rs).                                                    *)
(*                                                                         *)
(* Every SQL statement is one atomic step.  Between two statements of a    *)
(* worker any other worker may run, its process may be killed, and a lock  *)
(* may grow older than STUCK_LOCK_SECS.  Time is abstracted to three       *)
(* facts: a pending row is due or not (next_run_at <= now()), a lock is    *)
(* older than STUCK_LOCK_SECS or not, and a timer may fire whenever it is  *)
(* armed.                                                                  *)
(***************************************************************************)
EXTENDS Integers, FiniteSets

CONSTANTS
    MaxJobs,      \* ids handed out by BIGSERIAL: the jobs are 1..MaxJobs
    Worker,       \* the worker tasks of all replicas
    Replica,      \* the processes
    Host,         \* Host[w] is the process worker task w runs in
    NoJob,        \* "no job is being dispatched"
    NoWorker,     \* locked_by IS NULL
    BatchSize,    \* BATCH_SIZE
    MaxAttempts,  \* the max_attempts column
    MaxFaults     \* bound: process kills, claims and result writes that fail,
                  \* locks that age while their worker is still at it, SIGTERMs

Job == 1..MaxJobs

ASSUME JobQueueAssumption ==
    /\ MaxJobs \in Nat
    /\ BatchSize \in Nat \ {0}
    /\ MaxAttempts \in Nat \ {0}
    /\ MaxFaults \in Nat
    /\ Host \in [Worker -> Replica]
    /\ NoJob \notin Job
    /\ NoWorker \notin Worker

VARIABLES
    status,    \* status[j]: the column, "absent" before the INSERT
    attempts,  \* attempts[j]: the column
    due,       \* due[j]: next_run_at <= now()
    lockedBy,  \* lockedBy[j]: the worker whose claim set locked_by
    lockOld,   \* lockOld[j]: locked_at < now() - STUCK_LOCK_SECS
    pc,        \* pc[w]: where worker w is in its loop
    batch,     \* batch[w]: claimed rows worker w has not finished with
    cur,       \* cur[w]: the row of the batch being dispatched
    got,       \* got[w][j]: attempts in the Job record the claim returned
    signal,    \* signal[w]: the shutdown broadcast is unread in w's receiver
    faults,    \* how much of the bound is used
    ranOk,     \* history: the jobs some dispatch of which returned Ok
    failed,    \* history: the jobs some dispatch of which returned Err
    overran,   \* history: the jobs whose lock aged in a live worker's hands
    spare      \* history: spare[j] counts the returns of j to pending that
               \* no attempts check guards (reaps and shutdown releases)

tableVars   == <<status, attempts, due, lockedBy, lockOld>>
workerVars  == <<pc, batch, cur, got, signal>>
historyVars == <<ranOk, failed, overran, spare>>
vars == <<tableVars, workerVars, faults, historyVars>>

Finished == {"completed", "dead"}
Status   == {"absent", "pending", "in_progress"} \cup Finished

(* "top", "claim": before the reap and before the claim; "idle": the       *)
(* select! after an empty claim; "batch": between two jobs; "run":         *)
(* dispatch; "ok", "terminal", "retry": dispatch has returned and its      *)
(* result is not written; "stopped": run() has returned; "down": the       *)
(* process is dead.                                                        *)
Outcome == {"ok", "terminal", "retry"}
PC      == {"top", "claim", "idle", "batch", "run", "stopped", "down"} \cup Outcome

Init ==
    /\ status   = [j \in Job |-> "absent"]
    /\ attempts = [j \in Job |-> 0]
    /\ due      = [j \in Job |-> FALSE]
    /\ lockedBy = [j \in Job |-> NoWorker]
    /\ lockOld  = [j \in Job |-> FALSE]
    /\ pc       = [w \in Worker |-> "top"]
    /\ batch    = [w \in Worker |-> {}]
    /\ cur      = [w \in Worker |-> NoJob]
    /\ got      = [w \in Worker |-> [j \in Job |-> 0]]
    /\ signal   = [w \in Worker |-> FALSE]
    /\ faults = 0
    /\ ranOk = {} /\ failed = {} /\ overran = {}
    /\ spare    = [j \in Job |-> 0]

Fault == faults < MaxFaults /\ faults' = faults + 1

-----------------------------------------------------------------------------
(* Producers and clocks.                                                   *)

(* enqueue: INSERT with the next id; delay_secs = 0 makes it due at once.  *)
Enqueue(j) ==
    /\ status[j] = "absent"
    /\ \A i \in Job : i < j => status[i] # "absent"
    /\ \E now \in BOOLEAN : due' = [due EXCEPT ![j] = now]
    /\ status' = [status EXCEPT ![j] = "pending"]
    /\ UNCHANGED <<attempts, lockedBy, lockOld, workerVars, faults, historyVars>>

(* The clock passes next_run_at.                                           *)
Mature(j) ==
    /\ status[j] = "pending" /\ ~due[j]
    /\ due' = [due EXCEPT ![j] = TRUE]
    /\ UNCHANGED <<status, attempts, lockedBy, lockOld, workerVars, faults, historyVars>>

Claimed(j) == status[j] = "in_progress" /\ lockedBy[j] # NoWorker

(* The lock of a row nobody is working on any more passes STUCK_LOCK_SECS. *)
AbandonedLockAges(j) ==
    /\ Claimed(j) /\ ~lockOld[j]
    /\ j \notin batch[lockedBy[j]]
    /\ lockOld' = [lockOld EXCEPT ![j] = TRUE]
    /\ UNCHANGED <<status, attempts, due, lockedBy, workerVars, faults, historyVars>>

(* The lock of a row still in its worker's batch passes STUCK_LOCK_SECS:   *)
(* "slightly above the longest legitimate sync" (job_worker.rs:18-19), but *)
(* locked_at is written once for the whole batch, no dispatch is cut off   *)
(* at that age, and the process may stall.                                 *)
HeldLockAges(j) ==
    /\ Fault
    /\ Claimed(j) /\ ~lockOld[j]
    /\ j \in batch[lockedBy[j]]
    /\ lockOld' = [lockOld EXCEPT ![j] = TRUE]
    /\ overran' = overran \cup {j}
    /\ UNCHANGED <<status, attempts, due, lockedBy, workerVars, ranOk, failed, spare>>

-----------------------------------------------------------------------------
(* The worker loop.                                                        *)

(* is_triggered() and wait() both take the message out of the receiver.    *)
TakeSignal(w) == signal' = [signal EXCEPT ![w] = FALSE]

(* Shutdown seen at the top of the loop or in the idle select!.            *)
Stop(w) ==
    /\ pc[w] \in {"top", "idle"} /\ signal[w]
    /\ TakeSignal(w)
    /\ pc' = [pc EXCEPT ![w] = "stopped"]
    /\ UNCHANGED <<tableVars, batch, cur, got, faults, historyVars>>

(* Faulty variants of Stuck: no age test; a test that locked_by is NULL.   *)
StuckAnyAge   == {j \in Job : status[j] = "in_progress"}
StuckUnlocked == {j \in Job : status[j] = "in_progress" /\ lockOld[j] /\ lockedBy[j] = NoWorker}

Stuck == {j \in Job : status[j] = "in_progress" /\ lockOld[j]}

(* reap_stuck, every 120 s, before the claim.                              *)
Reap(w) ==
    /\ pc[w] = "top" /\ ~signal[w]
    /\ status'   = [j \in Job |-> IF j \in Stuck THEN "pending" ELSE status[j]]
    /\ due'      = [j \in Job |-> j \in Stuck \/ due[j]]
    /\ lockedBy' = [j \in Job |-> IF j \in Stuck THEN NoWorker ELSE lockedBy[j]]
    /\ lockOld'  = [j \in Job |-> j \notin Stuck /\ lockOld[j]]
    /\ spare'    = [j \in Job |-> IF j \in Stuck THEN spare[j] + 1 ELSE spare[j]]
    /\ pc' = [pc EXCEPT ![w] = "claim"]
    /\ UNCHANGED <<attempts, batch, cur, got, signal, faults,
                   ranOk, failed, overran>>

(* Faulty variant: the status test dropped from the subselect.             *)
ClaimableAnyStatus == {j \in Job : status[j] # "absent" /\ due[j]}

Claimable == {j \in Job : status[j] = "pending" /\ due[j]}

(* ORDER BY id LIMIT BatchSize.                                            *)
Oldest(S) ==
    /\ S \subseteq Claimable
    /\ Cardinality(S) <= BatchSize
    /\ \A i \in S, k \in Claimable \ S : i < k
    /\ Cardinality(S) < BatchSize => S = Claimable

(* The UPDATE of claim_batch on the rows S.                                *)
ClaimRows(w, S) ==
    /\ status'   = [j \in Job |-> IF j \in S THEN "in_progress" ELSE status[j]]
    /\ lockedBy' = [j \in Job |-> IF j \in S THEN w ELSE lockedBy[j]]
    /\ lockOld'  = [j \in Job |-> j \notin S /\ lockOld[j]]
    /\ attempts' = [j \in Job |-> IF j \in S THEN attempts[j] + 1 ELSE attempts[j]]

AtClaim(w) == pc[w] = "claim" \/ (pc[w] = "top" /\ ~signal[w])

(* claim_batch, and the branch on an empty result.                         *)
Claim(w) ==
    /\ AtClaim(w)
    /\ \E S \in SUBSET Claimable :
        /\ Oldest(S)
        /\ ClaimRows(w, S)
        /\ batch' = [batch EXCEPT ![w] = S]
        /\ got' = [got EXCEPT ![w] = [j \in Job |-> IF j \in S THEN attempts[j] + 1 ELSE 0]]
        /\ pc' = [pc EXCEPT ![w] = IF S = {} THEN "idle" ELSE "batch"]
    /\ UNCHANGED <<due, cur, signal, faults, historyVars>>

(* claim_batch returns an error: either nothing happened, or the UPDATE    *)
(* committed and its rows never reached the worker.                        *)
ClaimFails(w) ==
    /\ Fault
    /\ AtClaim(w)
    /\ \E S \in SUBSET Claimable :
        /\ S = {} \/ Oldest(S)
        /\ ClaimRows(w, S)
    /\ pc' = [pc EXCEPT ![w] = "idle"]
    /\ UNCHANGED <<due, batch, cur, got, signal, historyVars>>

(* The select!: a notification or the poll timer.                          *)
Wake(w) ==
    /\ pc[w] = "idle"
    /\ pc' = [pc EXCEPT ![w] = "top"]
    /\ UNCHANGED <<tableVars, batch, cur, got, signal, faults, historyVars>>

EndBatch(w) ==
    /\ pc[w] = "batch" /\ batch[w] = {}
    /\ pc' = [pc EXCEPT ![w] = "top"]
    /\ UNCHANGED <<tableVars, batch, cur, got, signal, faults, historyVars>>

(* The for loop takes a job of the batch and dispatches it.                *)
Dispatch(w, j) ==
    /\ pc[w] = "batch" /\ j \in batch[w] /\ ~signal[w]
    /\ cur' = [cur EXCEPT ![w] = j]
    /\ pc' = [pc EXCEPT ![w] = "run"]
    /\ UNCHANGED <<tableVars, batch, got, signal, faults, historyVars>>

(* dispatch() returns: Ok, a terminal error, or an error worth a retry.    *)
Return(w, outcome) ==
    /\ pc[w] = "run"
    /\ pc' = [pc EXCEPT ![w] = outcome]
    /\ IF outcome = "ok"
       THEN ranOk' = ranOk \cup {cur[w]} /\ UNCHANGED failed
       ELSE failed' = failed \cup {cur[w]} /\ UNCHANGED ranOk
    /\ UNCHANGED <<tableVars, batch, cur, got, signal, faults, overran, spare>>

(* complete, fail_retry and fail_dead: UPDATE ... WHERE id = j, whatever   *)
(* the row's status and owner are by now.                                  *)
WriteStatus(j, s) ==
    /\ status'   = [status EXCEPT ![j] = s]
    /\ lockedBy' = [lockedBy EXCEPT ![j] = NoWorker]
    /\ lockOld'  = [lockOld EXCEPT ![j] = FALSE]
    /\ due'      = [due EXCEPT ![j] = IF s = "pending" THEN FALSE ELSE @]

NextJob(w, j) ==
    /\ batch' = [batch EXCEPT ![w] = @ \ {j}]
    /\ got'   = [got EXCEPT ![w][j] = 0]
    /\ cur'   = [cur EXCEPT ![w] = NoJob]
    /\ pc'    = [pc EXCEPT ![w] = "batch"]

(* Shutdown seen between two jobs: the job goes back with fail_retry.      *)
Release(w, j) ==
    /\ pc[w] = "batch" /\ j \in batch[w] /\ signal[w]
    /\ TakeSignal(w)
    /\ WriteStatus(j, "pending")
    /\ NextJob(w, j)
    /\ spare' = [spare EXCEPT ![j] = @ + 1]
    /\ UNCHANGED <<attempts, faults, ranOk, failed, overran>>

(* Faulty variants: a status the table's CHECK does not know; an error     *)
(* taken for success; one attempt too many.                                *)
VerdictUnknown(w, j) == IF pc[w] = "ok" THEN "completed" ELSE "failed"
VerdictSwapped(w, j) == IF pc[w] = "retry" THEN "pending" ELSE "completed"
VerdictLate(w, j) ==
    CASE pc[w] = "ok"       -> "completed"
      [] pc[w] = "terminal" -> "dead"
      [] pc[w] = "retry"    -> IF got[w][j] > MaxAttempts THEN "dead" ELSE "pending"

(* The match on dispatch's result.                                         *)
Verdict(w, j) ==
    CASE pc[w] = "ok"       -> "completed"
      [] pc[w] = "terminal" -> "dead"
      [] pc[w] = "retry"    -> IF got[w][j] >= MaxAttempts THEN "dead" ELSE "pending"

Report(w) ==
    /\ pc[w] \in Outcome
    /\ WriteStatus(cur[w], Verdict(w, cur[w]))
    /\ NextJob(w, cur[w])
    /\ UNCHANGED <<attempts, signal, faults, historyVars>>

(* The result write fails; the error is logged or dropped.                 *)
ReportFails(w) ==
    /\ Fault
    /\ pc[w] \in Outcome
    /\ NextJob(w, cur[w])
    /\ UNCHANGED <<tableVars, signal, historyVars>>

(* The same for the fail_retry of a release; the shutdown is the fault     *)
(* that is counted.                                                        *)
ReleaseFails(w, j) ==
    /\ pc[w] = "batch" /\ j \in batch[w] /\ signal[w]
    /\ TakeSignal(w)
    /\ NextJob(w, j)
    /\ UNCHANGED <<tableVars, faults, historyVars>>

-----------------------------------------------------------------------------
(* Processes.                                                              *)

TasksOf(r) == {w \in Worker : Host[w] = r}

(* SIGTERM: Shutdown::trigger sends the broadcast to every receiver.       *)
Trigger(r) ==
    /\ Fault
    /\ \E w \in TasksOf(r) : pc[w] \notin {"stopped", "down"}
    /\ signal' = [w \in Worker |->
                    signal[w] \/ (w \in TasksOf(r) /\ pc[w] \notin {"stopped", "down"})]
    /\ UNCHANGED <<tableVars, pc, batch, cur, got, historyVars>>

(* The process dies (kill, panic = "abort", lost machine): its rows stay.  *)
Crash(r) ==
    /\ Fault
    /\ \E w \in TasksOf(r) : pc[w] # "down"
    /\ pc'     = [w \in Worker |-> IF w \in TasksOf(r) THEN "down" ELSE pc[w]]
    /\ batch'  = [w \in Worker |-> IF w \in TasksOf(r) THEN {} ELSE batch[w]]
    /\ cur'    = [w \in Worker |-> IF w \in TasksOf(r) THEN NoJob ELSE cur[w]]
    /\ signal' = [w \in Worker |-> signal[w] /\ w \notin TasksOf(r)]
    /\ got'    = [w \in Worker |-> IF w \in TasksOf(r) THEN [j \in Job |-> 0] ELSE got[w]]
    /\ UNCHANGED <<tableVars, historyVars>>

(* main joins every worker before it exits, so a new process starts only   *)
(* when all tasks of the old one have stopped or died.                     *)
Restart(r) ==
    /\ TasksOf(r) # {}
    /\ \A w \in TasksOf(r) : pc[w] \in {"stopped", "down"}
    /\ pc' = [w \in Worker |-> IF w \in TasksOf(r) THEN "top" ELSE pc[w]]
    /\ UNCHANGED <<tableVars, batch, cur, got, signal, faults, historyVars>>

-----------------------------------------------------------------------------

WorkerStep(w) ==
    \/ Stop(w) \/ Reap(w) \/ Claim(w) \/ ClaimFails(w) \/ Wake(w) \/ EndBatch(w)
    \/ \E j \in Job : Dispatch(w, j) \/ Release(w, j) \/ ReleaseFails(w, j)
    \/ \E o \in Outcome : Return(w, o)
    \/ Report(w) \/ ReportFails(w)

Next ==
    \/ \E j \in Job : \/ Enqueue(j) \/ Mature(j)
                      \/ AbandonedLockAges(j) \/ HeldLockAges(j)
    \/ \E w \in Worker : WorkerStep(w)
    \/ \E r \in Replica : Trigger(r) \/ Crash(r) \/ Restart(r)

Spec == Init /\ [][Next]_vars

(***************************************************************************)
(* Fairness.  Clocks advance; a task that can run is scheduled by tokio; a *)
(* dispatch returns (every upstream call has a timeout); a stopped process *)
(* is started again by the orchestrator.  The reap is on a timer the loop  *)
(* keeps passing (at most 2 s per idle turn), so it is strongly fair.      *)
(* Faults, signals, overruns and new jobs are never promised.              *)
(***************************************************************************)
Progress(w) ==
    \/ Stop(w) \/ Claim(w) \/ Wake(w) \/ EndBatch(w) \/ Report(w)
    \/ \E j \in Job : Dispatch(w, j) \/ Release(w, j)
    \/ \E o \in Outcome : Return(w, o)

Fairness ==
    /\ \A j \in Job : WF_vars(Mature(j)) /\ WF_vars(AbandonedLockAges(j))
    /\ \A w \in Worker : WF_vars(Progress(w)) /\ SF_vars(Reap(w))
    /\ \A r \in Replica : WF_vars(Restart(r))

FairSpec == Spec /\ Fairness

-----------------------------------------------------------------------------
(* Properties.                                                             *)

(* Type invariant: every column, program counter and counter has its type. *)
TypeOK ==
    /\ status \in [Job -> Status]
    /\ attempts \in [Job -> Nat]
    /\ due \in [Job -> BOOLEAN]
    /\ lockedBy \in [Job -> Worker \cup {NoWorker}]
    /\ lockOld \in [Job -> BOOLEAN]
    /\ pc \in [Worker -> PC]
    /\ batch \in [Worker -> SUBSET Job]
    /\ cur \in [Worker -> Job \cup {NoJob}]
    /\ got \in [Worker -> [Job -> Nat]]
    /\ signal \in [Worker -> BOOLEAN]
    /\ faults \in Nat
    /\ ranOk \subseteq Job /\ failed \subseteq Job /\ overran \subseteq Job
    /\ spare \in [Job -> Nat]

(* A job is in at most one worker's batch, and that worker still owns the  *)
(* row, as long as no lock of the job aged in a live worker's hands:       *)
(* crashes, failed writes, restarts and shutdowns never make two workers   *)
(* run one job (007_jobs.sql: "without double-processing").                *)
OwnedUnlessOverrun ==
    \A j \in Job \ overran : \A w \in Worker :
        j \in batch[w] => status[j] = "in_progress" /\ lockedBy[j] = w

(* Two workers that hold the same job, which only an overrun allows, hold  *)
(* it under different attempt numbers, none above the row's: an attempt    *)
(* number is handed out once, so it could serve as a fencing token.        *)
AttemptsAreTokens ==
    \A w \in Worker : \A j \in batch[w] :
        /\ got[w][j] <= attempts[j]
        /\ \A v \in Worker \ {w} : j \in batch[v] => got[v][j] # got[w][j]

(* Only a reap or a shutdown release, neither of which looks at            *)
(* max_attempts, can take a job past its attempt budget; the worker's own  *)
(* retry path never does.                                                  *)
AttemptBudget ==
    \A j \in Job \ overran : attempts[j] <= MaxAttempts + spare[j]

(* A finished job was really run: completed only after a dispatch that     *)
(* returned Ok, dead only after one that returned an error.  No crash,     *)
(* reap or release finishes a job that never ran.                          *)
FinishedJobsRan ==
    \A j \in Job :
        /\ status[j] = "completed" => j \in ranOk
        /\ status[j] = "dead" => j \in failed

(* A finished job stays as it is, unless its lock aged while a worker held *)
(* it (then a late result overwrites the row, whatever it says).           *)
FinalUnlessOverrun ==
    [][\A j \in Job \ overran' :
         status[j] \in Finished => status'[j] = status[j]]_vars

(* An enqueued job is eventually completed or dead: neither crashes nor    *)
(* failed writes nor lost claims nor shutdowns lose it.                    *)
EveryJobFinishes ==
    \A j \in Job : status[j] # "absent" ~> status[j] \in Finished

(* The contract of the queue, seen through the table and the workers.      *)
Running == {j \in Job \ overran : \E w \in Worker : pc[w] = "run" /\ cur[w] = j}
Phase   == [j \in Job |-> IF j \in overran THEN "void"
                          ELSE IF status[j] \in {"pending", "in_progress"} THEN "open"
                          ELSE status[j]]

Contract == INSTANCE JobContract
                WITH phase <- Phase, running <- Running,
                     oks <- ranOk \ overran, errs <- failed \ overran

(* The queue implements the contract, in which a job is void from the      *)
(* moment its lock is older than STUCK_LOCK_SECS in a live worker's hands: *)
(* any other job has one run at a time and is closed once and for all,     *)
(* after a run with the result the row states.                             *)
ImplementsContract == Contract!Spec

=============================================================================
