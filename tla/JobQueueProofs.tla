--------------------------- MODULE JobQueueProofs ---------------------------
(* Proofs about JobQueue: its type invariant, the lock discipline, the     *)
(* exclusive execution of a job that was never requeued under its worker,  *)
(* and what enters and leaves the queue: one active row per resource, the  *)
(* overshoot of the cap, attempts, results and settlements.                *)
EXTENDS JobQueue, FiniteSetTheorems, TLAPS

USE JobQueueAssumption

\* A released row becomes failed or queued, and queued only with attempts left.
LEMMA RetryStatusFact ==
    ASSUME TypeOK, NEW j \in Jobs
    PROVE  /\ RetryStatus(j) \in {"failed", "queued"}
           /\ RetryStatus(j) = "queued" => attempts[j] < MaxAttempts
BY DEF RetryStatus, TypeOK

\* A resource field that is not in use still holds a resource.
LEMMA AnyResourceType == AnyResource \in Resources
BY DEF AnyResource

\* Settling a row keeps the domains of the columns.
LEMMA SettleFact ==
    ASSUME TypeOK, NEW j \in Jobs, NEW s \in Statuses, Settle(j, s)
    PROVE  /\ status'   \in [Jobs -> Statuses]
           /\ resource' \in [Jobs -> Resources]
           /\ lockedBy' \in [Jobs -> Lockers]
           /\ attempts' \in [Jobs -> 0..MaxAttempts]
           /\ createdAt' \in [Jobs -> Int]
           /\ fresh' \in [Jobs -> BOOLEAN]
<1>1. status' \in [Jobs -> Statuses]
  BY DEF Settle, TypeOK
<1>2. lockedBy' \in [Jobs -> Lockers]
  BY DEF Settle, TypeOK, Lockers
<1>3. fresh' \in [Jobs -> BOOLEAN]
  BY DEF Settle, TypeOK
<1> QED BY <1>1, <1>2, <1>3 DEF Settle, TypeOK

\* What every conditional release does to the rows: nothing, or it settles
\* a running row.
LEMMA IfRunningFact ==
    ASSUME TypeOK, NEW j \in Jobs, NEW s \in Statuses, IfRunning(j, s)
    PROVE  /\ status'   \in [Jobs -> Statuses]
           /\ resource' \in [Jobs -> Resources]
           /\ lockedBy' \in [Jobs -> Lockers]
           /\ attempts' \in [Jobs -> 0..MaxAttempts]
           /\ createdAt' \in [Jobs -> Int]
           /\ fresh' \in [Jobs -> BOOLEAN]
<1>1. CASE status[j] = "running"
  BY <1>1, SettleFact DEF IfRunning
<1>2. CASE status[j] # "running"
  BY <1>2 DEF IfRunning, TypeOK, rows
<1> QED BY <1>1, <1>2

\* The type invariant holds initially.
LEMMA TypeInit == Init => TypeOK
<1> SUFFICES ASSUME Init PROVE TypeOK
  OBVIOUS
<1> USE DEF Init
<1>1. status \in [Jobs -> Statuses] /\ lockedBy \in [Jobs -> Lockers]
  BY DEF Statuses, Active, Terminal, Lockers
<1>2. attempts \in [Jobs -> 0..MaxAttempts] /\ createdAt \in [Jobs -> Int]
  OBVIOUS
<1>3. outcome \in [Workers -> Outcomes]
  BY DEF Outcomes
<1>4. resource \in [Jobs -> Resources] /\ cres \in [Clients -> Resources]
  BY AnyResourceType
<1> QED BY <1>1, <1>2, <1>3, <1>4 DEF TypeOK

\* Every step of the workers, the enqueue calls, the sweeps and the restarts
\* keeps the domains of TypeOK.
LEMMA TypeStep == TypeOK /\ [Next]_vars => TypeOK'
<1> SUFFICES ASSUME TypeOK, [Next]_vars PROVE TypeOK'
  OBVIOUS
<1> USE DEF TypeOK
<1>t. {"queued", "running", "complete", "failed", "cancelled", "absent"} = Statuses
  BY DEF Statuses, Active, Terminal
<1>1. ASSUME NEW c \in Clients, NEW r \in Resources, EnqueueCount(c, r) PROVE TypeOK'
  BY <1>1 DEF EnqueueCount, rows, tasks, bounds, hist
<1>2. ASSUME NEW c \in Clients, find_active_job(c) PROVE TypeOK'
  BY <1>2, AnyResourceType DEF find_active_job, EndCall, rows, tasks, bounds, hist
<1>3. ASSUME NEW c \in Clients, EnqueueInsert(c) PROVE TypeOK'
  <2>1. cpc' \in [Clients -> {"idle", "find", "insert"}] /\ cres' \in [Clients -> Resources]
    BY <1>3, AnyResourceType DEF EnqueueInsert, EndCall
  <2>2. /\ status' \in [Jobs -> Statuses] /\ resource' \in [Jobs -> Resources]
        /\ createdAt' \in [Jobs -> Int] /\ fresh' \in [Jobs -> BOOLEAN] /\ clock' \in Nat
        /\ attempts' = attempts /\ lockedBy' = lockedBy
    <3>1. CASE UniqueIndexAllows(cres[c])
      <4>1. PICK j \in Jobs :
               /\ status'    = [status EXCEPT ![j] = "queued"]
               /\ resource'  = [resource EXCEPT ![j] = cres[c]]
               /\ createdAt' = [createdAt EXCEPT ![j] = clock]
               /\ fresh'     = [fresh EXCEPT ![j] = TRUE]
        BY <1>3, <3>1 DEF EnqueueInsert
      <4>2. status' \in [Jobs -> Statuses]
        BY <4>1, <1>t
      <4>3. resource' \in [Jobs -> Resources] /\ createdAt' \in [Jobs -> Int]
        BY <4>1
      <4>4. fresh' \in [Jobs -> BOOLEAN]
        BY <4>1
      <4>5. clock' = clock + 1 /\ attempts' = attempts /\ lockedBy' = lockedBy
        BY <1>3, <3>1 DEF EnqueueInsert
      <4> QED BY <4>2, <4>3, <4>4, <4>5
    <3>2. CASE ~UniqueIndexAllows(cres[c])
      BY <1>3, <3>2 DEF EnqueueInsert, rows
    <3> QED BY <3>1, <3>2
  <2> QED BY <1>3, <2>1, <2>2 DEF EnqueueInsert, tasks, bounds, hist
<1>4. ASSUME NEW w \in Workers, claim_next_job(w) PROVE TypeOK'
  BY <1>4, <1>t DEF claim_next_job, Claimable, Lockers, calls, bounds, hist
<1>5. ASSUME NEW w \in Workers, StartHandler(w) PROVE TypeOK'
  BY <1>5, <1>t, IfRunningFact DEF StartHandler, finalize_cancelled_running, rows, calls, bounds, hist
<1>6. ASSUME NEW w \in Workers, FinishWork(w) PROVE TypeOK'
  BY <1>6 DEF FinishWork, HandlerOutcomes, IngestOutcomes, ExportOutcomes, ZipOutcomes, Outcomes,
              WKind, rows, calls, bounds
<1>7. ASSUME NEW w \in Workers, HandlerError(w) PROVE TypeOK'
  BY <1>7 DEF HandlerError, rows, calls, bounds, hist
<1>8. ASSUME NEW w \in Workers, Recheck(w) PROVE TypeOK'
  BY <1>8, <1>t, IfRunningFact DEF Recheck, finalize_cancelled_running, rows, calls, bounds, hist
<1>9. ASSUME NEW w \in Workers, RecordOutcome(w) PROVE TypeOK'
  <2>1. wjob[w] \in Jobs
    BY <1>9 DEF RecordOutcome
  <2>2. PICK s \in Statuses : IfRunning(wjob[w], s)
    BY <1>9, <1>t, <2>1, RetryStatusFact DEF RecordOutcome, complete_job, fail_job,
       fail_job_permanent, finalize_cancelled_running
  <2> QED BY <1>9, <2>1, <2>2, IfRunningFact DEF RecordOutcome, calls, bounds, hist
<1>10. ASSUME NEW w \in Workers, ExecuteJobErr(w) PROVE TypeOK'
  <2>1. wjob[w] \in Jobs
    BY <1>10 DEF ExecuteJobErr
  <2>2. PICK s \in Statuses : IfRunning(wjob[w], s)
    BY <1>10, <1>t, <2>1, RetryStatusFact DEF ExecuteJobErr, fail_job, fail_job_permanent
  <2> QED BY <1>10, <2>1, <2>2, IfRunningFact DEF ExecuteJobErr, calls, bounds, hist
<1>11. ASSUME NEW w \in Workers, ensure_worker_released_job(w) PROVE TypeOK'
  <2>1. wjob[w] \in Jobs
    BY <1>11 DEF ensure_worker_released_job
  <2>2. /\ status' \in [Jobs -> Statuses] /\ resource' \in [Jobs -> Resources]
        /\ lockedBy' \in [Jobs -> Lockers] /\ fresh' \in [Jobs -> BOOLEAN]
        /\ createdAt' \in [Jobs -> Int] /\ attempts' \in [Jobs -> 0..MaxAttempts]
    <3>1. CASE status[wjob[w]] = "running" /\ lockedBy[wjob[w]] = w
      BY <1>11, <1>t, <2>1, <3>1, RetryStatusFact, SettleFact DEF ensure_worker_released_job
    <3>2. CASE ~(status[wjob[w]] = "running" /\ lockedBy[wjob[w]] = w)
      BY <1>11, <3>2 DEF ensure_worker_released_job, rows
    <3> QED BY <3>1, <3>2
  <2> QED BY <1>11, <2>1, <2>2 DEF ensure_worker_released_job, NextIteration, Outcomes,
             calls, bounds, hist
<1>12. ASSUME NEW w \in Workers, set_job_progress(w) PROVE TypeOK'
  BY <1>12 DEF set_job_progress, tasks, calls, bounds, hist
<1>13. ASSUME NEW w \in Workers, touch_job_heartbeat(w) PROVE TypeOK'
  BY <1>13 DEF touch_job_heartbeat, tasks, calls, bounds, hist
<1>14. ASSUME NEW w \in Workers, RecordError(w) PROVE TypeOK'
  BY <1>14 DEF RecordError, rows, calls, hist
<1>15. ASSUME NEW w \in Workers, SkipOnError(w) PROVE TypeOK'
  BY <1>15 DEF SkipOnError, NextIteration, Outcomes, rows, calls, hist
<1>16. ASSUME NEW j \in Jobs, cancel_job(j) PROVE TypeOK'
  BY <1>16, <1>t DEF cancel_job, Settle, Lockers, tasks, calls, bounds, hist
<1>17. ASSUME NEW j \in Jobs, GoStale(j) PROVE TypeOK'
  BY <1>17 DEF GoStale, tasks, calls, hist
<1>18. ASSUME NEW j \in Jobs, recover_stale_queued_jobs(j) PROVE TypeOK'
  BY <1>18 DEF recover_stale_queued_jobs, tasks, calls, hist
<1>19. ASSUME NEW j \in Jobs, fail_exhausted_queued_jobs(j) PROVE TypeOK'
  BY <1>19, <1>t DEF fail_exhausted_queued_jobs, Settle, Lockers, tasks, calls, bounds, hist
<1>20. ASSUME recover_stale_jobs PROVE TypeOK'
  BY <1>20, <1>t, RetryStatusFact DEF recover_stale_jobs, StaleRows, RequeueAll, Lockers, tasks, calls, bounds
<1>21. ASSUME recover_running_jobs_on_startup PROVE TypeOK'
  BY <1>21, <1>t, RetryStatusFact DEF recover_running_jobs_on_startup, RequeueAll, Lockers, tasks, calls, bounds
<1>22. ASSUME StartupError PROVE TypeOK'
  BY <1>22 DEF StartupError, rows, tasks, calls, hist
<1>23. ASSUME Restart PROVE TypeOK'
  BY <1>23, AnyResourceType DEF Restart, Lockers, Outcomes, hist
<1>24. ASSUME UNCHANGED vars PROVE TypeOK'
  BY <1>24 DEF vars, rows, tasks, calls, bounds, hist
<1> QED
  BY <1>1, <1>2, <1>3, <1>4, <1>5, <1>6, <1>7, <1>8, <1>9, <1>10, <1>11, <1>12, <1>13, <1>14,
     <1>15, <1>16, <1>17, <1>18, <1>19, <1>20, <1>21, <1>22, <1>23, <1>24 DEF Next, WorkerStep

\* The rows and the task states keep their domains in every behaviour of the
\* queue, for any number of rows, workers, calls, restarts and retries.
THEOREM TypeCorrect == Spec => []TypeOK
BY TypeInit, TypeStep, PTL DEF Spec

-----------------------------------------------------------------------------
\* A row that was never inserted was never claimed.
AbsentUnclaimed == \A j \in Jobs : status[j] = "absent" => attempts[j] = 0

\* The inductive invariant.  Exclusive execution needs the ownership of the
\* executing worker, ownership needs the lock discipline (a queued row carries
\* no lock, so nobody executes the row a claim takes).
SafeInv ==
    /\ TypeOK
    /\ LockIffRunning
    /\ QueuedIsClaimable
    /\ AbsentUnclaimed
    /\ ExecutorOwnsRow
    /\ ExclusiveExecution

LEMMA SafeInit == Init => SafeInv
BY TypeInit DEF Init, SafeInv, TypeOK, LockIffRunning, QueuedIsClaimable, AbsentUnclaimed, ExecutorOwnsRow,
                ExclusiveExecution, Holds, Executing

\* A step that leaves the columns alone and starts no execution.
LEMMA NeutralStep ==
    ASSUME SafeInv, TypeOK', status' = status, lockedBy' = lockedBy, attempts' = attempts,
           takenOver' = takenOver,
           \A w \in Workers, j \in Jobs : Holds(w, j)' => Holds(w, j)
    PROVE  SafeInv'
BY DEF SafeInv, LockIffRunning, QueuedIsClaimable, AbsentUnclaimed, ExecutorOwnsRow,
       ExclusiveExecution, Terminal

\* A step that settles row j: nobody who still executes it may find it active.
LEMMA SettleStep ==
    ASSUME SafeInv, TypeOK', NEW j \in Jobs, NEW s \in Terminal \cup {"queued"}, Settle(j, s),
           s = "queued" => attempts[j] < MaxAttempts,
           takenOver' = takenOver,
           \A w \in Workers, k \in Jobs : Holds(w, k)' => Holds(w, k),
           \/ s \in Terminal
           \/ j \in takenOver
           \/ \A w \in Workers : ~Holds(w, j)'
    PROVE  SafeInv'
<1>1. /\ status' = [status EXCEPT ![j] = s]
      /\ lockedBy' = [lockedBy EXCEPT ![j] = NoWorker]
      /\ attempts' = attempts
  BY DEF Settle
<1>2. s # "running"
  BY DEF Terminal
<1> USE DEF SafeInv, TypeOK
<1>3. LockIffRunning'
  BY <1>1, <1>2 DEF LockIffRunning
<1>4. QueuedIsClaimable'
  BY <1>1 DEF QueuedIsClaimable
<1>5. ExecutorOwnsRow'
  BY <1>1 DEF ExecutorOwnsRow
<1>6. ExclusiveExecution'
  BY DEF ExclusiveExecution
<1>7. AbsentUnclaimed'
  BY <1>1 DEF AbsentUnclaimed, Terminal
<1> QED BY <1>3, <1>4, <1>5, <1>6, <1>7

\* A conditional release by worker w of the job it executes, after which w
\* executes nothing.
LEMMA ReleaseStep ==
    ASSUME SafeInv, TypeOK', NEW w \in Workers, wjob[w] \in Jobs, Executing(w),
           NEW s \in Terminal \cup {"queued"}, IfRunning(wjob[w], s),
           s = "queued" => attempts[wjob[w]] < MaxAttempts,
           takenOver' = takenOver, wjob' = wjob,
           wpc' = [wpc EXCEPT ![w] = "release"]
    PROVE  SafeInv'
<1>1. \A v \in Workers, k \in Jobs : Holds(v, k)' => v # w /\ Holds(v, k)
  BY DEF Holds, Executing, SafeInv, TypeOK
<1>2. CASE status[wjob[w]] = "running"
  <2>1. wjob[w] \in takenOver \/ \A v \in Workers : ~Holds(v, wjob[w])'
    BY <1>1 DEF SafeInv, ExclusiveExecution, Holds
  <2> QED BY <1>1, <1>2, <2>1, SettleStep DEF IfRunning
<1>3. CASE status[wjob[w]] # "running"
  BY <1>1, <1>3, NeutralStep DEF IfRunning, rows
<1> QED BY <1>2, <1>3

\* A statement that requeues a set of running rows remembers in takenOver the
\* rows it took from a worker.
LEMMA RequeueStep ==
    ASSUME SafeInv, TypeOK', NEW S \in SUBSET Jobs, RequeueAll(S),
           \A j \in S : status[j] = "running",
           wpc' = wpc, wjob' = wjob
    PROVE  SafeInv'
<1>1. /\ status'   = [j \in Jobs |-> IF j \in S THEN RetryStatus(j) ELSE status[j]]
      /\ lockedBy' = [j \in Jobs |-> IF j \in S THEN NoWorker ELSE lockedBy[j]]
      /\ takenOver' = takenOver \cup {j \in S : \E w \in Workers : Holds(w, j)}
      /\ attempts' = attempts
  BY DEF RequeueAll
<1>2. \A w \in Workers, j \in Jobs : Holds(w, j)' <=> Holds(w, j)
  BY DEF Holds, Executing
<1>3. \A j \in Jobs : RetryStatus(j) \in {"failed", "queued"}
                      /\ (RetryStatus(j) = "queued" => attempts[j] < MaxAttempts)
  BY RetryStatusFact DEF SafeInv
<1> USE DEF SafeInv
<1>4. LockIffRunning'
  BY <1>1, <1>3 DEF LockIffRunning
<1>5. QueuedIsClaimable'
  BY <1>1, <1>3 DEF QueuedIsClaimable
<1>6. ExecutorOwnsRow'
  BY <1>1, <1>2 DEF ExecutorOwnsRow
<1>7. ExclusiveExecution'
  BY <1>1, <1>2 DEF ExclusiveExecution
<1>8. AbsentUnclaimed'
  BY <1>1, <1>3 DEF AbsentUnclaimed
<1> QED BY <1>4, <1>5, <1>6, <1>7, <1>8

\* Every step of the queue keeps the inductive invariant.
LEMMA SafeStep == SafeInv /\ [Next]_vars => SafeInv'
<1> SUFFICES ASSUME SafeInv, [Next]_vars PROVE SafeInv'
  OBVIOUS
<1>t. TypeOK /\ TypeOK'
  BY TypeStep DEF SafeInv
<1>j. \A w \in Workers : wpc[w] # "idle" => wjob[w] \in Jobs
  BY <1>t DEF TypeOK
<1>f. {"complete", "failed", "cancelled"} = Terminal
  BY DEF Terminal
<1>r. \A j \in Jobs : /\ RetryStatus(j) \in Terminal \cup {"queued"}
                      /\ RetryStatus(j) = "queued" => attempts[j] < MaxAttempts
  BY <1>t, <1>f, RetryStatusFact
<1>1. ASSUME NEW c \in Clients, NEW r \in Resources, EnqueueCount(c, r) PROVE SafeInv'
  BY <1>1, <1>t, NeutralStep DEF EnqueueCount, rows, tasks, hist, Holds, Executing
<1>2. ASSUME NEW c \in Clients, find_active_job(c) PROVE SafeInv'
  BY <1>2, <1>t, NeutralStep DEF find_active_job, rows, tasks, hist, Holds, Executing
<1>3. ASSUME NEW c \in Clients, EnqueueInsert(c) PROVE SafeInv'
  <2>1. CASE UniqueIndexAllows(cres[c])
    <3>1. PICK j \in Jobs : status[j] = "absent" /\ status' = [status EXCEPT ![j] = "queued"]
      BY <1>3, <2>1 DEF EnqueueInsert
    <3>2. lockedBy' = lockedBy /\ attempts' = attempts /\ takenOver' = takenOver
      BY <1>3, <2>1 DEF EnqueueInsert, hist
    <3>3. \A w \in Workers, k \in Jobs : Holds(w, k)' <=> Holds(w, k)
      BY <1>3 DEF EnqueueInsert, tasks, Holds, Executing
    <3>4. lockedBy[j] = NoWorker
      BY <3>1 DEF SafeInv, LockIffRunning
    <3>5. LockIffRunning'
      BY <1>t, <3>1, <3>2, <3>4 DEF SafeInv, LockIffRunning, TypeOK
    <3>6. QueuedIsClaimable'
      <4>1. attempts[j] < MaxAttempts
        BY <3>1 DEF SafeInv, AbsentUnclaimed
      <4> QED BY <1>t, <3>1, <3>2, <4>1 DEF SafeInv, QueuedIsClaimable, TypeOK
    <3>7. ExecutorOwnsRow'
      BY <1>t, <3>1, <3>2, <3>3, <3>4 DEF SafeInv, ExecutorOwnsRow, TypeOK, Terminal
    <3>8. ExclusiveExecution'
      BY <3>2, <3>3 DEF SafeInv, ExclusiveExecution
    <3>9. AbsentUnclaimed'
      BY <1>t, <3>1, <3>2 DEF SafeInv, AbsentUnclaimed, TypeOK
    <3> QED BY <1>t, <3>5, <3>6, <3>7, <3>8, <3>9 DEF SafeInv
  <2>2. CASE ~UniqueIndexAllows(cres[c])
    BY <1>3, <2>2, <1>t, NeutralStep DEF EnqueueInsert, rows, tasks, hist, Holds, Executing
  <2> QED BY <2>1, <2>2
<1>4. ASSUME NEW w \in Workers, claim_next_job(w) PROVE SafeInv'
  <2>1. PICK j \in Jobs :
           /\ Claimable(j)
           /\ status'   = [status EXCEPT ![j] = "running"]
           /\ lockedBy' = [lockedBy EXCEPT ![j] = w]
           /\ attempts' = [attempts EXCEPT ![j] = attempts[j] + 1]
           /\ wjob'     = [wjob EXCEPT ![w] = j]
    BY <1>4 DEF claim_next_job
  <2>2. wpc[w] = "idle" /\ wpc' = [wpc EXCEPT ![w] = "start"] /\ takenOver' = takenOver
    BY <1>4 DEF claim_next_job, hist
  <2>3. \A v \in Workers, k \in Jobs : Holds(v, k)' <=> (v = w /\ k = j) \/ Holds(v, k)
    BY <1>t, <2>1, <2>2 DEF Holds, Executing, TypeOK
  <2>4. j \in takenOver \/ \A v \in Workers : ~Holds(v, j)
    BY <2>1 DEF Claimable, SafeInv, ExecutorOwnsRow, LockIffRunning, Terminal
  <2>5. LockIffRunning'
    BY <1>t, <2>1 DEF SafeInv, LockIffRunning, TypeOK
  <2>6. QueuedIsClaimable'
    BY <1>t, <2>1 DEF SafeInv, QueuedIsClaimable, TypeOK
  <2>7. ExecutorOwnsRow'
    BY <1>t, <2>1, <2>2, <2>3, <2>4 DEF SafeInv, ExecutorOwnsRow, TypeOK
  <2>8. ExclusiveExecution'
    BY <2>2, <2>3, <2>4 DEF SafeInv, ExclusiveExecution
  <2>9. AbsentUnclaimed'
    BY <1>t, <2>1 DEF SafeInv, AbsentUnclaimed, TypeOK
  <2> QED BY <1>t, <2>5, <2>6, <2>7, <2>8, <2>9 DEF SafeInv
<1>5. ASSUME NEW w \in Workers, StartHandler(w) PROVE SafeInv'
  <2>1. CASE finalize_cancelled_running(wjob[w]) /\ wpc' = [wpc EXCEPT ![w] = "release"]
    BY <1>5, <2>1, <1>t, <1>j, <1>f, ReleaseStep
       DEF StartHandler, finalize_cancelled_running, Executing, hist
  <2>2. CASE wpc' = [wpc EXCEPT ![w] = "work"] /\ UNCHANGED rows
    BY <1>5, <2>2, <1>t, NeutralStep DEF StartHandler, rows, hist, Holds, Executing, TypeOK
  <2> QED BY <1>5, <2>1, <2>2 DEF StartHandler
<1>6. ASSUME NEW w \in Workers, FinishWork(w) PROVE SafeInv'
  BY <1>6, <1>t, NeutralStep DEF FinishWork, rows, Holds, Executing, TypeOK
<1>7. ASSUME NEW w \in Workers, HandlerError(w) PROVE SafeInv'
  BY <1>7, <1>t, NeutralStep DEF HandlerError, rows, hist, Holds, Executing, TypeOK
<1>8. ASSUME NEW w \in Workers, Recheck(w) PROVE SafeInv'
  <2>1. CASE finalize_cancelled_running(wjob[w]) /\ wpc' = [wpc EXCEPT ![w] = "release"]
    BY <1>8, <2>1, <1>t, <1>j, <1>f, ReleaseStep
       DEF Recheck, finalize_cancelled_running, Executing, hist
  <2>2. CASE wpc' = [wpc EXCEPT ![w] = "record"] /\ UNCHANGED rows
    BY <1>8, <2>2, <1>t, NeutralStep DEF Recheck, rows, hist, Holds, Executing, TypeOK
  <2> QED BY <1>8, <2>1, <2>2 DEF Recheck
<1>9. ASSUME NEW w \in Workers, RecordOutcome(w) PROVE SafeInv'
  <2>1. wjob[w] \in Jobs /\ Executing(w)
    BY <1>9, <1>j DEF RecordOutcome, Executing
  <2>2. PICK s \in Terminal \cup {"queued"} :
           IfRunning(wjob[w], s) /\ (s = "queued" => attempts[wjob[w]] < MaxAttempts)
    BY <1>9, <1>f, <1>r, <2>1 DEF RecordOutcome, complete_job, fail_job,
       fail_job_permanent, finalize_cancelled_running
  <2> QED BY <1>9, <1>t, <2>1, <2>2, ReleaseStep DEF RecordOutcome, hist
<1>10. ASSUME NEW w \in Workers, ExecuteJobErr(w) PROVE SafeInv'
  <2>1. wjob[w] \in Jobs /\ Executing(w)
    BY <1>10, <1>j DEF ExecuteJobErr, Executing
  <2>2. PICK s \in Terminal \cup {"queued"} :
           IfRunning(wjob[w], s) /\ (s = "queued" => attempts[wjob[w]] < MaxAttempts)
    BY <1>10, <1>f, <1>r, <2>1 DEF ExecuteJobErr, fail_job, fail_job_permanent
  <2> QED BY <1>10, <1>t, <2>1, <2>2, ReleaseStep DEF ExecuteJobErr, hist
<1>11. ASSUME NEW w \in Workers, ensure_worker_released_job(w) PROVE SafeInv'
  <2>1. wjob[w] \in Jobs /\ ~Executing(w)
    BY <1>11, <1>j DEF ensure_worker_released_job, Executing
  <2>2. \A v \in Workers, k \in Jobs : Holds(v, k)' => Holds(v, k)
    BY <1>11, <1>t DEF ensure_worker_released_job, NextIteration, Holds, Executing, TypeOK
  <2>3. takenOver' = takenOver
    BY <1>11 DEF ensure_worker_released_job, hist
  <2>4. CASE status[wjob[w]] = "running" /\ lockedBy[wjob[w]] = w
    <3>1. Settle(wjob[w], RetryStatus(wjob[w]))
      BY <1>11, <2>4 DEF ensure_worker_released_job
    <3>2. wjob[w] \in takenOver \/ \A v \in Workers : ~Holds(v, wjob[w])
      BY <2>1, <2>4 DEF SafeInv, ExecutorOwnsRow, Holds, Terminal
    <3>3. PICK j \in Jobs : j = wjob[w]
      BY <2>1
    <3>4. PICK s \in Terminal \cup {"queued"} :
             Settle(j, s) /\ (s = "queued" => attempts[j] < MaxAttempts)
      BY <1>r, <3>1, <3>3
    <3>5. j \in takenOver \/ \A v \in Workers : ~Holds(v, j)'
      BY <2>2, <3>2, <3>3
    <3> QED BY <1>t, <2>2, <2>3, <3>4, <3>5, SettleStep
  <2>5. CASE ~(status[wjob[w]] = "running" /\ lockedBy[wjob[w]] = w)
    BY <1>11, <1>t, <2>2, <2>3, <2>5, NeutralStep DEF ensure_worker_released_job, rows
  <2> QED BY <2>4, <2>5
<1>12. ASSUME NEW w \in Workers, set_job_progress(w) PROVE SafeInv'
  BY <1>12, <1>t, NeutralStep DEF set_job_progress, tasks, hist, Holds, Executing
<1>13. ASSUME NEW w \in Workers, touch_job_heartbeat(w) PROVE SafeInv'
  BY <1>13, <1>t, NeutralStep DEF touch_job_heartbeat, tasks, hist, Holds, Executing
<1>14. ASSUME NEW w \in Workers, RecordError(w) PROVE SafeInv'
  BY <1>14, <1>t, NeutralStep DEF RecordError, rows, hist, Holds, Executing, TypeOK
<1>15. ASSUME NEW w \in Workers, SkipOnError(w) PROVE SafeInv'
  BY <1>15, <1>t, NeutralStep DEF SkipOnError, NextIteration, rows, hist, Holds, Executing, TypeOK
<1>16. ASSUME NEW j \in Jobs, cancel_job(j) PROVE SafeInv'
  BY <1>16, <1>t, <1>f, SettleStep DEF cancel_job, tasks, hist, Holds, Executing
<1>17. ASSUME NEW j \in Jobs, GoStale(j) PROVE SafeInv'
  BY <1>17, <1>t, NeutralStep DEF GoStale, tasks, hist, Holds, Executing
<1>18. ASSUME NEW j \in Jobs, recover_stale_queued_jobs(j) PROVE SafeInv'
  BY <1>18, <1>t, NeutralStep DEF recover_stale_queued_jobs, tasks, hist, Holds, Executing
<1>19. ASSUME NEW j \in Jobs, fail_exhausted_queued_jobs(j) PROVE SafeInv'
  BY <1>19, <1>t, <1>f, SettleStep DEF fail_exhausted_queued_jobs, tasks, hist, Holds, Executing
<1>20. ASSUME recover_stale_jobs PROVE SafeInv'
  BY <1>20, <1>t, RequeueStep DEF recover_stale_jobs, StaleRows, tasks
<1>21. ASSUME recover_running_jobs_on_startup PROVE SafeInv'
  BY <1>21, <1>t, RequeueStep DEF recover_running_jobs_on_startup, tasks
<1>22. ASSUME StartupError PROVE SafeInv'
  BY <1>22, <1>t, NeutralStep DEF StartupError, rows, tasks, hist, Holds, Executing
<1>23. ASSUME Restart PROVE SafeInv'
  <2>1. \A w \in Workers, j \in Jobs : ~Holds(w, j)'
    BY <1>23 DEF Restart, Holds, Executing
  <2>2. status' = status /\ attempts' = attempts
        /\ lockedBy' = [j \in Jobs |-> IF lockedBy[j] = NoWorker THEN NoWorker ELSE Ghost]
    BY <1>23 DEF Restart
  <2>3. LockIffRunning' /\ QueuedIsClaimable' /\ AbsentUnclaimed'
    BY <2>2 DEF SafeInv, LockIffRunning, QueuedIsClaimable, AbsentUnclaimed
  <2> QED BY <1>t, <2>1, <2>3 DEF SafeInv, ExecutorOwnsRow, ExclusiveExecution
<1>24. ASSUME UNCHANGED vars PROVE SafeInv'
  BY <1>24, <1>t, NeutralStep DEF vars, rows, tasks, hist, Holds, Executing
<1> QED
  BY <1>1, <1>2, <1>3, <1>4, <1>5, <1>6, <1>7, <1>8, <1>9, <1>10, <1>11, <1>12, <1>13, <1>14,
     <1>15, <1>16, <1>17, <1>18, <1>19, <1>20, <1>21, <1>22, <1>23, <1>24 DEF Next, WorkerStep

\* The inductive invariant holds in every behaviour.
THEOREM SafeCorrect == Spec => []SafeInv
BY SafeInit, SafeStep, PTL DEF Spec

\* In every behaviour a row carries a lock exactly while it is running:
\* complete, fail, cancel, sweeps and restarts all release it.
THEOREM LockDiscipline == Spec => []LockIffRunning
<1>1. SafeInv => LockIffRunning
  BY DEF SafeInv
<1> QED BY <1>1, SafeCorrect, PTL

\* In every behaviour a row put back in the queue by a retry, a sweep or the
\* startup recovery can still be claimed.
THEOREM RetriesAreClaimable == Spec => []QueuedIsClaimable
<1>1. SafeInv => QueuedIsClaimable
  BY DEF SafeInv
<1> QED BY <1>1, SafeCorrect, PTL

\* In every behaviour two workers execute one job only after the row was
\* requeued under a live worker.
THEOREM Exclusive == Spec => []ExclusiveExecution
<1>1. SafeInv => ExclusiveExecution
  BY DEF SafeInv
<1> QED BY <1>1, SafeCorrect, PTL

\* In every behaviour an executing worker owns its row until it is settled,
\* unless the row was requeued under it.
THEOREM ExecutorOwns == Spec => []ExecutorOwnsRow
<1>1. SafeInv => ExecutorOwnsRow
  BY DEF SafeInv
<1> QED BY <1>1, SafeCorrect, PTL

\* No step takes a row out of a terminal status or counts an attempt on it:
\* every statement that writes a status tests for 'running' or 'queued'.
THEOREM TerminalStays == Spec => TerminalIsFinal
<1> DEFINE A == \A j \in Jobs : status[j] \in Terminal =>
                  status'[j] = status[j] /\ attempts'[j] = attempts[j]
<1>1. TypeOK /\ [Next]_vars => [A]_vars
  <2> SUFFICES ASSUME TypeOK, Next PROVE A
    OBVIOUS
  <2> USE DEF A, TypeOK, Terminal
  <2>i. ASSUME NEW k \in Jobs, NEW s, IfRunning(k, s) PROVE A
    <3>1. CASE status[k] = "running"
      BY <2>i, <3>1 DEF IfRunning, Settle
    <3>2. CASE status[k] # "running"
      BY <2>i, <3>2 DEF IfRunning, rows
    <3> QED BY <3>1, <3>2
  <2>s. ASSUME NEW k \in Jobs, NEW s, status[k] \in Active, Settle(k, s) PROVE A
    BY <2>s DEF Settle, Active
  <2>n. ASSUME status' = status, attempts' = attempts PROVE A
    BY <2>n
  <2>j. \A w \in Workers : wpc[w] # "idle" => wjob[w] \in Jobs
    OBVIOUS
  <2>1. ASSUME NEW c \in Clients PROVE /\ \A r \in Resources : EnqueueCount(c, r) => A
                                       /\ find_active_job(c) => A
    BY <2>n DEF EnqueueCount, find_active_job, rows
  <2>2. ASSUME NEW c \in Clients, EnqueueInsert(c) PROVE A
    <3>1. CASE UniqueIndexAllows(cres[c])
      BY <2>2, <3>1 DEF EnqueueInsert
    <3>2. CASE ~UniqueIndexAllows(cres[c])
      BY <2>2, <3>2, <2>n DEF EnqueueInsert, rows
    <3> QED BY <3>1, <3>2
  <2>3. ASSUME NEW w \in Workers, claim_next_job(w) PROVE A
    BY <2>3 DEF claim_next_job, Claimable
  <2>4. ASSUME NEW w \in Workers, StartHandler(w) \/ Recheck(w) PROVE A
    BY <2>4, <2>i, <2>j, <2>n DEF StartHandler, Recheck, finalize_cancelled_running, rows
  <2>5. ASSUME NEW w \in Workers,
               FinishWork(w) \/ HandlerError(w) \/ set_job_progress(w)
                 \/ touch_job_heartbeat(w) \/ RecordError(w) \/ SkipOnError(w)
        PROVE A
    BY <2>5, <2>n DEF FinishWork, HandlerError, set_job_progress, touch_job_heartbeat,
                      RecordError, SkipOnError, rows
  <2>6. ASSUME NEW w \in Workers, RecordOutcome(w) \/ ExecuteJobErr(w) PROVE A
    BY <2>6, <2>i, <2>j DEF RecordOutcome, ExecuteJobErr, complete_job, fail_job,
                            fail_job_permanent, finalize_cancelled_running
  <2>7. ASSUME NEW w \in Workers, ensure_worker_released_job(w) PROVE A
    <3>1. CASE status[wjob[w]] = "running" /\ lockedBy[wjob[w]] = w
      BY <2>7, <3>1, <2>s, <2>j DEF ensure_worker_released_job, Active
    <3>2. CASE ~(status[wjob[w]] = "running" /\ lockedBy[wjob[w]] = w)
      BY <2>7, <3>2, <2>n DEF ensure_worker_released_job, rows
    <3> QED BY <3>1, <3>2
  <2>8. ASSUME NEW j \in Jobs, cancel_job(j) \/ fail_exhausted_queued_jobs(j) PROVE A
    BY <2>8, <2>s DEF cancel_job, fail_exhausted_queued_jobs, Active
  <2>9. ASSUME NEW j \in Jobs, GoStale(j) \/ recover_stale_queued_jobs(j) PROVE A
    BY <2>9, <2>n DEF GoStale, recover_stale_queued_jobs
  <2>10. ASSUME recover_stale_jobs \/ recover_running_jobs_on_startup PROVE A
    <3>1. PICK S \in SUBSET Jobs : RequeueAll(S) /\ \A j \in S : status[j] = "running"
      BY <2>10 DEF recover_stale_jobs, recover_running_jobs_on_startup, StaleRows
    <3> QED BY <3>1 DEF RequeueAll
  <2>11. ASSUME StartupError \/ Restart PROVE A
    BY <2>11, <2>n DEF StartupError, Restart, rows
  <2> QED BY <2>1, <2>2, <2>3, <2>4, <2>5, <2>6, <2>7, <2>8, <2>9, <2>10, <2>11
             DEF Next, WorkerStep
<1> QED BY <1>1, TypeCorrect, PTL DEF Spec, TerminalIsFinal
-----------------------------------------------------------------------------
(* What enters and leaves the queue *)


\* Calls of enqueue_job that have passed the cap.
InFlight == {c \in Clients : cpc[c] # "idle"}

\* A call inserts its row.
Inserts(c, j) ==
    /\ status[j] = "absent"
    /\ UniqueIndexAllows(cres[c])
    /\ status'   = [status EXCEPT ![j] = "queued"]
    /\ resource' = [resource EXCEPT ![j] = cres[c]]

\* A conditional release makes no row active.
LEMMA ReleaseActivates ==
    ASSUME TypeOK, NEW j \in Jobs, NEW s, IfRunning(j, s)
    PROVE  ActiveRows' \subseteq ActiveRows /\ resource' = resource /\ attempts' = attempts
<1>1. CASE status[j] = "running"
  BY <1>1 DEF IfRunning, Settle, ActiveRows, Active, TypeOK
<1>2. CASE status[j] # "running"
  BY <1>2 DEF IfRunning, rows, ActiveRows
<1> QED BY <1>1, <1>2

\* Neither does a release that has found its row active.
LEMMA SettleActivates ==
    ASSUME TypeOK, NEW j \in Jobs, NEW s, status[j] \in Active, Settle(j, s)
    PROVE  ActiveRows' \subseteq ActiveRows /\ resource' = resource /\ attempts' = attempts
BY DEF Settle, ActiveRows, TypeOK

\* Nor a statement that requeues running rows.
LEMMA RequeueActivates ==
    ASSUME TypeOK, NEW S \in SUBSET Jobs, RequeueAll(S), \A j \in S : status[j] = "running"
    PROVE  ActiveRows' \subseteq ActiveRows /\ resource' = resource /\ attempts' = attempts
BY DEF RequeueAll, ActiveRows, Active, TypeOK

\* What a step does to the set of active rows, to the attempts and to the
\* calls in flight: only the INSERT adds a row, only the claim counts an
\* attempt, only the count of enqueue_job lets a call in.
LEMMA StepEffect ==
    ASSUME TypeOK, [Next]_vars
    PROVE  \/ /\ ActiveRows' \subseteq ActiveRows /\ resource' = resource
              /\ attempts' = attempts /\ InFlight' \subseteq InFlight
           \/ \E c \in Clients, r \in Resources : EnqueueCount(c, r)
           \/ \E c \in Clients, j \in Jobs :
                 /\ c \in InFlight /\ Inserts(c, j)
                 /\ attempts' = attempts /\ cpc' = [cpc EXCEPT ![c] = "idle"]
           \/ \E w \in Workers : claim_next_job(w)
<1> DEFINE Small == /\ ActiveRows' \subseteq ActiveRows /\ resource' = resource
                    /\ attempts' = attempts
           Calm  == Small /\ InFlight' \subseteq InFlight
<1>n. ASSUME status' = status, resource' = resource, attempts' = attempts PROVE Small
  BY <1>n DEF ActiveRows
<1>c. ASSUME cpc' = cpc PROVE InFlight' \subseteq InFlight
  BY <1>c DEF InFlight
<1>j. \A w \in Workers : wpc[w] # "idle" => wjob[w] \in Jobs
  BY DEF TypeOK
<1>i. \A j \in Jobs, s \in Statuses : IfRunning(j, s) => Small
  BY ReleaseActivates
<1>s. \A j \in Jobs, s \in Statuses : status[j] \in Active /\ Settle(j, s) => Small
  BY SettleActivates
<1>t. {"queued", "running", "complete", "failed", "cancelled", "absent"} = Statuses
  BY DEF Statuses, Active, Terminal
<1>r. \A j \in Jobs : RetryStatus(j) \in Statuses
  BY <1>t, RetryStatusFact
<1>a. "queued" \in Active /\ "running" \in Active
  BY DEF Active
<1> HIDE DEF Small
<1>1. ASSUME NEW c \in Clients, find_active_job(c) PROVE Calm
  <2>1. Small
    BY <1>1, <1>n DEF find_active_job, rows
  <2>2. InFlight' \subseteq InFlight
    BY <1>1 DEF find_active_job, EndCall, InFlight, TypeOK
  <2> QED BY <2>1, <2>2
<1>2. ASSUME NEW c \in Clients, EnqueueInsert(c)
      PROVE  \/ Calm
             \/ \E j \in Jobs : /\ c \in InFlight /\ Inserts(c, j)
                                /\ attempts' = attempts /\ cpc' = [cpc EXCEPT ![c] = "idle"]
  <2>1. c \in InFlight /\ cpc' = [cpc EXCEPT ![c] = "idle"]
    BY <1>2 DEF EnqueueInsert, EndCall, InFlight
  <2>2. CASE UniqueIndexAllows(cres[c])
    <3>1. PICK j \in Jobs : Inserts(c, j)
      BY <1>2, <2>2 DEF EnqueueInsert, Inserts
    <3>2. attempts' = attempts
      BY <1>2, <2>2 DEF EnqueueInsert
    <3> QED BY <2>1, <3>1, <3>2
  <2>3. CASE ~UniqueIndexAllows(cres[c])
    <3>1. Small
      BY <1>2, <2>3, <1>n DEF EnqueueInsert, rows
    <3>2. InFlight' \subseteq InFlight
      BY <2>1 DEF InFlight, TypeOK
    <3> QED BY <3>1, <3>2
  <2> QED BY <2>2, <2>3
<1>3. ASSUME NEW w \in Workers, StartHandler(w) \/ Recheck(w) PROVE Calm
  <2>1. Small
    BY <1>3, <1>i, <1>j, <1>n, <1>t DEF StartHandler, Recheck, finalize_cancelled_running, rows
  <2> QED BY <1>3, <2>1, <1>c DEF StartHandler, Recheck, calls
<1>4. ASSUME NEW w \in Workers,
             FinishWork(w) \/ HandlerError(w) \/ set_job_progress(w)
               \/ touch_job_heartbeat(w) \/ RecordError(w) \/ SkipOnError(w)
      PROVE  Calm
  <2>1. Small
    BY <1>4, <1>n DEF FinishWork, HandlerError, set_job_progress, touch_job_heartbeat,
                      RecordError, SkipOnError, rows
  <2> QED BY <1>4, <2>1, <1>c DEF FinishWork, HandlerError, set_job_progress,
             touch_job_heartbeat, RecordError, SkipOnError, calls
<1>5. ASSUME NEW w \in Workers, RecordOutcome(w) \/ ExecuteJobErr(w) PROVE Calm
  <2>1. Small
    BY <1>5, <1>i, <1>j, <1>r, <1>t DEF RecordOutcome, ExecuteJobErr, complete_job, fail_job,
       fail_job_permanent, finalize_cancelled_running
  <2> QED BY <1>5, <2>1, <1>c DEF RecordOutcome, ExecuteJobErr, calls
<1>6. ASSUME NEW w \in Workers, ensure_worker_released_job(w) PROVE Calm
  <2>1. CASE status[wjob[w]] = "running" /\ lockedBy[wjob[w]] = w
    BY <1>6, <2>1, <1>s, <1>j, <1>r, <1>a, <1>c DEF ensure_worker_released_job, calls
  <2>2. CASE ~(status[wjob[w]] = "running" /\ lockedBy[wjob[w]] = w)
    BY <1>6, <2>2, <1>n, <1>c DEF ensure_worker_released_job, rows, calls
  <2> QED BY <2>1, <2>2
<1>7. ASSUME NEW j \in Jobs, cancel_job(j) \/ fail_exhausted_queued_jobs(j) PROVE Calm
  BY <1>7, <1>s, <1>a, <1>t, <1>c DEF cancel_job, fail_exhausted_queued_jobs, calls
<1>8. ASSUME NEW j \in Jobs, GoStale(j) \/ recover_stale_queued_jobs(j) PROVE Calm
  BY <1>8, <1>n, <1>c DEF GoStale, recover_stale_queued_jobs, calls
<1>9. ASSUME recover_stale_jobs \/ recover_running_jobs_on_startup PROVE Calm
  <2>1. PICK S \in SUBSET Jobs : RequeueAll(S) /\ \A j \in S : status[j] = "running"
    BY <1>9 DEF recover_stale_jobs, recover_running_jobs_on_startup, StaleRows
  <2>2. Small
    BY <2>1, RequeueActivates DEF Small
  <2> QED BY <1>9, <2>2, <1>c DEF recover_stale_jobs, recover_running_jobs_on_startup, calls
<1>10. ASSUME StartupError PROVE Calm
  BY <1>10, <1>n, <1>c DEF StartupError, rows, calls
<1>11. ASSUME Restart PROVE Calm
  <2>1. Small
    BY <1>11, <1>n DEF Restart
  <2> QED BY <1>11, <2>1 DEF Restart, InFlight
<1>12. ASSUME UNCHANGED vars PROVE Calm
  BY <1>12, <1>n, <1>c DEF vars, rows, calls
<1>13. Calm \/ (\E c \in Clients, r \in Resources : EnqueueCount(c, r))
            \/ (\E c \in Clients, j \in Jobs :
                   /\ c \in InFlight /\ Inserts(c, j)
                   /\ attempts' = attempts /\ cpc' = [cpc EXCEPT ![c] = "idle"])
            \/ (\E w \in Workers : claim_next_job(w))
  BY <1>1, <1>2, <1>3, <1>4, <1>5, <1>6, <1>7, <1>8, <1>9, <1>10, <1>11, <1>12
     DEF Next, WorkerStep
<1> QED BY <1>13 DEF Small

-----------------------------------------------------------------------------
\* The claim moves a row from queued to running.
LEMMA ClaimEffect ==
    ASSUME TypeOK, NEW w \in Workers, claim_next_job(w)
    PROVE  ActiveRows' \subseteq ActiveRows /\ resource' = resource /\ InFlight' = InFlight
BY DEF claim_next_job, Claimable, ActiveRows, Active, InFlight, calls, TypeOK

\* At most one active row per resource, for any number of concurrent
\* enqueue_job calls: their look-up and INSERT are separate statements, and
\* only the unique index stands between them.
THEOREM OneActive == Spec => []OneActivePerResource
<1>1. Init => OneActivePerResource
  BY DEF Init, OneActivePerResource, ActiveRows, Active
<1>2. TypeOK /\ OneActivePerResource /\ [Next]_vars => OneActivePerResource'
  <2> SUFFICES ASSUME TypeOK, OneActivePerResource, [Next]_vars PROVE OneActivePerResource'
    OBVIOUS
  <2>1. CASE ActiveRows' \subseteq ActiveRows /\ resource' = resource
    BY <2>1 DEF OneActivePerResource
  <2>2. CASE \E c \in Clients, r \in Resources : EnqueueCount(c, r)
    BY <2>2 DEF EnqueueCount, rows, OneActivePerResource, ActiveRows
  <2>3. ASSUME NEW c \in Clients, NEW j \in Jobs, Inserts(c, j) PROVE OneActivePerResource'
    <3>1. ActiveRows' = ActiveRows \cup {j}
      BY <2>3 DEF Inserts, ActiveRows, Active, TypeOK
    <3>2. j \notin ActiveRows
      BY <2>3 DEF Inserts, ActiveRows, Active
    <3>3. \A k \in ActiveRows : resource'[k] = resource[k] /\ resource[k] # cres[c]
      BY <2>3, <3>2 DEF Inserts, UniqueIndexAllows, ActiveRows, TypeOK
    <3>4. resource'[j] = cres[c]
      BY <2>3 DEF Inserts, TypeOK
    <3> QED BY <3>1, <3>3, <3>4 DEF OneActivePerResource
  <2>4. ASSUME NEW w \in Workers, claim_next_job(w) PROVE OneActivePerResource'
    BY <2>4, <2>1, ClaimEffect
  <2> QED BY <2>1, <2>2, <2>3, <2>4, StepEffect
<1> QED BY <1>1, <1>2, TypeCorrect, PTL DEF Spec

-----------------------------------------------------------------------------
\* The rows and the calls that may still add one, together: the inductive
\* form of the bound.  The count of a call that is let in is below the cap,
\* and from then on every row added uses up a call.
DepthInv ==
    Cardinality(ActiveRows) + Cardinality(InFlight)
        <= QueueCap + Cardinality(Clients) - 1 + Cardinality(Legacy)

\* The sets that are counted are finite.
LEMMA Counted ==
    /\ IsFiniteSet(ActiveRows) /\ Cardinality(ActiveRows) \in Nat
    /\ IsFiniteSet(InFlight) /\ Cardinality(InFlight) \in Nat
    /\ Cardinality(InFlight) <= Cardinality(Clients)
    /\ Cardinality(Clients) \in Nat \ {0} /\ Cardinality(Legacy) \in Nat
<1>1. ActiveRows \subseteq Jobs /\ InFlight \subseteq Clients /\ Legacy \subseteq Jobs
  BY DEF ActiveRows, InFlight
<1>2. IsFiniteSet(ActiveRows) /\ IsFiniteSet(Legacy)
  BY <1>1, FS_Subset
<1>3. IsFiniteSet(InFlight) /\ Cardinality(InFlight) <= Cardinality(Clients)
  BY <1>1, FS_Subset
<1>4. Cardinality(ActiveRows) \in Nat /\ Cardinality(Legacy) \in Nat
  BY <1>2, FS_CardinalityType
<1>5. Cardinality(InFlight) \in Nat /\ Cardinality(Clients) \in Nat
  BY <1>3, FS_CardinalityType
<1>6. Cardinality(Clients) # 0
  BY FS_EmptySet
<1> QED BY <1>2, <1>3, <1>4, <1>5, <1>6

\* A state function that only shrinks is not larger.
LEMMA Shrinks ==
    ASSUME ActiveRows' \subseteq ActiveRows, InFlight' \subseteq InFlight
    PROVE  /\ Cardinality(ActiveRows') <= Cardinality(ActiveRows)
           /\ Cardinality(InFlight') <= Cardinality(InFlight)
           /\ Cardinality(ActiveRows') \in Nat /\ Cardinality(InFlight') \in Nat
<1>1. Cardinality(ActiveRows') <= Cardinality(ActiveRows) /\ IsFiniteSet(ActiveRows')
  BY Counted, FS_Subset
<1>2. Cardinality(InFlight') <= Cardinality(InFlight) /\ IsFiniteSet(InFlight')
  BY Counted, FS_Subset
<1>3. Cardinality(ActiveRows') \in Nat
  BY <1>1, FS_CardinalityType
<1>4. Cardinality(InFlight') \in Nat
  BY <1>2, FS_CardinalityType
<1> QED BY <1>1, <1>2, <1>3, <1>4

\* Concurrent calls of enqueue_job overshoot the cap by at most the other
\* calls in flight, whatever is cancelled, retried or recovered meanwhile.
THEOREM DepthBounded == Spec => []QueueDepthBounded
<1>1. Init => DepthInv
  <2> SUFFICES ASSUME Init PROVE DepthInv
    OBVIOUS
  <2>1. ActiveRows = Legacy
    BY DEF Init, ActiveRows, Active
  <2>2. InFlight = {}
    BY DEF Init, InFlight
  <2>3. Cardinality(InFlight) = 0
    BY <2>2, FS_EmptySet
  <2> QED BY <2>1, <2>3, Counted DEF DepthInv
<1>2. TypeOK /\ DepthInv /\ [Next]_vars => DepthInv'
  <2> SUFFICES ASSUME TypeOK, DepthInv, [Next]_vars PROVE DepthInv'
    OBVIOUS
  <2>1. CASE ActiveRows' \subseteq ActiveRows /\ InFlight' \subseteq InFlight
    BY <2>1, Shrinks, Counted DEF DepthInv
  <2>2. ASSUME NEW c \in Clients, NEW r \in Resources, EnqueueCount(c, r) PROVE DepthInv'
    <3>1. ActiveRows' = ActiveRows /\ Cardinality(ActiveRows) < QueueCap
      BY <2>2 DEF EnqueueCount, rows, ActiveRows
    <3>2. InFlight' \subseteq Clients
      BY DEF InFlight
    <3>3. IsFiniteSet(InFlight') /\ Cardinality(InFlight') <= Cardinality(Clients)
      BY <3>2, FS_Subset
    <3>4. Cardinality(InFlight') \in Nat
      BY <3>3, FS_CardinalityType
    <3> QED BY <3>1, <3>3, <3>4, Counted DEF DepthInv
  <2>3. ASSUME NEW c \in Clients, NEW j \in Jobs, c \in InFlight, Inserts(c, j),
               cpc' = [cpc EXCEPT ![c] = "idle"]
        PROVE  DepthInv'
    <3>1. ActiveRows' = ActiveRows \cup {j} /\ j \notin ActiveRows
      BY <2>3 DEF Inserts, ActiveRows, Active, TypeOK
    <3>2. InFlight' = InFlight \ {c}
      BY <2>3 DEF InFlight, TypeOK
    <3>3. Cardinality(ActiveRows \cup {j}) = Cardinality(ActiveRows) + 1
      BY <3>1, Counted, FS_AddElement
    <3>4. Cardinality(InFlight \ {c}) = Cardinality(InFlight) - 1
      BY <2>3, Counted, FS_RemoveElement
    <3> QED BY <3>1, <3>2, <3>3, <3>4, Counted DEF DepthInv
  <2>4. ASSUME NEW w \in Workers, claim_next_job(w) PROVE DepthInv'
    BY <2>4, <2>1, ClaimEffect
  <2> QED BY <2>1, <2>2, <2>3, <2>4, StepEffect
<1>3. DepthInv => QueueDepthBounded
  BY Counted DEF DepthInv, QueueDepthBounded
<1> QED BY <1>1, <1>2, <1>3, TypeCorrect, PTL DEF Spec

-----------------------------------------------------------------------------
\* Attempts only grow, and only by a claim that takes the lock, whatever
\* retries, sweeps and restarts do to the row.
THEOREM AttemptsClaimed == Spec => AttemptsCountClaims
<1> DEFINE A == \A j \in Jobs : attempts'[j] # attempts[j] =>
                  /\ attempts'[j] = attempts[j] + 1
                  /\ status[j] = "queued" /\ lockedBy'[j] \in Workers
<1>1. TypeOK /\ [Next]_vars => [A]_vars
  <2> SUFFICES ASSUME TypeOK, [Next]_vars PROVE A
    OBVIOUS
  <2>1. CASE attempts' = attempts
    BY <2>1
  <2>2. CASE \E c \in Clients, r \in Resources : EnqueueCount(c, r)
    BY <2>2 DEF EnqueueCount, rows
  <2>3. ASSUME NEW w \in Workers, claim_next_job(w) PROVE A
    BY <2>3 DEF claim_next_job, Claimable, TypeOK
  <2> QED BY <2>1, <2>2, <2>3, StepEffect
<1> QED BY <1>1, TypeCorrect, PTL DEF Spec, AttemptsCountClaims

-----------------------------------------------------------------------------
\* A worker that is about to record success has had its handler succeed.
OkWasProduced ==
    \A w \in Workers : wpc[w] \in {"recheck", "record"} /\ outcome[w] = "ok"
                        => wjob[w] \in produced

ProducedInv == OkWasProduced /\ CompleteWasProduced

\* A release with another result than "complete" completes no row.
LEMMA ReleaseCompletes ==
    ASSUME TypeOK, NEW j \in Jobs, NEW s, IfRunning(j, s), s = "complete" => j \in produced,
           CompleteWasProduced, produced' = produced
    PROVE  CompleteWasProduced'
<1>1. CASE status[j] = "running"
  BY <1>1 DEF IfRunning, Settle, CompleteWasProduced, TypeOK
<1>2. CASE status[j] # "running"
  BY <1>2 DEF IfRunning, rows, CompleteWasProduced
<1> QED BY <1>1, <1>2

\* In every behaviour a row settled as complete was really carried out by a
\* worker, although errors, cancels, retries and takeovers may record at any time.
THEOREM Produced == Spec => []CompleteWasProduced
<1>1. Init => ProducedInv
  BY DEF Init, ProducedInv, OkWasProduced, CompleteWasProduced
<1>2. TypeOK /\ ProducedInv /\ [Next]_vars => ProducedInv'
  <2> SUFFICES ASSUME TypeOK, ProducedInv, [Next]_vars PROVE ProducedInv'
    OBVIOUS
  <2> USE DEF ProducedInv
  <2>j. \A w \in Workers : wpc[w] # "idle" => wjob[w] \in Jobs
    BY DEF TypeOK
  <2>r. \A j \in Jobs : RetryStatus(j) # "complete"
    BY DEF RetryStatus
  <2>k. ASSUME tasks' = tasks, produced' = produced PROVE OkWasProduced'
    BY <2>k DEF tasks, OkWasProduced
  <2>l. ASSUME status' = status, produced' = produced PROVE CompleteWasProduced'
    BY <2>l DEF CompleteWasProduced
  <2>m. ASSUME NEW w \in Workers, NEW p \in {"work", "start", "err", "release"},
               wpc' = [wpc EXCEPT ![w] = p], outcome' = outcome, produced' = produced,
               \A v \in Workers \ {w} : wjob'[v] = wjob[v]
        PROVE  OkWasProduced'
    BY <2>m DEF OkWasProduced, TypeOK
  <2>1. ASSUME NEW c \in Clients,
               (\E r \in Resources : EnqueueCount(c, r)) \/ find_active_job(c)
        PROVE  ProducedInv'
    BY <2>1, <2>k, <2>l DEF EnqueueCount, find_active_job, rows, hist
  <2>2. ASSUME NEW c \in Clients, EnqueueInsert(c) PROVE ProducedInv'
    <3>1. OkWasProduced'
      BY <2>2, <2>k DEF EnqueueInsert, hist
    <3>2. produced' = produced
      BY <2>2 DEF EnqueueInsert, hist
    <3>3. CASE UniqueIndexAllows(cres[c])
      BY <2>2, <3>1, <3>2, <3>3 DEF EnqueueInsert, CompleteWasProduced, TypeOK
    <3>4. CASE ~UniqueIndexAllows(cres[c])
      BY <2>2, <3>1, <3>2, <3>4, <2>l DEF EnqueueInsert, rows
    <3> QED BY <3>1, <3>3, <3>4
  <2>3. ASSUME NEW w \in Workers, claim_next_job(w) PROVE ProducedInv'
    <3>1. produced' = produced /\ outcome' = outcome /\ wpc' = [wpc EXCEPT ![w] = "start"]
      BY <2>3 DEF claim_next_job, hist
    <3>2. OkWasProduced'
      BY <2>3, <3>1 DEF claim_next_job, OkWasProduced, TypeOK
    <3>3. CompleteWasProduced'
      BY <2>3, <3>1 DEF claim_next_job, CompleteWasProduced, TypeOK
    <3> QED BY <3>2, <3>3
  <2>4. ASSUME NEW w \in Workers, StartHandler(w) PROVE ProducedInv'
    <3>1. produced' = produced /\ outcome' = outcome /\ wjob' = wjob
      BY <2>4 DEF StartHandler, hist
    <3>2. OkWasProduced'
      BY <2>4, <3>1, <2>m DEF StartHandler
    <3>3. CompleteWasProduced'
      BY <2>4, <3>1, <2>j, <2>l, ReleaseCompletes DEF StartHandler, finalize_cancelled_running, rows
    <3> QED BY <3>2, <3>3
  <2>5. ASSUME NEW w \in Workers, FinishWork(w) PROVE ProducedInv'
    <3>1. PICK o \in HandlerOutcomes(WKind(w)) :
             /\ outcome' = [outcome EXCEPT ![w] = o]
             /\ produced' = IF o = "ok" THEN produced \cup {wjob[w]} ELSE produced
      BY <2>5 DEF FinishWork
    <3>2. /\ wpc' = [wpc EXCEPT ![w] = IF WKind(w) = "ingest" THEN "recheck" ELSE "record"]
          /\ wjob' = wjob /\ status' = status
      BY <2>5 DEF FinishWork, rows
    <3>3. OkWasProduced'
      BY <3>1, <3>2 DEF OkWasProduced, TypeOK
    <3>4. CompleteWasProduced'
      BY <3>1, <3>2 DEF CompleteWasProduced
    <3> QED BY <3>3, <3>4
  <2>6. ASSUME NEW w \in Workers, HandlerError(w) \/ RecordError(w) PROVE ProducedInv'
    BY <2>6, <2>m, <2>l DEF HandlerError, RecordError, rows, hist
  <2>7. ASSUME NEW w \in Workers, Recheck(w) PROVE ProducedInv'
    <3>1. produced' = produced /\ outcome' = outcome /\ wjob' = wjob /\ wpc[w] = "recheck"
      BY <2>7 DEF Recheck, hist
    <3>2. OkWasProduced'
      BY <2>7, <3>1 DEF Recheck, OkWasProduced, TypeOK
    <3>3. CompleteWasProduced'
      BY <2>7, <3>1, <2>j, <2>l, ReleaseCompletes DEF Recheck, finalize_cancelled_running, rows
    <3> QED BY <3>2, <3>3
  <2>8. ASSUME NEW w \in Workers, RecordOutcome(w) PROVE ProducedInv'
    <3>1. /\ produced' = produced /\ outcome' = outcome /\ wjob' = wjob /\ wpc[w] = "record"
          /\ wpc' = [wpc EXCEPT ![w] = "release"] /\ wjob[w] \in Jobs
      BY <2>8, <2>j DEF RecordOutcome, hist
    <3>2. OkWasProduced'
      BY <3>1, <2>m
    <3>3. PICK s : IfRunning(wjob[w], s) /\ (s = "complete" => outcome[w] = "ok")
      BY <2>8, <2>r, <3>1 DEF RecordOutcome, complete_job, fail_job, fail_job_permanent,
                         finalize_cancelled_running
    <3>4. outcome[w] = "ok" => wjob[w] \in produced
      BY <3>1 DEF OkWasProduced
    <3>5. CompleteWasProduced'
      BY <3>1, <3>3, <3>4, ReleaseCompletes
    <3> QED BY <3>2, <3>5
  <2>9. ASSUME NEW w \in Workers, ExecuteJobErr(w) PROVE ProducedInv'
    <3>1. /\ produced' = produced /\ outcome' = outcome /\ wjob' = wjob
          /\ wpc' = [wpc EXCEPT ![w] = "release"] /\ wjob[w] \in Jobs
      BY <2>9, <2>j DEF ExecuteJobErr, hist
    <3>2. PICK s : IfRunning(wjob[w], s) /\ s # "complete"
      BY <2>9, <2>r, <3>1 DEF ExecuteJobErr, fail_job, fail_job_permanent
    <3>3. CompleteWasProduced'
      BY <3>1, <3>2, ReleaseCompletes
    <3> QED BY <3>1, <3>3, <2>m
  <2>10. ASSUME NEW w \in Workers, NextIteration(w), produced' = produced PROVE OkWasProduced'
    BY <2>10 DEF NextIteration, OkWasProduced, TypeOK
  <2>11. ASSUME NEW w \in Workers, ensure_worker_released_job(w) PROVE ProducedInv'
    <3>1. produced' = produced /\ NextIteration(w) /\ wjob[w] \in Jobs
      BY <2>11, <2>j DEF ensure_worker_released_job, hist
    <3>2. CASE status[wjob[w]] = "running" /\ lockedBy[wjob[w]] = w
      <4>1. status' = [status EXCEPT ![wjob[w]] = RetryStatus(wjob[w])]
        BY <2>11, <3>2 DEF ensure_worker_released_job, Settle
      <4>2. CompleteWasProduced'
        BY <3>1, <4>1, <2>r DEF CompleteWasProduced, TypeOK
      <4> QED BY <3>1, <4>2, <2>10
    <3>3. CASE ~(status[wjob[w]] = "running" /\ lockedBy[wjob[w]] = w)
      BY <2>11, <3>1, <3>3, <2>10, <2>l DEF ensure_worker_released_job, rows
    <3> QED BY <3>2, <3>3
  <2>12. ASSUME NEW w \in Workers, SkipOnError(w) PROVE ProducedInv'
    BY <2>12, <2>10, <2>m, <2>l DEF SkipOnError, rows, hist
  <2>13. ASSUME NEW w \in Workers, set_job_progress(w) \/ touch_job_heartbeat(w) PROVE ProducedInv'
    BY <2>13, <2>k, <2>l DEF set_job_progress, touch_job_heartbeat, hist
  <2>14. ASSUME NEW j \in Jobs, cancel_job(j) \/ fail_exhausted_queued_jobs(j) PROVE ProducedInv'
    <3>1. OkWasProduced' /\ produced' = produced
      BY <2>14, <2>k DEF cancel_job, fail_exhausted_queued_jobs, hist
    <3>2. CompleteWasProduced'
      BY <2>14, <3>1 DEF cancel_job, fail_exhausted_queued_jobs, Settle, CompleteWasProduced, TypeOK
    <3> QED BY <3>1, <3>2
  <2>15. ASSUME NEW j \in Jobs, GoStale(j) \/ recover_stale_queued_jobs(j) PROVE ProducedInv'
    BY <2>15, <2>k, <2>l DEF GoStale, recover_stale_queued_jobs, hist
  <2>16. ASSUME recover_stale_jobs \/ recover_running_jobs_on_startup PROVE ProducedInv'
    <3>1. PICK S \in SUBSET Jobs : RequeueAll(S)
      BY <2>16 DEF recover_stale_jobs, recover_running_jobs_on_startup, StaleRows
    <3>2. produced' = produced
      BY <3>1 DEF RequeueAll
    <3>3. CompleteWasProduced'
      BY <3>1, <3>2, <2>r DEF RequeueAll, CompleteWasProduced
    <3> QED BY <2>16, <3>2, <3>3, <2>k DEF recover_stale_jobs, recover_running_jobs_on_startup
  <2>17. ASSUME StartupError PROVE ProducedInv'
    BY <2>17, <2>k, <2>l DEF StartupError, rows, hist
  <2>18. ASSUME Restart PROVE ProducedInv'
    <3>1. OkWasProduced'
      BY <2>18 DEF Restart, OkWasProduced
    <3> QED BY <2>18, <3>1, <2>l DEF Restart, hist
  <2>19. ASSUME UNCHANGED vars PROVE ProducedInv'
    BY <2>19, <2>k, <2>l DEF vars, rows, hist
  <2> QED BY <2>1, <2>2, <2>3, <2>4, <2>5, <2>6, <2>7, <2>8, <2>9, <2>11, <2>12, <2>13, <2>14,
             <2>15, <2>16, <2>17, <2>18, <2>19 DEF Next, WorkerStep
<1> QED BY <1>1, <1>2, TypeCorrect, PTL DEF Spec, ProducedInv

-----------------------------------------------------------------------------
\* A worker settles a running row only while it holds the row's lock, unless
\* the row was requeued under a live worker, although complete_job and
\* fail_job never test locked_by: the ownership of an executing worker does it.
THEOREM SettlesOwn == Spec => SettlesOnlyOwnClaim
<1> DEFINE A == \A w \in Workers : \A j \in Jobs :
                  (wpc'[w] # wpc[w] /\ wjob[w] = j /\ restarts' = restarts
                     /\ status[j] = "running" /\ status'[j] # "running")
                  => lockedBy[j] = w \/ j \in takenOver
<1>1. SafeInv /\ [Next]_vars => [A]_vars
  <2> SUFFICES ASSUME SafeInv, Next, NEW w \in Workers, NEW j \in Jobs,
                      wpc'[w] # wpc[w], wjob[w] = j, restarts' = restarts,
                      status[j] = "running", status'[j] # "running"
               PROVE  lockedBy[j] = w \/ j \in takenOver
    OBVIOUS
  <2>t. TypeOK
    BY DEF SafeInv
  <2>1. CASE Executing(w)
    BY <2>1 DEF SafeInv, ExecutorOwnsRow, Holds, Terminal
  <2>2. CASE wpc[w] = "idle"
    BY <2>2, <2>t DEF TypeOK
  <2>3. CASE wpc[w] = "release"
    <3>1. ASSUME NEW v \in Workers, wpc' = [wpc EXCEPT ![v] = wpc'[v]] PROVE v = w
      BY <3>1, <2>t DEF TypeOK
    <3>2. ASSUME NEW v \in Workers,
                 claim_next_job(v) \/ StartHandler(v) \/ FinishWork(v) \/ HandlerError(v)
                   \/ Recheck(v) \/ RecordOutcome(v) \/ ExecuteJobErr(v) \/ RecordError(v)
          PROVE  FALSE
      <4>1. v # w
        BY <2>3, <3>2 DEF claim_next_job, StartHandler, FinishWork, HandlerError, Recheck,
                          RecordOutcome, ExecuteJobErr, RecordError
      <4>2. PICK p : wpc' = [wpc EXCEPT ![v] = p]
        BY <3>2 DEF claim_next_job, StartHandler, FinishWork, HandlerError, Recheck,
                    RecordOutcome, ExecuteJobErr, RecordError
      <4> QED BY <4>1, <4>2, <2>t DEF TypeOK
    <3>3. ASSUME NEW v \in Workers, SkipOnError(v) PROVE FALSE
      BY <3>3 DEF SkipOnError, rows
    <3>4. ASSUME NEW v \in Workers, ensure_worker_released_job(v) PROVE lockedBy[j] = w
      <4>1. wpc' = [wpc EXCEPT ![v] = "idle"]
        BY <3>4 DEF ensure_worker_released_job, NextIteration
      <4>2. v = w
        BY <4>1, <2>t DEF TypeOK
      <4> QED BY <3>4, <4>2 DEF ensure_worker_released_job, rows
    <3>5. ASSUME wpc' = wpc PROVE FALSE
      BY <3>5
    <3>6. ASSUME Restart PROVE FALSE
      BY <3>6, <2>t DEF Restart, TypeOK
    <3> QED
      BY <3>2, <3>3, <3>4, <3>5, <3>6
         DEF Next, WorkerStep, EnqueueCount, find_active_job, EnqueueInsert, set_job_progress,
             touch_job_heartbeat, cancel_job, GoStale, recover_stale_queued_jobs,
             fail_exhausted_queued_jobs, recover_stale_jobs, recover_running_jobs_on_startup,
             StartupError, tasks
  <2> QED BY <2>1, <2>2, <2>3, <2>t DEF Executing, TypeOK
<1> QED BY <1>1, SafeCorrect, PTL DEF Spec, SettlesOnlyOwnClaim
=============================================================================
