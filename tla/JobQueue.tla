------------------------------ MODULE JobQueue ------------------------------
(***************************************************************************)
(* The persistent background job queue: the background_jobs table, the     *)
(* enqueue path, the worker pool with its heartbeats, the executor and the *)
(* recovery statements (src/backend/src/jobs).                             *)
(*                                                                         *)
(* Every SQL statement is one atomic step; everything between two          *)
(* statements of one task may interleave with the other tasks.  A worker   *)
(* id carries a fresh UUID per process, so the ids of an ended process     *)
(* match no live worker: such a lock is written Ghost.  Times are          *)
(* abstracted to the two comparisons the code makes with them: created_at  *)
(* orders claims (createdAt), updated_at tells a stale running row from a  *)
(* fresh one (fresh).                                                      *)
(***************************************************************************)
EXTENDS Integers, FiniteSets

CONSTANTS
    Jobs,          \* row ids background_jobs may ever use
    Legacy,        \* rows an older release left queued with no attempts left
    Workers,       \* worker loops of one process
    Clients,       \* tasks that may be inside enqueue_job at the same time
    Resources,     \* (kind, resource_type, resource_id) triples
    KindOf,        \* executor family of a resource: ingest, export or zip
    NoWorker,      \* locked_by IS NULL
    Ghost,         \* locked_by names a worker of an ended process
    NoJob,         \* an idle worker has no job
    MaxAttempts,   \* max_attempts
    QueueCap,      \* MAX_QUEUED_JOBS_PER_USER
    MaxRestarts,   \* bound: process restarts
    MaxOutages,    \* bound: statements that fail with a database error
    MaxBumps       \* bound: moves of a queued row to the queue front

ASSUME JobQueueAssumption ==
    /\ IsFiniteSet(Jobs) /\ IsFiniteSet(Workers) /\ IsFiniteSet(Clients)
    /\ Legacy \subseteq Jobs
    /\ KindOf \in [Resources -> {"ingest", "export", "zip"}]
    /\ Resources # {} /\ Clients # {}
    /\ NoWorker \notin Workers /\ Ghost \notin Workers /\ Ghost # NoWorker
    /\ NoJob \notin Jobs
    /\ MaxAttempts \in Nat \ {0}
    /\ QueueCap \in Nat /\ MaxRestarts \in Nat
    /\ MaxOutages \in Nat /\ MaxBumps \in Nat

VARIABLES
    status,     \* background_jobs.status; "absent" before the INSERT
    resource,   \* background_jobs.(kind, resource_type, resource_id)
    lockedBy,   \* background_jobs.locked_by
    attempts,   \* background_jobs.attempts
    createdAt,  \* background_jobs.created_at, as a rank
    fresh,      \* updated_at >= now() - stale_minutes
    wpc,        \* where each worker loop is
    wjob,       \* the job it claimed
    outcome,    \* result of the handler it ran
    cpc,        \* where each enqueue_job call is
    cres,       \* the resource it is called for
    startup,    \* the startup recovery task: "pending" or "done"
    clock,      \* now() of the next INSERT
    restarts, outages, bumps,  \* counters of the bounds
    produced,   \* history: jobs whose handler has succeeded at least once
    takenOver   \* history: jobs requeued while a live worker was on them

rows  == <<status, resource, lockedBy, attempts, createdAt, fresh>>
tasks == <<wpc, wjob, outcome>>
calls == <<cpc, cres>>
hist  == <<produced, takenOver>>
bounds == <<restarts, outages, bumps>>
vars  == <<rows, tasks, calls, startup, clock, bounds, hist>>

Active   == {"queued", "running"}
Terminal == {"complete", "failed", "cancelled"}
Statuses == Active \cup Terminal \cup {"absent"}
Lockers  == Workers \cup {NoWorker, Ghost}
Outcomes == {"ok", "retry", "permanent", "cancelled"}

\* A worker between its claim and the end of execute_job.
Executing(w) == wpc[w] \in {"start", "work", "recheck", "record", "err"}
\* A worker that has ended execute_job has only the release left.
Holds(w, j)  == wjob[w] = j /\ Executing(w)

ActiveRows == {j \in Jobs : status[j] \in Active}

\* Value of a resource field that is not in use.
AnyResource == CHOOSE r \in Resources : TRUE

-----------------------------------------------------------------------------
(* The statements of store.rs, as changes of the rows.                     *)

\* Mutant: off by one in the retry test.
RetryStatus_Late(j) == IF attempts[j] > MaxAttempts THEN "failed" ELSE "queued"

\* CASE WHEN attempts >= max_attempts THEN 'failed' ELSE 'queued' END
RetryStatus(j) == IF attempts[j] >= MaxAttempts THEN "failed" ELSE "queued"

\* Release running row j with status s; every release bumps updated_at.
Settle(j, s) ==
    /\ status'   = [status EXCEPT ![j] = s]
    /\ lockedBy' = [lockedBy EXCEPT ![j] = NoWorker]
    /\ fresh'    = [fresh EXCEPT ![j] = TRUE]
    /\ UNCHANGED <<resource, attempts, createdAt>>

\* Mutant: the guard on the status is missing.
IfRunning_NoGuard(j, s) == Settle(j, s)

\* UPDATE ... WHERE id = j AND status = 'running' (no test of locked_by).
IfRunning(j, s) ==
    IF status[j] = "running" THEN Settle(j, s) ELSE UNCHANGED rows

complete_job(j)               == IfRunning(j, "complete")
fail_job(j)                   == IfRunning(j, RetryStatus(j))
fail_job_permanent(j)         == IfRunning(j, "failed")
finalize_cancelled_running(j) == IfRunning(j, "cancelled")

\* Mutant: a recovered row gets its attempts back.
RequeueAll_Reset(S) ==
    /\ status'   = [j \in Jobs |-> IF j \in S THEN "queued" ELSE status[j]]
    /\ lockedBy' = [j \in Jobs |-> IF j \in S THEN NoWorker ELSE lockedBy[j]]
    /\ fresh'    = [j \in Jobs |-> IF j \in S THEN TRUE ELSE fresh[j]]
    /\ attempts' = [j \in Jobs |-> IF j \in S THEN 0 ELSE attempts[j]]
    /\ takenOver' = takenOver \cup {j \in S : \E w \in Workers : Holds(w, j)}
    /\ UNCHANGED <<resource, createdAt, produced>>

\* UPDATE ... WHERE status = 'running' AND id IN S: requeue or fail each row.
RequeueAll(S) ==
    /\ status'   = [j \in Jobs |-> IF j \in S THEN RetryStatus(j) ELSE status[j]]
    /\ lockedBy' = [j \in Jobs |-> IF j \in S THEN NoWorker ELSE lockedBy[j]]
    /\ fresh'    = [j \in Jobs |-> IF j \in S THEN TRUE ELSE fresh[j]]
    /\ takenOver' = takenOver \cup {j \in S : \E w \in Workers : Holds(w, j)}
    /\ UNCHANGED <<resource, attempts, createdAt, produced>>

-----------------------------------------------------------------------------
(* enqueue_job: three statements, each able to interleave.                 *)

\* Mutant: no cap.
EnqueueCount_NoCap(c, r) ==
    /\ cpc[c] = "idle"
    /\ cpc'  = [cpc EXCEPT ![c] = "find"]
    /\ cres' = [cres EXCEPT ![c] = r]
    /\ UNCHANGED <<rows, tasks, startup, clock, bounds, hist>>

\* SELECT COUNT(*): at the cap the call ends in rate_limited and changes nothing.
EnqueueCount(c, r) ==
    /\ cpc[c] = "idle"
    /\ Cardinality(ActiveRows) < QueueCap
    /\ cpc'  = [cpc EXCEPT ![c] = "find"]
    /\ cres' = [cres EXCEPT ![c] = r]
    /\ UNCHANGED <<rows, tasks, startup, clock, bounds, hist>>

EndCall(c) ==
    /\ cpc'  = [cpc EXCEPT ![c] = "idle"]
    /\ cres' = [cres EXCEPT ![c] = AnyResource]

\* find_active_job: an active row for the resource ends the call with its id.
find_active_job(c) ==
    /\ cpc[c] = "find"
    /\ IF \E j \in ActiveRows : resource[j] = cres[c]
       THEN EndCall(c)
       ELSE cpc' = [cpc EXCEPT ![c] = "insert"] /\ UNCHANGED cres
    /\ UNCHANGED <<rows, tasks, startup, clock, bounds, hist>>

\* Mutant: no unique index behind the look-up.
UniqueIndexAllows_Always(r) == r \in Resources

\* The UNIQUE partial index over active rows accepts a new row for r.
UniqueIndexAllows(r) == \A j \in ActiveRows : resource[j] # r

\* INSERT: the unique partial index over active rows makes the loser fail.
EnqueueInsert(c) ==
    /\ cpc[c] = "insert"
    /\ EndCall(c)
    /\ \/ /\ UniqueIndexAllows(cres[c])
          /\ \E j \in Jobs :
                /\ status[j] = "absent"
                /\ status'    = [status EXCEPT ![j] = "queued"]
                /\ resource'  = [resource EXCEPT ![j] = cres[c]]
                /\ createdAt' = [createdAt EXCEPT ![j] = clock]
                /\ fresh'     = [fresh EXCEPT ![j] = TRUE]
          /\ clock' = clock + 1
          /\ UNCHANGED <<lockedBy, attempts>>
       \/ /\ ~UniqueIndexAllows(cres[c])
          /\ UNCHANGED <<rows, clock>>
    /\ UNCHANGED <<tasks, startup, bounds, hist>>

-----------------------------------------------------------------------------
(* worker_loop and execute_job.                                            *)

\* Mutants: a claim that takes exhausted rows, and one that takes running rows.
Claimable_Exhausted(j) == status[j] = "queued"
Claimable_Running(j) == status[j] \in Active /\ attempts[j] < MaxAttempts

Claimable(j) == status[j] = "queued" /\ attempts[j] < MaxAttempts

\* ORDER BY created_at ASC ... LIMIT 1
Oldest(j) == \A k \in Jobs : Claimable(k) => createdAt[j] <= createdAt[k]

claim_next_job(w) ==
    /\ wpc[w] = "idle"
    /\ \E j \in Jobs :
          /\ Claimable(j) /\ Oldest(j)
          /\ status'   = [status EXCEPT ![j] = "running"]
          /\ lockedBy' = [lockedBy EXCEPT ![j] = w]
          /\ attempts' = [attempts EXCEPT ![j] = attempts[j] + 1]
          /\ fresh'    = [fresh EXCEPT ![j] = TRUE]
          /\ wjob'     = [wjob EXCEPT ![w] = j]
    /\ wpc' = [wpc EXCEPT ![w] = "start"]
    /\ UNCHANGED <<resource, createdAt, outcome, calls, startup, clock, bounds, hist>>

WKind(w) == KindOf[resource[wjob[w]]]

\* Ingest and zip handlers first read is_job_cancelled; an export does not.
\* A cancelled job is finalized (a no-op on a row that is not running).
StartHandler(w) ==
    /\ wpc[w] = "start"
    /\ IF WKind(w) # "export" /\ status[wjob[w]] = "cancelled"
       THEN /\ finalize_cancelled_running(wjob[w])
            /\ wpc' = [wpc EXCEPT ![w] = "release"]
       ELSE /\ wpc' = [wpc EXCEPT ![w] = "work"]
            /\ UNCHANGED rows
    /\ UNCHANGED <<wjob, outcome, calls, startup, clock, bounds, hist>>

\* The progress task mirrors the percentage into the row: updated_at = now(),
\* WHERE status = 'running', without a test of locked_by.
set_job_progress(w) ==
    /\ wpc[w] = "work"
    /\ status[wjob[w]] = "running"
    /\ fresh' = [fresh EXCEPT ![wjob[w]] = TRUE]
    /\ UNCHANGED <<status, resource, lockedBy, attempts, createdAt, tasks,
                   calls, startup, clock, bounds, hist>>

touch_job_heartbeat(w) ==
    /\ Executing(w)
    /\ status[wjob[w]] = "running" /\ lockedBy[wjob[w]] = w
    /\ fresh' = [fresh EXCEPT ![wjob[w]] = TRUE]
    /\ UNCHANGED <<status, resource, lockedBy, attempts, createdAt, tasks,
                   calls, startup, clock, bounds, hist>>

\* What a handler of each family can report: thumbnails, waveforms and encodes;
\* the MP4 export; the zip archives, whose registry entry may be cancelled.
IngestOutcomes == {"ok", "retry", "permanent"}
ExportOutcomes == {"ok", "retry"}
ZipOutcomes    == {"ok", "cancelled", "permanent"}

HandlerOutcomes(k) ==
    IF k = "ingest" THEN IngestOutcomes
    ELSE IF k = "export" THEN ExportOutcomes ELSE ZipOutcomes

\* The work itself ends.  Only ingest handlers look at the row again.
FinishWork(w) ==
    /\ wpc[w] = "work"
    /\ \E o \in HandlerOutcomes(WKind(w)) :
          /\ outcome'  = [outcome EXCEPT ![w] = o]
          /\ produced' = IF o = "ok" THEN produced \cup {wjob[w]} ELSE produced
    /\ wpc' = [wpc EXCEPT ![w] =
                  IF WKind(w) = "ingest" THEN "recheck" ELSE "record"]
    /\ UNCHANGED <<rows, wjob, calls, startup, clock, bounds, takenOver>>

\* The handler returns Err: a bad payload, zip entries it cannot list, or an
\* export whose result it cannot read back.
HandlerError(w) ==
    /\ wpc[w] = "work"
    /\ wpc' = [wpc EXCEPT ![w] = "err"]
    /\ UNCHANGED <<rows, wjob, outcome, calls, startup, clock, bounds, hist>>

\* is_job_cancelled after the work.
Recheck(w) ==
    /\ wpc[w] = "recheck"
    /\ IF status[wjob[w]] = "cancelled"
       THEN /\ finalize_cancelled_running(wjob[w])
            /\ wpc' = [wpc EXCEPT ![w] = "release"]
       ELSE /\ wpc' = [wpc EXCEPT ![w] = "record"]
            /\ UNCHANGED rows
    /\ UNCHANGED <<wjob, outcome, calls, startup, clock, bounds, hist>>

\* complete_job, fail_job, fail_job_permanent or finalize_cancelled_running.
RecordOutcome(w) ==
    /\ wpc[w] = "record"
    /\ \/ outcome[w] = "ok"        /\ complete_job(wjob[w])
       \/ outcome[w] = "retry"     /\ fail_job(wjob[w])
       \/ outcome[w] = "permanent" /\ fail_job_permanent(wjob[w])
       \/ outcome[w] = "cancelled" /\ finalize_cancelled_running(wjob[w])
    /\ wpc' = [wpc EXCEPT ![w] = "release"]
    /\ UNCHANGED <<wjob, outcome, calls, startup, clock, bounds, hist>>

\* The recording statement fails: the handler returns Err to execute_job.
RecordError(w) ==
    /\ wpc[w] = "record" /\ outages < MaxOutages
    /\ outages' = outages + 1
    /\ wpc' = [wpc EXCEPT ![w] = "err"]
    /\ UNCHANGED <<rows, wjob, outcome, calls, startup, clock, restarts, bumps, hist>>

\* Mutant: an Err that is not permanent is recorded as success.
ExecuteJobErr_Complete(w) ==
    /\ wpc[w] = "err"
    /\ complete_job(wjob[w]) \/ fail_job_permanent(wjob[w])
    /\ wpc' = [wpc EXCEPT ![w] = "release"]
    /\ UNCHANGED <<wjob, outcome, calls, startup, clock, bounds, hist>>

\* execute_job's Err arm: is_permanent_job_failure decides on the message.
ExecuteJobErr(w) ==
    /\ wpc[w] = "err"
    /\ fail_job(wjob[w]) \/ fail_job_permanent(wjob[w])
    /\ wpc' = [wpc EXCEPT ![w] = "release"]
    /\ UNCHANGED <<wjob, outcome, calls, startup, clock, bounds, hist>>

\* The loop variables of one iteration of worker_loop end with it.
NextIteration(w) ==
    /\ wpc'  = [wpc EXCEPT ![w] = "idle"]
    /\ wjob' = [wjob EXCEPT ![w] = NoJob]
    /\ outcome' = [outcome EXCEPT ![w] = "ok"]

\* Mutant: the release does not test locked_by.
ensure_worker_released_job_AnyOwner(w) ==
    /\ wpc[w] = "release"
    /\ IfRunning(wjob[w], RetryStatus(wjob[w]))
    /\ NextIteration(w)
    /\ UNCHANGED <<calls, startup, clock, bounds, hist>>

\* ensure_worker_released_job: the one release that tests locked_by.
ensure_worker_released_job(w) ==
    /\ wpc[w] = "release"
    /\ IF status[wjob[w]] = "running" /\ lockedBy[wjob[w]] = w
       THEN Settle(wjob[w], RetryStatus(wjob[w]))
       ELSE UNCHANGED rows
    /\ NextIteration(w)
    /\ UNCHANGED <<calls, startup, clock, bounds, hist>>

\* The Err arm's or the release's statement fails: it is logged and the loop
\* goes on, so the row may stay running with a lock nobody heartbeats.
SkipOnError(w) ==
    /\ wpc[w] \in {"err", "release"} /\ outages < MaxOutages
    /\ outages' = outages + 1
    /\ IF wpc[w] = "err"
       THEN wpc' = [wpc EXCEPT ![w] = "release"] /\ UNCHANGED <<wjob, outcome>>
       ELSE NextIteration(w)
    /\ UNCHANGED <<rows, calls, startup, clock, restarts, bumps, hist>>

-----------------------------------------------------------------------------
(* Cancellation, recovery statements, time and process restarts.           *)

\* Mutant: a cancel keeps locked_by.
cancel_job_KeepsLock(j) ==
    /\ status[j] \in Active
    /\ status' = [status EXCEPT ![j] = "cancelled"]
    /\ UNCHANGED <<resource, lockedBy, attempts, createdAt, fresh,
                   tasks, calls, startup, clock, bounds, hist>>

cancel_job(j) ==
    /\ status[j] \in Active
    /\ Settle(j, "cancelled")
    /\ UNCHANGED <<tasks, calls, startup, clock, bounds, hist>>

\* A task that refreshes updated_at of row j while the database answers.
Refreshed(j) == \E w \in Workers :
    wjob[w] = j /\ (wpc[w] = "work" \/ (Executing(w) /\ lockedBy[j] = w))

\* stale_minutes pass without a write to running row j: nobody refreshes it,
\* or the refreshing statements keep failing.
GoStale(j) ==
    /\ status[j] = "running" /\ fresh[j]
    /\ \/ ~Refreshed(j) /\ UNCHANGED outages
       \/ Refreshed(j) /\ outages < MaxOutages /\ outages' = outages + 1
    /\ fresh' = [fresh EXCEPT ![j] = FALSE]
    /\ UNCHANGED <<status, resource, lockedBy, attempts, createdAt, tasks,
                   calls, startup, clock, restarts, bumps, hist>>

\* Mutant: the sweep skips rows with no attempts left.
StaleRows_Retryable ==
    {j \in Jobs : status[j] = "running" /\ ~fresh[j] /\ attempts[j] < MaxAttempts}

StaleRows == {j \in Jobs : status[j] = "running" /\ ~fresh[j]}

recover_stale_jobs ==
    /\ StaleRows # {}
    /\ RequeueAll(StaleRows)
    /\ UNCHANGED <<tasks, calls, startup, clock, bounds>>

\* One row of recover_stale_queued_jobs: a queued row that waited too long
\* goes one second before the oldest queued row.
recover_stale_queued_jobs(j) ==
    /\ status[j] = "queued" /\ bumps < MaxBumps
    /\ bumps' = bumps + 1
    /\ \E k \in Jobs :
          /\ status[k] = "queued"
          /\ \A l \in Jobs : status[l] = "queued" => createdAt[k] <= createdAt[l]
          /\ createdAt' = [createdAt EXCEPT ![j] = createdAt[k] - 1]
    /\ fresh' = [fresh EXCEPT ![j] = TRUE]
    /\ UNCHANGED <<status, resource, lockedBy, attempts, tasks, calls,
                   startup, clock, restarts, outages, hist>>

fail_exhausted_queued_jobs(j) ==
    /\ status[j] = "queued" /\ attempts[j] >= MaxAttempts
    /\ Settle(j, "failed")
    /\ UNCHANGED <<tasks, calls, startup, clock, bounds, hist>>

\* The spawned startup task.  Nothing orders it before the worker loops.
recover_running_jobs_on_startup ==
    /\ startup = "pending"
    /\ startup' = "done"
    /\ RequeueAll({j \in Jobs : status[j] = "running"})
    /\ UNCHANGED <<tasks, calls, clock, bounds>>

\* The startup statement fails: logged, and never tried again.
StartupError ==
    /\ startup = "pending" /\ outages < MaxOutages
    /\ startup' = "done"
    /\ outages' = outages + 1
    /\ UNCHANGED <<rows, tasks, calls, clock, restarts, bumps, hist>>

\* The process ends at any point and start_worker_pool runs again.
Restart ==
    /\ restarts < MaxRestarts
    /\ restarts' = restarts + 1
    /\ wpc'  = [w \in Workers |-> "idle"]
    /\ wjob' = [w \in Workers |-> NoJob]
    /\ outcome' = [w \in Workers |-> "ok"]
    /\ cpc'  = [c \in Clients |-> "idle"]
    /\ cres' = [c \in Clients |-> AnyResource]
    /\ lockedBy' = [j \in Jobs |-> IF lockedBy[j] = NoWorker THEN NoWorker ELSE Ghost]
    /\ startup' = "pending"
    /\ UNCHANGED <<status, resource, attempts, createdAt, fresh,
                   clock, outages, bumps, hist>>

-----------------------------------------------------------------------------
Init ==
    /\ status    = [j \in Jobs |-> IF j \in Legacy THEN "queued" ELSE "absent"]
    /\ resource  \in {f \in [Jobs -> Resources] :
                        /\ \A j, k \in Legacy : f[j] = f[k] => j = k
                        /\ \A j \in Jobs \ Legacy : f[j] = AnyResource}
    /\ lockedBy  = [j \in Jobs |-> NoWorker]
    /\ attempts  = [j \in Jobs |-> IF j \in Legacy THEN MaxAttempts ELSE 0]
    /\ createdAt = [j \in Jobs |-> 0]
    /\ fresh     = [j \in Jobs |-> TRUE]
    /\ wpc       = [w \in Workers |-> "idle"]
    /\ wjob      = [w \in Workers |-> NoJob]
    /\ outcome   = [w \in Workers |-> "ok"]
    /\ cpc       = [c \in Clients |-> "idle"]
    /\ cres      = [c \in Clients |-> AnyResource]
    /\ startup   = "pending"
    /\ clock = 1
    /\ restarts = 0 /\ outages = 0 /\ bumps = 0
    /\ produced = {} /\ takenOver = {}

WorkerStep(w) ==
    \/ claim_next_job(w) \/ StartHandler(w) \/ FinishWork(w) \/ HandlerError(w)
    \/ Recheck(w) \/ RecordOutcome(w) \/ ExecuteJobErr(w)
    \/ ensure_worker_released_job(w)

Next ==
    \/ \E c \in Clients : \/ \E r \in Resources : EnqueueCount(c, r)
                          \/ find_active_job(c)
                          \/ EnqueueInsert(c)
    \/ \E w \in Workers : \/ WorkerStep(w)
                          \/ set_job_progress(w) \/ touch_job_heartbeat(w)
                          \/ RecordError(w) \/ SkipOnError(w)
    \/ \E j \in Jobs : \/ cancel_job(j) \/ GoStale(j)
                       \/ recover_stale_queued_jobs(j)
                       \/ fail_exhausted_queued_jobs(j)
    \/ recover_stale_jobs \/ recover_running_jobs_on_startup
    \/ StartupError \/ Restart

Spec == Init /\ [][Next]_vars

\* The tokio tasks keep running, the sweep is periodic, subprocess timeouts
\* end every handler, and time passes for a row nobody refreshes.
Fairness ==
    /\ \A w \in Workers : WF_vars(WorkerStep(w))
    /\ \A j \in Jobs : WF_vars(GoStale(j) /\ ~Refreshed(j))
    /\ \A j \in Jobs : WF_vars(fail_exhausted_queued_jobs(j))
    /\ WF_vars(recover_stale_jobs)

FairSpec == Spec /\ Fairness

-----------------------------------------------------------------------------
(* Properties.                                                             *)

\* The rows and the task states keep their domains, whatever interleaves.
TypeOK ==
    /\ status    \in [Jobs -> Statuses]
    /\ resource  \in [Jobs -> Resources]
    /\ lockedBy  \in [Jobs -> Lockers]
    /\ attempts  \in [Jobs -> 0..MaxAttempts]
    /\ createdAt \in [Jobs -> Int]
    /\ fresh     \in [Jobs -> BOOLEAN]
    /\ wpc \in [Workers -> {"idle", "start", "work", "recheck", "record", "err", "release"}]
    /\ wjob    \in [Workers -> Jobs \cup {NoJob}]
    /\ \A w \in Workers : (wpc[w] = "idle") <=> (wjob[w] = NoJob)
    /\ outcome \in [Workers -> Outcomes]
    /\ cpc     \in [Clients -> {"idle", "find", "insert"}]
    /\ cres    \in [Clients -> Resources]
    /\ startup \in {"pending", "done"}
    /\ clock \in Nat
    /\ restarts \in 0..MaxRestarts /\ outages \in 0..MaxOutages /\ bumps \in 0..MaxBumps
    /\ produced \subseteq Jobs /\ takenOver \subseteq Jobs

\* A row is locked exactly while it is running: no release path (complete,
\* fail, cancel, sweep, restart) forgets the lock, none is left on a queued row.
LockIffRunning ==
    \A j \in Jobs : (lockedBy[j] # NoWorker) <=> (status[j] = "running")

\* Every queued row can still be claimed: no retry, sweep or restart puts a
\* row back with its attempts used up (only rows of an older release are so).
QueuedIsClaimable ==
    \A j \in Jobs \ Legacy : status[j] = "queued" => attempts[j] < MaxAttempts

\* At most one active row per (kind, resource), although the look-up and the
\* INSERT of enqueue_job are separate statements and retries reactivate rows.
OneActivePerResource ==
    \A j, k \in ActiveRows : resource[j] = resource[k] => j = k

\* Jobs settled "complete" were really carried out by some worker.
CompleteWasProduced ==
    \A j \in Jobs : status[j] = "complete" => j \in produced

\* Concurrent calls of enqueue_job overshoot the per-user cap by at most the
\* number of other calls in flight.
QueueDepthBounded ==
    Cardinality(ActiveRows) <= QueueCap + Cardinality(Clients) - 1 + Cardinality(Legacy)

\* Two workers never execute one job, unless the row was requeued under a
\* live worker (by the unordered startup recovery or by lost heartbeats).
ExclusiveExecution ==
    \A j \in Jobs \ takenOver : \A v, w \in Workers :
        Holds(v, j) /\ Holds(w, j) => v = w

\* A live worker's job is its own: until it is settled the row carries the
\* worker's lock, unless it was requeued under the worker.
ExecutorOwnsRow ==
    \A w \in Workers : \A j \in Jobs \ takenOver :
        Holds(w, j) => status[j] \in Terminal \/ lockedBy[j] = w

\* No step changes a row in a terminal status: no late complete, fail,
\* requeue, progress or cancel revives or rewrites a finished job.
TerminalIsFinal ==
    [][\A j \in Jobs : status[j] \in Terminal =>
          status'[j] = status[j] /\ attempts'[j] = attempts[j]]_vars

\* Attempts only grow, and only by a claim that takes the lock.
AttemptsCountClaims ==
    [][\A j \in Jobs : attempts'[j] # attempts[j] =>
          /\ attempts'[j] = attempts[j] + 1
          /\ status[j] = "queued" /\ lockedBy'[j] \in Workers]_vars

\* A worker step settles a running row only when the worker holds its lock,
\* unless the row was requeued under a live worker before.
SettlesOnlyOwnClaim ==
    [][\A w \in Workers : \A j \in Jobs :
          (wpc'[w] # wpc[w] /\ wjob[w] = j /\ restarts' = restarts
             /\ status[j] = "running" /\ status'[j] # "running")
          => lockedBy[j] = w \/ j \in takenOver]_vars

\* Every accepted job is eventually complete, failed or cancelled, in spite
\* of restarts, failed statements, lost heartbeats and re-ordering.
EveryJobSettles ==
    \A j \in Jobs : status[j] \in Active ~> status[j] \in Terminal

\* The comment of recover_running_jobs_on_startup says it runs "before claim
\* loops": while every statement succeeds no row is requeued under a live worker.
NoLiveClaimRequeued == takenOver = {}
=============================================================================
