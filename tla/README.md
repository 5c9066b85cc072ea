# Ownly in TLA+

Ownly is a self-hosted file library: a Rust backend (`src/backend`) over
PostgreSQL, Redis and an object store, a React frontend (`src/frontend`) and an
iOS app (`src/ios`). This directory models the parts whose correctness depends
on interleavings, failures, lost messages and restarts, checks them with TLC on
small instances and proves the most important properties with TLAPS for
instances of every size.

    tlc -workers 2 -config JobClaims.cfg MCJobQueue     # one run
    tlapm JobQueueProofs.tla                            # one proof module

`PROJECT.json` maps every definition to the lines it models and lists the
components, runs, mutants, findings, hazards and theorems.

## Inventory

| Part | State it keeps | Operations | What is hard |
| --- | --- | --- | --- |
| Job queue (`jobs/`) | `background_jobs` rows; worker loops | enqueue, claim, heartbeat, progress, complete, fail, cancel, release, sweeps, startup recovery | claims of two workers, stale workers that settle late, failing statements, restarts |
| Upload sessions (`uploads/`, `files/upload_*.rs`) | `upload_sessions`, `upload_session_parts`, staged and final objects | create, sign, confirm, put part, complete, abort, expire | a complete is some fifteen separate steps; aborts, retries and expiry run between them |
| Quota (`quota.rs`) | none of its own: sums over `files` and reservations | check before copies, saves, creates and finalizes; restores and replaced contents check nothing | two reads and a write with nothing around them, and writes no check sees |
| Dedup and delete (`files/content_hash.rs`, `file_delete.rs`) | `files.content_hash`, shared storage keys | find a source, count references, purge | an object shared by rows that come and go |
| Janitor (`temp_cleanup.rs`) | none | expire sessions, clean staging, spools, failed HLS packages | overlaps with handlers that still run |
| Upload tray (`frontend/src/lib/upload-manager.ts`, `upload-pipeline.ts`) | rows of a batch, stage gates, sets of ids in work | pick, pump, retry, pause, cancel, remove, reload | coroutines of a row outlive its attempt; every end must start the next row |
| Resumable transfer (`lib/resumable-upload.ts`, `api/client.ts`) | the parts of an attempt | create or resume a session, sign, PUT, confirm, fall back, complete, abort | lost answers, late requests, runners of a failed attempt |
| Collaboration server (`collab/`) | session (op ring, snapshot, participants, version), hub | join, heartbeat, submit, sync | optimistic locking, OT, answers that overtake broadcasts |
| Collaboration client (`lib/collab/`, `useDocumentCollab.ts`, `RtfEditorDialog.tsx`) | last seq, pending ops, editor text, locks | type, move, send, rebase, poll, reconnect | three channels carry the same ops |
| Ingest recovery (`jobs/recovery.rs`) | `files.*_status` columns | requeue stale jobs, re-enqueue orphans | two tables without a transaction |
| Storage placement (`storage/`) | placement and stripe rows, capacity cache | plan, put, get, delete | partial puts, stale plans, fallback nodes |
| Storage migration (`admin/storage_migration*.rs`) | `storage_migration_runs` rows, a cancel flag | preview, migrate, cancel, resume | one run at a time, restart in the middle |
| Recycle bin and tree (`files/recycle_bin.rs`, `folders.rs`, `delete_job.rs`) | `deleted_at`, `parent_id`, delete jobs | trash, restore, purge, move | tree invariants over several statements |
| HLS and media (`hls/`, `video/`, `image/`, `audio/`, `document/`) | package objects, `hls_ready`, spools | encode, export, cancel, reprocess | long subprocesses that outlive their job |
| Shares, authz, auth, setup, admin | one row per request | CRUD and checks | mostly sequential |

**Interactions.** The tray starts transfers; a transfer drives the session
handlers; finalize inserts the `files` row and calls `enqueue_job`; workers read
the object it stored. Dedup makes files share an object, so a delete counts
references before it purges. The janitor and the sweeps are timers beside the
request handlers. On the server everything meets in rows and objects and there
is no lock across statements: a guard in a `WHERE` clause, a version column or a
unique index is the only protection. In the browser everything meets between
two `await`s. That is where the properties aim.

## Modules

    JobQueue        <- MCJobQueue, JobQueueProofs
    UploadSession   <- MCUploadSession, UploadSessionProofs
    StorageQuota    <- MCStorageQuota, StorageQuotaProofs
    SeqLoops        <- SeqLoopsProofs
    UploadPipeline, SeqLoops <- UploadManager <- MCUploadManager, UploadManagerProofs
    ResumableTransfer <- ResumableTransferProofs
    SeqLoops        <- TextOT <- CollabRoom <- MCCollabRoom, CollabRoomProofs <- CollabConvergeProofs
    CollabRoom implements CollabLog

`JobQueue`, `UploadSession`, `StorageQuota` and `CollabLog` are single
components; `UploadManager` composes the tray with the stage gates,
`ResumableTransfer` the client's part loop with the server's handlers and the
network, `CollabRoom` the editors with the backend, the sockets and HTTP.
`SeqLoops` has `filter` (`Kept`, `Only`) and the loop over an array (`Each`) as
recursive functions, which the prover can unfold.

### JobQueue

`jobs/store.rs`, `jobs/worker.rs`, the outcome paths of `jobs/executor.rs` and
`recover_stale_queued_jobs`.

* State: one function per column of `background_jobs` that a statement reads
  (`status`, `resource`, `lockedBy`, `attempts`, `createdAt`, `fresh`), the
  program counters of worker loops and enqueue calls, the startup task, and
  two history variables, `produced` and `takenOver`.
* One SQL statement is one step. `enqueue_job` is `EnqueueCount`,
  `find_active_job` and `EnqueueInsert`; the partial unique index of migration
  004 is `UniqueIndexAllows`. A worker iteration is `claim_next_job`,
  `StartHandler`, `FinishWork`, `Recheck`, `RecordOutcome`,
  `ensure_worker_released_job`; handlers are classed by what they check and can
  report (ingest, export, zip). `FOR UPDATE SKIP LOCKED` makes the claim atomic.
* `updated_at` is compared with one threshold, so it is the flag `fresh`;
  `created_at` only orders claims and is a rank. `GoStale` is possible for a row
  nobody refreshes, or when the refreshing statements fail.
* `RecordError`, `SkipOnError`, `StartupError` and the second case of `GoStale`
  are statements that fail without effect; `Restart` ends the process at any
  point. A worker id holds a UUID of its process, so after a restart its locks
  are `Ghost`. `Legacy` rows are queued rows with no attempts left, which
  `fail_exhausted_queued_jobs` exists for.

`ExclusiveExecution`, `ExecutorOwnsRow` and `SettlesOnlyOwnClaim` except jobs
requeued under a live worker (`takenOver`): after lost heartbeats or the
startup race two workers do run one job, and the first to finish settles the
row of the other because `complete_job` and `fail_job` do not test `locked_by`.
What stays true even then is that a terminal row is never changed and that
attempts run out.

### UploadSession

The resumable uploads of one user from `create_session` to the deletion of the
file.

* State: the session columns (`sstat`, `reserved`, `expired`, `bytes`), the part
  rows (`part`, `token`), signed URLs (`urls`), staged and final objects
  (`staged`, `blob`), the library rows (`row`: the storage key a file uses), the
  handlers (`task`) and the janitor's worklist (`sweeping`). `refused` and
  `deleted` are history.
* A handler is a record with a program counter and the values it has read. Each
  write and each object-store call is a step; a handler can vanish at any step
  (axum drops the future when the client disconnects, or the process stops).
  `complete_session` runs through `CompleteBegin`, `CompleteList`,
  `mark_completing`, `FinalizeUsed`, `FinalizeQuota`, `FinalizeKnownHash`,
  `hash_and_put_final`, `FinalizeFind`, `FinalizeDrop`, `insert_deduped_file` or
  `insert_non_video_file` and `EnqueueJobs`, `FinalizeClean` (the staging, then the
  placement link of a new object, which may fail), `mark_complete`; every error
  leads to `RevertActive`.
* A session stands for its id, its pre-assigned `file_id` and its storage key.

Abstractions: every part has size 1, so quota and bytes are counted in parts; the
client's content hash is honest; `find_dedup_source` may return any match (the
code takes the oldest); failing statements are represented by the paths that
matter (`enqueue_job`, the placement link), a statement that fails has no
effect, and replies lost after a commit appear as a vanished handler followed by
a retry. The recycle bin is not in this module: a purge takes any row.

Two invariants hold only with a part of the environment off, and changing that
constant produces the counterexample: `BytesMatchParts` with `MaxMints = 1` (the
size-0 row of a signed URL is read without a lock, two recorders upgrade it and
count its bytes twice; complete then refuses the session, and `BytesCoverParts`
is what remains true), and `FileHasBlob` with `CanPurge = TRUE` (a delete
between the dedup look-up and the INSERT finds no reference and purges the
object the new row will name).

### StorageQuota

Every request that changes what is counted against a user's quota: copies and
single uploads, saves of several files from a public share, resumable sessions,
replaced contents and the recycle bin. Bytes are counted in units; a request asks
for one or more. A handler reads the stored bytes, then the reserved bytes, then
writes; a save writes its files one by one and may stop half way (`save_returns`).

Three writes are made without a check: `restore_recycle_bin_items`;
`put_file_content`, the new content of a file through the API
(`files/content_replace.rs:73`) or through a public share
(`shares/handlers.rs:1193`); and `insert_uncounted`, what a save copies beyond the
sum it checked, as the sum has an id once that the request names twice and the copy
takes a file at the size it has by then (`shares/handlers.rs:1880-1933`). The
history `unchecked` counts what they wrote since the user was last within the quota
with no request under way (`Balanced`).

`UsedWithinQuota`, what the comment on `ensure_within_quota` says ("Reject
storage mutations that would exceed the user's effective quota") and what
`docs/resumable-upload-improvements.md:62` calls an atomic reservation, is false
in two ways: by any amount, with no race at all, through the three writes above,
and by the races of the checked ones (`QuotaExact.cfg`: two copies that check
together). `OvershootBounded` separates the two: the checked requests add to
`Quota + unchecked` at most what the other requests in flight may ask for.
`ReservationsBounded` bounds the reservations, which the unchecked writes cannot
raise. Both are proved.

### UploadPipeline and UploadManager

`upload-pipeline.ts` keeps, per stage, a set of slots, a wait queue and a map of
resolvers; `UploadPipeline` has these three and its operations on them.
`UploadManager` has the tray: batch, rows, the pump's pending closure, and for
each row the worker (`uploadClaimedItem`), the phases coroutine
(`runGenericPostUploadPhases`), strays of attempts that are over, and the poll
of the ingest. A JavaScript handler runs to completion, so an action is one
handler or one stretch of a coroutine between two awaits; operators `f(t)`
compose the functions a handler calls, `Commit` stores the result. Every
exported operation on the batch is an action, with reload and restore from
storage. Percentages, names and delays are left out.

A row is not a file: `FileOf` says which file a row is about. `Track` (a reprocess,
or a job found running) skips a file only if a row of it is "uploading" or "queued"
(`upload-manager.ts:1463-1467`, `1510-1514`), so a row that failed or was cancelled
stays beside a newer row of its file. `server` is the file's state; the server
stores a file before its answer is back (`ServerStores`).

### ResumableTransfer

One large file through `uploadFileResumableBytes`, over the attempts of
`uploadClaimedItem`.

* Client state: the row and the session id it stores (`rowSess`), the id as it
  was claimed (`claimed`), the worker, its retries, the attempts (`att`) and for
  each attempt the request every part waits for (`work`). Runners are not named:
  `mapWithConcurrency` starts the first k parts, `Sent` hands a runner its next
  part, `Rejected` ends it. Parts of a failed attempt go on, as in the code.
* Server state: session status, part rows with placeholder sizes, tokens, staged
  objects, and for each registered file what it was assembled from. A handler is
  one step, except `confirm_part`, which checks and uses its token in two.
* Network: a request is answered, refused (`PartRefused`, `SessionFails`,
  `CompleteFails`) or given up by the client; then it is in `late` and may reach
  the server at any later time or never. A lost answer is a late request that
  arrives at once. `PutSwallowed` is a hop that answers 200 without storing,
  which the comment at `resumable-upload.ts:313` describes.
* `link` is what the deployment offers: parts through the API, signed URLs of
  another origin, or signed URLs the browser can use.

### CollabRoom, TextOT, CollabLog

One document room: the tabs, their sockets and HTTP requests, and the backend
replica that keeps the session in memory. `TextOT` has `apply` and the
transforms of `collab/ot/text.rs` and `lib/collab/ot/text.ts` as operators.
Backend jobs read a copy of the session, compute, and save if the version is
unchanged (`CAS_RETRIES` times). A frame or answer is the sequence of
`ingestOp`, `applySession` and error calls its handler makes. HTML is the text
it renders; a character is the id of the op that inserted it.

Each socket has its own receive task (`ws.rs:166`), so when one drops, the frame in
work goes on beside those of the next socket (`Orphan`) unless the task is aborted
(`ws.rs:206`, `AbortFrame`). Of the frames still waiting then, the server may have
received the first if it writes (`Received`); later ones are lost, a bound on what
a receive buffer may hold.

`CollabLog` is what the room promises: one log that only grows, and to every
editor a subsequence of it in log order, each op at most once, none of the
user's own. `CollabRoom` implements it with `log <- session.log` (`LogSpec`),
through frames, polls, syncs and answers that overtake each other. It does not
promise that no op is skipped, and none could: see `collab_stale_base`.

`CleanConverges` is the convergence that does hold. At every moment, and not only
when everything has arrived, an editor shows the server's text if it was handed
every foreign op (`CaughtUp`), has no unconfirmed change, is the only tab of its
user (`Alone`) and none of its ops was applied twice (`Once`), unless it is in
`clash`, the history of the tabs that went astray. The code gives no more: with any
row of this table but one left out of `clash`, TLC refutes the property.

| A tab goes astray | because |
| --- | --- |
| its change is saved with a base older than the ring (`AstrayBySave`) | `ops_after` returns only what the ring still holds |
| any join seeds an emptied text (`AstrayBySave`, every tab) | `engine.rs:66` seeds whenever the text is empty, and no op tells the others |
| its change is refused over the socket for a lock (`RefuseOp`) | the error takes it from `pendingOps`, the editor keeps it |
| it types on top of an unconfirmed change (`Edit`) | the second change is sent with a base that lacks the first |
| it stops with an unconfirmed change (`Stop`) | `pendingOps` is forgotten, the text is not |
| the answer to its join puts another text into the editor (`Answer`) | the HTML shown is the one of the last commit, which may be older than the seq that comes with it |
| it is handed a foreign op that meets its pending change, or a change the server has logged already (`AstrayByOp`) | `transformReplace` gives each side its own winner; the client rebases over a change the op was rebased over before |
| it is handed a commit with other HTML than it shows (`AstrayByOp`) | the commit replaces the text, unconfirmed change included |

The exception is the join's answer: TLC finds no violation without that row (such a
tab has missed foreign ops, or has typed before it joined, and that change is never
sent nor confirmed), but the induction uses it. Two rows need more than the run
has: a ring of one op and three changes, and two changes of which one is POSTed
from a dropped socket while a poll raises `latestSeq`. A change that is refused over
HTTP, loses `CAS_RETRIES` races or is typed before the join stays pending, so that
the property does not speak of its tab.

## Runs

| Run | Instance | Shows |
| --- | --- | --- |
| `job_claims` | 2 rows, one of them exhausted, 2 workers, 2 attempts, a restart, a failed statement, a bump; `FairSpec` | `TypeOK`, `LockIffRunning`, `QueuedIsClaimable`, `CompleteWasProduced`, `ExclusiveExecution`, `ExecutorOwnsRow`, `TerminalIsFinal`, `AttemptsCountClaims`, `SettlesOnlyOwnClaim`, `EveryJobSettles` |
| `job_enqueue` | 3 rows, 3 resources (one of each kind), 2 concurrent calls, cap 1 | `OneActivePerResource`; `QueueDepthBounded`: the cap is overshot by at most the other calls in flight |
| `job_startup_race` | 1 row, 2 workers, no failures | refutes `NoLiveClaimRequeued` (finding) |
| `upload_lifecycle` | 1 session of 1 part, 2 handlers, 1 signed URL, aborts, failures, purges; `FairSpec` | `TypeOK`, `FinalizeExclusive`, `ReservationReleased`, `CompletedHasFile`, `BytesCoverParts`, `ConfirmTokenSingleUse`, `EverySessionSettles` |
| `upload_dedup` | 2 sessions with the same bytes, one with a client hash, proxied parts, aborts | `FileHasBlob`, `BytesMatchParts`, `FileBytesReceived` |
| `upload_refused` | 1 session that fills its quota | refutes `FinalizeHonest` (finding) |
| `upload_retry_dedup` | 1 session, failing `enqueue_job` | refutes `FileHasBlob` (finding) |
| `upload_quota` | 2 requests, 4 sessions, quota of 2 units, requests of up to 2 units, 1 unit in the bin, 1 unit unchecked | `TypeOK`, `OvershootBounded`, `ReservationsBounded` |
| `upload_batch` | 2 rows among a resumable video, a second row of its file and a generic file, one slot everywhere, retry, reload, pause; `FairSpec` | `TypeOK`, `GatesSound`, `NoDoubleStart`, `CompleteIsSettled`, `PollersBounded`, `PolledOnce`, `QueueHeadIsClaimed` |
| `resumable_transfer` | 2 parts, up to 2 runners, 1 automatic and 1 manual retry, 2 disturbances, all three links; `FairSpec` | `ReportedIsRecorded`, `DoneIsWhole`, `TransferSettles` |
| `collab_room` | 2 tabs, ring of 2 ops, the ten scenarios of `CollabPlans` (3 million states) | `TypeOK`, `BaseWithinLog`, `ResentOnlyAfterFailure`, `CleanConverges`, `LogSpec` |
| `collab_stale_base` | 2 tabs, one change, one caret move | refutes `LatestIsApplied` (finding) |

**Why the bounds are enough.** Workers, handlers and tabs differ only by
identity and the races are between two of them; a takeover needs two workers and
one row, a second takeover adds no new relation. Two attempts let a row be
claimed, taken over and claimed again. Two handlers race on one session; the
part and token invariants of `upload_lifecycle` are proved for any number of
parts, and the liveness needs none beyond one. Dedup races are between two whole
sessions of a part each. The tray has one slot per stage and one byte slot, so
that every row waits, and two rows are enough for one to hold what the other
waits for, or to share its file. Two parts and two runners are the least for a runner that
outlives its attempt; two disturbances let an attempt fail, its retry fail or be
cancelled in the backoff, and a manual retry resume the session; the trace of
the late sign request below needs exactly these. Four sessions and two requests
let a create, a finish and a save overlap on a full quota; one unchecked unit puts
the stored bytes above it before they begin. A ring of two drops
its oldest op at the third. A `CollabRoom` scenario bounds changes, caret moves
and faults together; the ten were chosen so that each pair of channels races.

Deadlock is not checked where bounded instances end when their work is done;
`upload_quota` never ends and is checked for it.

**Fairness.** `JobQueue`: weak fairness of a worker's next step (tokio tasks keep
running; `media/subprocess.rs` kills ffmpeg at a deadline and object-store
requests have a timeout), of the periodic sweeps of `start_worker_pool`, and of
time passing for a row nobody refreshes. Heartbeats, cancels, errors and
restarts get none and are bounded; a database that fails for ever is not
covered. `UploadSession`: the next step of a handler that has begun (it may also
vanish), the deadline passing, the sweep and its clean-up loop; nothing of
clients. `UploadManager`: the pump's closure and the start of a transfer run, and
a transfer and a backoff end (a request is answered or fails, a timer fires).
`ResumableTransfer`: weak fairness of the browser as a whole, which says only
that while the page is open some timer or request goes on; nothing of the user
or of late requests.

## Findings

Each is a run that TLC must refute.

* `job_startup_race`: `recover_running_jobs_on_startup` is documented to run
  before the claim loops, but is spawned beside them and can requeue a job that
  a new worker has just claimed (`jobs/worker.rs:46`).
* `upload_refused`: finalize adds the session's own reservation to its size,
  so an upload larger than half of the free quota passes create and every part
  and is refused at complete (`files/upload_finalize.rs:215`).
* `upload_retry_dedup`: when `enqueue_job` fails behind the INSERT, the retried
  complete takes its own row as a dedup source, deletes its own object and fails
  on the primary key; the row stays without an object
  (`files/upload_finalize.rs:315`).
* `collab_stale_base`: a session view raises `latestSeq` past ops the editor was
  never handed; they are skipped, and the next op claims a base the tab has not
  seen (`lib/collab/client.ts:220`).

### Further configurations that TLC refutes

Kept beside the runs; each ends in a short counterexample.

| cfg | Property | What happens |
| --- | --- | --- |
| `QuotaExact` | `UsedWithinQuota` | two requests check before either writes |
| `UploadSlotLeak` | `NoLeakedSlot` | the phases coroutine of a refused upload asks for the storing stage after the row's slots were dropped (`client.ts:1771`); the slot is never given back |
| `UploadRebuildFile` | `RebuildKeepsFile` | removing the row of a cancelled rebuild deletes the video (`upload-manager.ts:1697`, against the comments at 830 and 1817) |
| `TransferSkips` | `SkipsOnlyStored` | `list_received_parts` ("already stored", `store.rs:133`) lists the size-0 rows of signed URLs; a resumed upload skips a part that was never stored and complete answers 409 on every retry. `DoneIsWhole` shows that no file is registered from it |
| `TransferReuse` | `RetryReusesSession` | the automatic retry uses the row as it was claimed, without the session id stored since (`upload-manager.ts:1167`, against 197): each retry opens a session that keeps its reservation until it expires, and a lost answer to complete ends in two files |
| `CollabLocks` | `LocksExclusive` | a heartbeat takes a lock that `submit_op` refuses (`engine.rs:133`, against `docs/collab-engine.md:16`) |

`CommitsConsistent` (the HTML of a format commit renders its text) is refuted too
in instances with full syncs: `client.ts:430` sends the text of the pending op
with the newer HTML of `RtfEditorDialog.tsx:148`.

### Observed while modelling

The models have these behaviours; no property of a run is about them.

* Transfer: a late sign request between the two halves of `confirm_part` makes
  it answer that a part is recorded which is a placeholder
  (`ReportedIsRecorded` names this exception). After `Promise.all` rejects, the
  other runners go on beside the retry, above
  `ADAPTIVE_PART_CONCURRENCY_MAX`, and no cancel reaches them. The id of an
  aborted, expired or completed session is never cleared from its row, so a
  manual retry of it fails for ever. A cancel while the session is being created
  cannot name it and leaves it open; a cancel while complete is under way leaves
  the file.
* Tray: `reattachUploadFile` leaves an "uploading" row that nobody claims and that
  keeps a byte slot (`QueueHeadIsClaimed` exempts it as `Orphaned`). Cancelling
  during a backoff removes the row, and the transfer starts again for it when
  the batch has other rows. A row cancelled while its poll waits for a slot stays
  in `resumingItemIds`. After a reload a rebuild is no longer known as one and
  cancelling it deletes the file. `pumpProcessingQueue` may poll generic rows.
  Removing an old failed row deletes the file that a newer row of it has finished
  (1697), and so does removing a finished row that a late poll has turned into an
  error (767-795); a finished file is therefore not safe from the tray, and no
  property says so. A poll that is cancelled while it shows its progress may still
  end the row as "done". A transfer whose answer is lost is sent again and stored
  twice; the model has one file for both.
* Collaboration: two quick ops of one user share a base and the second is
  transformed against the first (`engine.rs:190`). Inserts at the same index and
  inserts inside a deletion do not converge. Frames are ignored as local by user
  id, so two tabs of one user do not see each other. Ops in flight on a socket
  that drops may be lost or applied beside those of the next socket; a POST
  whose answer is lost is applied twice. Refused ops stay in the editor. A base
  older than the ring is transformed against what is left. Polling never starts
  if the socket never opened; edits before the join is answered are not sent; a
  late joiner gets old HTML with the newest seq.
* Convergence: three ways to part an editor from the server came up only when
  `CleanConverges` was strengthened for its proof. A join
  seeds a text that its users have emptied; when its answer is lost nobody hears of
  it. When the first of two POSTs fails and the second, typed on top of it, is
  applied, `onopen` sends the first behind it with the base raised, and it is applied at
  the place it had before the second. And a session view can raise `latestSeq` past
  a tab's own change while it is still pending; the next foreign op, which the
  server has rebased over that change, is rebased over it again.

## Proofs

All theorems hold for every value of the constants that satisfies the named
assumptions of the modules (finite sets, distinct model values, natural-number
bounds); further assumptions are in the statement.

`JobQueueProofs`: `TypeCorrect`, then `SafeCorrect` for the inductive
`SafeInv = TypeOK /\ LockIffRunning /\ QueuedIsClaimable /\ AbsentUnclaimed /\
ExecutorOwnsRow /\ ExclusiveExecution`. `ExclusiveExecution` is not inductive:
that a second worker cannot claim a job under execution follows from its row
being locked by the first (`ExecutorOwnsRow`), and that a row put back is not
claimed by a third from `LockIffRunning`. `AbsentUnclaimed` (a row never
inserted has no attempts) gives `QueuedIsClaimable` its INSERT case. Consequences:
`LockDiscipline`, `RetriesAreClaimable`, `Exclusive`, `ExecutorOwns`,
`TerminalStays`.

The part about `enqueue_job` rests on `StepEffect`: only the INSERT adds an active row, only
the claim counts an attempt, only the count of `enqueue_job` admits a call. From
it `OneActive` (through the unique index), `AttemptsClaimed`, and `DepthBounded`
with `DepthInv`: active rows plus admitted calls are at most the cap plus the
other calls plus the legacy rows, since an INSERT turns a call into a row.
`Produced` needs `OkWasProduced` (a worker about to record success has had its
handler succeed); `SettlesOwn` follows from `SafeInv`.

`UploadSessionProofs`: `TypeCorrect`, then
`SafeInv = FinalizeExclusive /\ ReservationReleased /\ CreatingIsAbsent /\
RegisteredFirst /\ CompletedHasFile`. A session with a finalizing handler is
completing or aborted, so `mark_completing` cannot admit a second one, and only
the finalizing handler itself can set the session active again.
`CreatingIsAbsent`: an `insert_session` in flight is for a session without a
row, so it revives none. `RegisteredFirst`: a handler past its INSERT has its
files row, or that row was purged. `OneFinalize`, `QuotaReleased` and
`CompleteIsRegistered` are the consequences.

On the part rows: `BytesCover` (every step that records a part adds at least its
size: `PartChanges`, `RecordsOne`) and `TokenSingleUse`, with
`TokenInv = TokensMinted /\ TokensDistinct /\ TokensConsumed /\
ConfirmTokenSingleUse`: a token in a row was minted, two rows never hold the same
one, and a token a recorder has consumed is in no row.

On the files: `FilesKeepObjects` proves `FileHasBlob` when no store fails and
nothing is purged, the assumptions the two counterexamples above show to be
needed. `FileInv`: a session whose handler may still delete its object has no
row of that key (`Unfiled`), the key a row names has an owner that is past its
assembly (`OwnersKept`), and a dedup source a handler holds is such a key
(`SourcesKept`). `BytesMatch` and `FileReceived` assume `MaxMints = 0`: without
placeholders the part row's primary key lets one of two recorders in.

`StorageQuotaProofs`: `QuotaInv = TypeOK /\ Needy /\ PromisesBounded /\
CreatesBounded`. `Promised` is the set of units that requests past the check may
still insert; the last request to read the stored bytes saw room for its own,
so stored plus promised exceed the quota by at most what the others promised.
Every later step inserts promised units, drops a promise or is unchecked
(`unchecked`). `CreatesBounded` is the same argument for reservations.

The gates, in the first part of `UploadManagerProofs`: each operation of
`UploadPipeline` keeps `GatesSound` (slots
within the limit, no waiter while a slot is free, a resolver for exactly the
rows that wait), by lemmas over `Drain`, `ReleaseSlot`, `WaitForSlot`,
`AcquireStage` and `ReleaseAll`; `GatesAreSound` is for the gates under any
sequence of operations, for any rows and limits.

The tray, in the second part: `TrayTypeOK`, `TrayGatesSound`, `NeverStartedTwice`,
`CompleteBatchIsSettled`, `PollsAreBounded` and the action property of
`NeverPolledTwice`, for any rows, stage limit, byte slots and retries. A handler
calls functions that map a record of the tray to the next one, so the invariant is
about records: `Good(t, m)` with the counters `m`, and `TrayInv` is `Good` of the
current state. A lemma per function says that it leads from good records to good
ones; a lemma per action (`...Keeps`) puts them
together, and `Commit` stores the result. None of the properties is inductive
alone. `Fits` says how a row of the batch goes with its coroutines: a queued row
has its File and no worker; a row with its File has no file id and no poll; a
worker that still moves bytes has an uploading row without a file id; a polled row
has its file id; a row to be reselected is an error with nothing running. `RowOK`
adds that a backoff has a retry left, which is what `TypeOK` needs, that a rebuild
never has a worker, and that a file not picked yet has nothing at all, which is
why new rows meet no coroutine of an old one. In the middle of `pumpProcessingQueue` the
number of polls is not known to be within the limit (`Fine` is `Good` without it);
`FirstIds` bounds it at the end of the loop by the places that were free.
`PolledOnce` needs the polls that `resumingItemIds` has forgotten (`Forgotten`): a
cancel takes a row out of the set while its poll is under way. A counter of `Good`
holds them, and a row among them is either out of the batch or no longer an
uploading row with a file id, the only kind a pump polls; so whatever a handler adds
to the set has no poll (`Unpolled`, which `Renewed` derives for every action at
once).

`SeqLoopsProofs` has what these proofs need of loops: what is left by a filter, in
which order, and that `Each` is the last value of a function with one entry for
each run of the body.

`ResumableTransferProofs`: `TransferTypeOK`, `ReportedPartsAreRecorded` and
`DoneFilesAreWhole` for any number of parts, runners, retries and disturbances, from
the inductive `TransferInv`. `ReportedIsRecorded` is not inductive as it stands. It
needs `PartsKept` (a part whose object the server has confirmed seeing keeps object
and row, and is recorded as long as the token is the attempt's own), `TokensMatch`
(a placeholder has a token), `GivenUp` (the sign request that may still arrive
belongs to a part whose runner is dead) and `CreatedOnce` with `SessionsExist` (a
late create opens no session twice, so the session an attempt works in is never a
fresh one). `Serves` says once what any handler of the server may change; each
action is shown to be such a step. `Numbered` and `OneAttempt` count attempts: every
claim and every retry finds a number left, which is what `TypeOK` asks.

`CollabRoomProofs` has three layers, each proved from the ones below it, for any
tabs, users, texts, ring length and scenarios.

* `Inv` gives `RoomImplementsLog`, `Spec => LogSpec`. Every op in a job, an
  answer, a frame or the running handler is the op of the log at its seq; a
  job's copy of the session is a prefix of the log, equal to it if the version
  is; an editor's `seen` is ascending and below `latestSeq`. So a save whose
  version check succeeds appends exactly one op (`SaveStep`), and an op `ingestOp`
  lets through has a seq above all seen ones (`OpStep`); every other step leaves
  log and seen alone.
* `Traffic` gives `BasesStayWithinLog` and `AppliedTwiceOnlyAfterFailure`. Every
  base and `latest_seq` under way was read from the log, and `OnePlace`: as long
  as no failure was reported for it, a client op id is in one place only: a
  socket, a request, a job or the log. `ResentOnlyAfterFailure` alone is not
  inductive, since it does not see the copy that is about to be saved.
* `Typed` gives `RoomTypeOK`. `TypeOK` bounds the index and length of a logged op
  by naturals; for that, every op under way, every pending op and every payload
  a rebase returns must be one (`TransformTyped`, `ThroughTyped`, `DiffTyped`: the
  subtractions of `transformReplace` never go below zero).

`CollabConvergeProofs` proves `EditorsConverge`, `Spec => []CleanConverges`, on top of
these. `CleanConverges` is far from inductive: it looks at an editor only when nothing
of its own is open, and says nothing of what is in between.

* About the operators: `TransformsConverge` (two replaces within one text that do
  not meet give the same text in both orders and neither is lost) and
  `DiffMakesText` (what `diffPlainText` returns lies within the old text and makes
  the new one of it).
  `transformReplaceThrough` is followed one step of its loop at a time.
* `ServerOK`: as long as some tab has not gone astray, the server's text is
  `LogText`, the text the log makes of `Seed`, every logged replace lies within the
  text it was applied to, and a job's copy whose version is current is the session.
* `OwnersOK`: a client op id is one tab's and one op's, through queues, sockets,
  requests, jobs and the log. `ErrorsOK`: an error frame names no change of a tab
  that is not astray.
* `Conv`: a tab that is not astray has at most one change that its `latestSeq`
  does not cover, its text is `LogText` at `latestSeq` with that change applied
  (`Reflects`), a request for the change is the change before the ops it has been
  moved over, and if the log is ahead of the tab and has the change already, it
  is there as the server's rebase makes it. So a step of the server that appends
  a foreign op and the step of the client that is handed it are two sides of one
  square of `TransformsConverge`; when the change itself is logged, the two texts
  are equal. With no unconfirmed change and no foreign op left, `Reflects` is
  `CleanConverges`.

Sequences are filtered with `Kept` and folded with `Each` in the modules
with proofs: the prover knows neither `SelectSeq` nor `FoldLeft`. Where an induction
over a length is needed it is by the least counterexample (`SetInduction`).
`SeedAssumption` and `PlanAssumption` say that a room starts from a text and that a
key deletes some characters and inserts at most one.

**Only model-checked**: the liveness properties (`EveryJobSettles`,
`EverySessionSettles`, `QueueHeadIsClaimed`, `TransferSettles`), since fairness and
`ENABLED` are out of the prover's reach. Every invariant and every action property
of a passing run is a theorem. Proved only with part of the environment off are
`FileHasBlob`, `BytesMatchParts` and `FileBytesReceived`, as said above.

## Not modelled

* What a replaced content does to the object: `put_file_content` writes under a
  storage key that deduplicated rows may share and leaves `content_hash` as it was.
  Only its effect on the quota is modelled.
* Video uploads, which spool to local disk, and the server side of the one-shot
  multipart upload.
* Several backend replicas: the Redis store and hub of a room. The spreadsheet
  rooms have no transformation, and every session frame replaces the workbook,
  so there is no convergence to state.
* Ingest recovery beyond stale jobs, HLS package state, placement and stripes,
  migration runs, the folder tree and delete jobs: each needs a module of its
  own.
* Media processing, zip writing and object-store HTTP, which appear as outcomes.
* Shares, authorization, authentication, setup and administration: checks on
  single rows.
* The iOS client, a second client of the same API.
* The rest of the web client. Of its 94,000 lines most are components, styles and
  layout, the spreadsheet's formulas and file formats, and one-request calls of
  the API; they keep no state that is shared between concurrent steps. The parts
  that do (the tray, its gates, the transfer, the collaboration client, hook and
  editor callbacks) are modelled, some three thousand lines of it. The share of
  the repository that the map covers is small for that reason and is not meant
  to grow by mapping presentation code.

### Hazards of these parts

Found while reading; no property covers them yet (`backend/src/` is left out).

| Where | What can go wrong |
|---|---|
| `jobs/recovery.rs:93` | a crash between the files row set to queued and its `enqueue_job` leaves a file processing with no job until the orphan sweep |
| `jobs/recovery.rs:191` | a user at the job cap makes `enqueue_job` fail and ends the sweep for every later row |
| `jobs/store.rs:272` | a cancelled encode writes the job row, then the files row; the encoder may set `hls_ready` in between |
| `storage/router.rs:139` | a sidecar that falls back to the primary node has no placement, so reads ask the reserved node |
| `storage/placement.rs:355` | a single-node PUT leaves the stripe rows of an earlier PUT, and reads prefer those |
| `admin/storage_migration_run.rs:476`, `:764` | a start clears the cancel flag; two starts both find no running run |
| `files/delete_job.rs:412` | the progress reporter may overwrite a final `ready = true` |
| `files/recycle_bin.rs:459` | a restore checks the parent folder in an earlier statement |
| `temp_cleanup.rs:157` | the sweep of failed videos purges a key without counting references |
| `uploads/handlers.rs:884` | a part PUT may land after an abort cleaned the prefix; the code promises nothing about such objects |
| `collab/store.rs:187`, `:279`, `collab/engine.rs:66` | two replicas: the Redis compare-and-set is GET then SET, and two first joins create two rooms |

## Plan

1. `IngestQueue`: the `files` status columns beside the job row, cancel and
   reprocess, the orphan sweep and the HLS package, composed with `JobQueue`:
   "no file stays processing without an active job".
2. `StoragePlacement`: the upload planner against its reference definition, put,
   get and delete over nodes that fail.
3. `RecycleBin` with the folder tree, then `MigrationRuns`.
4. Two replicas of a collaboration room over Redis.
5. Proofs of the modules above.
