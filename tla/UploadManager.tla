---------------------------- MODULE UploadManager ----------------------------
(***************************************************************************)
(* The upload tray of the web client: src/frontend/src/lib/upload-manager  *)
(* .ts, the transfer coroutines of api/client.ts it starts, and the stage  *)
(* gates of UploadPipeline they share.                                     *)
(*                                                                         *)
(* JavaScript runs one handler at a time, so an action is one handler or   *)
(* one stretch of a coroutine between two awaits.  A row of the tray may   *)
(* have several coroutines at once: the worker that uploads its bytes, the *)
(* "phases" coroutine of a generic upload (runGenericPostUploadPhases),    *)
(* the resume worker that polls the ingest, and strays, which are phases   *)
(* coroutines of an attempt that is already over.                          *)
(*                                                                         *)
(* Percentages, names and delays are left out: every sleep, timer or       *)
(* request ends at some later moment.                                      *)
(***************************************************************************)
EXTENDS UploadPipeline, SeqLoops

CONSTANTS
    Uploads,    \* rows of picked files, 1..n in the order they are picked
    Rebuild,    \* rows that follow an encode job of a file the server already has
    FileOf,     \* the file on the server a row is about: two rows may share one
    Media,      \* the uploads that are video or audio
    Resumable,  \* the uploads above the resumable threshold
    FileSlots,  \* ADAPTIVE_FILE_SLOTS_CAP: suggestedFileConcurrency is 1..this
    MaxRetries, \* UPLOAD_MAX_RETRIES
    MaxRows,    \* bound: rows ever put in the tray
    CanReload,  \* whether the page may be reloaded
    CanRefuse,  \* whether the server may refuse a file after its last byte
    CanPause    \* whether the user pauses rows and the batch

ASSUME RowsAssumption ==
    /\ Items = Uploads \cup Rebuild /\ Uploads \cap Rebuild = {}
    /\ IsFiniteSet(Uploads) /\ Uploads = 1..Cardinality(Uploads)
    /\ Media \subseteq Uploads /\ Resumable \subseteq Uploads
ASSUME FilesAssumption ==
    FileOf \in [Items -> Items] /\ \A i \in Uploads : FileOf[i] = i
ASSUME LimitsAssumption == FileSlots \in Nat \ {0} /\ MaxRetries \in Nat /\ MaxRows \in Nat
ASSUME CoroutinesAssumption == Who = {"phases", "resume"}

VARIABLES
    items,      \* batch.items: the ids of the rows, oldest first
    batch,      \* batch.status, or "none" when batch is null
    row,        \* the rows' fields
    userPaused, \* userUploadPaused
    pump,       \* a closure of pumpUploadQueue waits for the unpause
    worker,     \* uploadClaimedItem of the row
    tries,      \* its retryAttempt
    phases,     \* runGenericPostUploadPhases of the current attempt
    strays,     \* rows with such a coroutine left by an attempt that is over
    resumer,    \* resumeUploadItemProcessing of the row
    resuming,   \* resumingItemIds
    aborted,    \* abortedUploadItemIds
    server,     \* the files on the server: "none", "stored" or "deleted"
    bulk,       \* cancelAllHlsReprocess on its way: for "all" rows, "rebuilds", or "none"
    made,       \* how many of Uploads were picked so far
    tracked     \* how many rows Track has added so far

vars == <<pipe, items, batch, row, userPaused, pump, worker, tries, phases,
          strays, resumer, resuming, aborted, server, bulk, made, tracked>>

Generic == Uploads \ Media

Blank == [st |-> "queued", local |-> FALSE, fileId |-> FALSE, sess |-> FALSE,
          reselect |-> FALSE, paused |-> FALSE, reproc |-> FALSE]

Terminal == {"done", "error", "cancelled"}

-----------------------------------------------------------------------------
(* The state a synchronous handler works on, as a record t: operators that *)
(* several handlers call map t to its next value, Commit stores the last.  *)

Now == [pipe |-> pipe, items |-> items, batch |-> batch, row |-> row,
        userPaused |-> userPaused, pump |-> pump, worker |-> worker,
        phases |-> phases, strays |-> strays, resumer |-> resumer,
        resuming |-> resuming, aborted |-> aborted, server |-> server]

Commit(t) ==
    \E u \in {t} :
      /\ pipe' = u.pipe /\ items' = u.items /\ batch' = u.batch /\ row' = u.row
      /\ userPaused' = u.userPaused /\ pump' = u.pump /\ worker' = u.worker
      /\ phases' = u.phases /\ strays' = u.strays /\ resumer' = u.resumer
      /\ resuming' = u.resuming /\ aborted' = u.aborted /\ server' = u.server

In(t, i)  == i \in Ids(t.items)
Live(t, i) == In(t, i) /\ t.row[i].st = "uploading"

\* updateItems with a new status for one row, if it is still in the batch.
Mark(t, i, st) == IF In(t, i) THEN [t EXCEPT !.row[i].st = st] ELSE t

Release(t, i) == [t EXCEPT !.pipe = ReleaseAll(@, i)]

\* Mutant: rows that are still uploading are forgotten.
MaybeComplete_Uploading(t) ==
    IF t.batch = "uploading" /\ \A i \in Ids(t.items) : t.row[i].st # "queued"
    THEN [t EXCEPT !.batch = "complete"] ELSE t

\* maybeCompleteBatch and maybeCompleteBatchWhenIdle
MaybeComplete(t) ==
    IF t.batch = "uploading" /\ \A i \in Ids(t.items) : t.row[i].st \in Terminal
    THEN [t EXCEPT !.batch = "complete"] ELSE t

\* pumpUploadQueue up to its await
PumpUpload(t) ==
    IF t.batch = "uploading" /\ ~t.userPaused THEN [t EXCEPT !.pump = TRUE] ELSE t

\* resumeUploadItemProcessing up to its await
StartResume(t, i) ==
    [t EXCEPT !.resuming = @ \cup {i},
              !.resumer[i] = IF CanOccupy(t.pipe["processing"], i)
                             THEN "poll" ELSE "wait",
              !.pipe = AcquireStage(@, i, "processing", "resume")]

\* The rows pumpProcessingQueue may start, oldest first.
Resumables(t) ==
    Only(t.items, {i \in Items \ t.resuming :
                     t.row[i].st = "uploading" /\ t.row[i].fileId /\ ~t.row[i].local})

\* Mutant: every row past its bytes is polled at once.
PumpProcessing_NoLimit(t) ==
    IF t.batch # "uploading" THEN t ELSE Each(StartResume, t, Resumables(t))

\* pumpProcessingQueue
PumpProcessing(t) ==
    LET next == Resumables(t)
        free == StageLimit - Cardinality(t.resuming)
        k    == IF Len(next) <= free THEN Len(next) ELSE free
    IN  IF t.batch # "uploading" THEN t
        ELSE Each(StartResume, t, SubSeq(next, 1, k))

\* Mutant: the byte slot is freed and nobody is told.
AfterUpload_NoPump(t) == MaybeComplete(PumpProcessing(t))

\* The finally of the claim loop in pumpUploadQueue.
AfterUpload(t) == MaybeComplete(PumpProcessing(PumpUpload(t)))

\* removeItemFromActiveBatch
RemoveRow(t, i) ==
    LET left == Only(t.items, Items \ {i})
        gone == [t EXCEPT !.items = left, !.row[i] = Blank, !.aborted = @ \ {i},
                          !.pipe = ReleaseAll(@, i),
                          !.batch = IF left = <<>> THEN "none" ELSE @]
    IN  PumpUpload(MaybeComplete(gone))

\* voidCleanupPartialServerFile and cancelServerVideoIngest
DeleteServerFile(t, i) ==
    IF t.row[i].fileId THEN [t EXCEPT !.server[FileOf[i]] = "deleted"] ELSE t

\* releaseUploadByteSlot
ReleaseByteSlot(t, i) ==
    IF ~In(t, i) \/ ~t.row[i].local THEN t
    ELSE PumpProcessing(PumpUpload([t EXCEPT !.row[i].local = FALSE]))

\* registerUploadServerFile
Register(t, i) ==
    LET stored == [t EXCEPT !.server[i] = "stored"]
    IN  IF In(t, i) THEN [stored EXCEPT !.row[i].fileId = TRUE] ELSE stored

\* applyPipelinedProgress: the row must hold the stage its bar shows.
ShowProgress(t, i, s) ==
    IF i \in t.aborted \/ ~Live(t, i) THEN t
    ELSE [t EXCEPT !.pipe = AcquireStage(@, i, s, "display")]

-----------------------------------------------------------------------------
Init ==
    /\ PipeInit
    /\ items = <<>> /\ batch = "none" /\ row = [i \in Items |-> Blank]
    /\ userPaused = FALSE /\ pump = FALSE
    /\ worker = [i \in Items |-> "idle"] /\ tries = [i \in Items |-> 0]
    /\ phases = [i \in Items |-> "none"] /\ strays = {}
    /\ resumer = [i \in Items |-> "none"] /\ resuming = {} /\ aborted = {}
    /\ server = [i \in Items |-> IF i \in Rebuild THEN "stored" ELSE "none"]
    /\ bulk = "none" /\ made = 0 /\ tracked = 0

(* What the user does to the tray.                                         *)

\* startUploadBatch with queuedItemsFromEntries: n more files are picked.  A
\* batch that is not uploading is replaced, its rows with it.
StartUploadBatch(n) ==
    LET new   == [j \in 1..n |-> made + j]
        kept  == IF batch = "uploading" THEN items ELSE <<>>
        fresh == [i \in Items |->
                    IF i \in Ids(new) THEN [Blank EXCEPT !.local = TRUE]
                    ELSE IF i \in Ids(kept) THEN row[i] ELSE Blank]
    IN  /\ made + n <= Cardinality(Uploads) /\ made + n + tracked <= MaxRows
        /\ made' = made + n
        /\ Commit(PumpUpload([Now EXCEPT !.items = kept \o new, !.row = fresh,
                                         !.batch = "uploading"]))
        /\ UNCHANGED <<tries, bulk, tracked>>

\* trackHlsReprocessFiles, and trackActiveHlsEncodeJobs or
\* restoreFromActiveBackgroundJobs, which know a rebuild by its job's label: a
\* new row for a file no row is uploading, though older rows may have ended.
Track(i, reproc) ==
    LET kept == IF batch = "none" THEN <<>> ELSE items
    IN  /\ server[FileOf[i]] = "stored" /\ made + tracked < MaxRows
        /\ \A j \in Ids(items) : FileOf[j] = FileOf[i] /\ row[j].fileId
                                   => row[j].st \in Terminal
        /\ i \notin Ids(items) \cup strays \cup resuming
        /\ worker[i] = "idle" /\ resumer[i] = "none"
        /\ Commit(PumpProcessing(
             [Now EXCEPT !.items = Append(kept, i), !.batch = "uploading",
                         !.aborted = @ \ {i},
                         !.row[i] = [Blank EXCEPT !.st = "uploading",
                                                  !.fileId = TRUE,
                                                  !.reproc = reproc]]))
        /\ tracked' = tracked + 1
        /\ UNCHANGED <<tries, bulk, made>>

\* dismissUploadBatch
DismissUploadBatch ==
    /\ batch = "complete"
    /\ batch' = "none" /\ items' = <<>> /\ row' = [i \in Items |-> Blank]
    /\ UNCHANGED <<pipe, userPaused, pump, worker, tries, phases, strays,
                   resumer, resuming, aborted, server, bulk, made, tracked>>

\* setUploadBatchPaused
SetUploadBatchPaused ==
    /\ CanPause
    /\ Commit(PumpUpload([Now EXCEPT !.userPaused = ~@]))
    /\ UNCHANGED <<tries, bulk, made, tracked>>

\* setUploadItemPaused: only resuming the row restarts the pump.
SetUploadItemPaused(i) ==
    /\ CanPause /\ i \in Ids(items) /\ row[i].st = "queued"
    /\ LET t == [Now EXCEPT !.row[i].paused = ~@]
       IN  Commit(IF row[i].paused THEN PumpUpload(t) ELSE t)
    /\ UNCHANGED <<tries, bulk, made, tracked>>

\* The transfers abortUploadSession finds in activeUploadSessions.
HasSession(t, i) == t.worker[i] \in {"bytes", "response", "registered"}

\* abortUploadSession: the transfer is rejected and its slots are dropped.  A
\* phases coroutine that is between two paints asks for the storing stage
\* before it looks at the flag.
AbortSession(t, i) ==
    IF ~HasSession(t, i) THEN t
    ELSE [t EXCEPT !.worker[i] = "idle", !.phases[i] = "none",
                   !.strays = IF t.phases[i] = "paint" THEN @ \cup {i} ELSE @,
                   !.pipe = ReleaseAll(@, i)]

\* Mutant: the row keeps its status until its poll ends.
CancelRebuild_KeepsStatus(t, i) ==
    [t EXCEPT !.aborted = @ \cup {i}, !.pipe = ReleaseAll(@, i), !.resuming = @ \ {i}]

\* The rebuild branch of cancelUploadItem, and what
\* cancelAllPendingHlsReprocess does to each of its rows.
CancelRebuild(t, i) ==
    [t EXCEPT !.aborted = @ \cup {i}, !.row[i].st = "cancelled",
              !.pipe = ReleaseAll(@, i), !.resuming = @ \ {i}]

\* cancelUploadItem for an upload.
CancelUpload(t, i) ==
    LET a == IF t.row[i].st = "uploading" THEN AbortSession(t, i) ELSE t
    IN  RemoveRow(DeleteServerFile(a, i), i)

\* Once the handler is over the rejected workers reach their finally.
AfterAbort(t, cancelled) ==
    IF \E i \in Ids(cancelled) : row[i].st = "uploading" /\ HasSession(Now, i)
    THEN AfterUpload(t) ELSE t

\* cancelUploadItem
CancelUploadItem(i) ==
    /\ batch = "uploading" /\ i \in Ids(items) /\ row[i].st # "done"
    /\ Commit(IF row[i].reproc
              THEN PumpProcessing(MaybeComplete(CancelRebuild(Now, i)))
              ELSE AfterAbort(CancelUpload(Now, i), <<i>>))
    /\ UNCHANGED <<tries, bulk, made, tracked>>

Pending(i) == row[i].st \in {"queued", "uploading"}

\* cancelAllUploadItems: at once, unless a rebuild is among the rows.
CancelAllUploadItems ==
    LET pending == Only(items, {i \in Items : Pending(i)})
    IN  /\ batch = "uploading" /\ pending # <<>>
        /\ \A i \in Ids(pending) : ~row[i].reproc
        /\ Commit(AfterAbort(Each(CancelUpload, Now, pending), pending))
        /\ UNCHANGED <<tries, bulk, made, tracked>>

\* cancelAllUploadItems with a rebuild among the rows, or
\* cancelAllPendingHlsReprocess from the details dialog: the server is asked
\* first.
CancelAllRebuilds(rows) ==
    /\ bulk = "none"
    /\ rows = "all" => /\ batch = "uploading"
                       /\ \E i \in Ids(items) : row[i].reproc /\ Pending(i)
    /\ bulk' = rows
    /\ UNCHANGED <<pipe, items, batch, row, userPaused, pump, worker, tries,
                   phases, strays, resumer, resuming, aborted, server, made, tracked>>

\* The server has answered.  The rebuilds are marked if it agreed, and
\* cancelAllUploadItems then cancels the other rows whatever it said.
CancelAllAnswered(ok) ==
    LET rebuilds == Only(items, {i \in Items : row[i].reproc /\ Pending(i)})
        others   == Only(items, {i \in Items : ~row[i].reproc /\ Pending(i)})
        marked   == MaybeComplete(Each(CancelRebuild, Now, rebuilds))
        t        == IF ok THEN marked ELSE Now
    IN  /\ bulk # "none" /\ bulk' = "none"
        /\ Commit(IF bulk = "rebuilds" \/ t.batch # "uploading" THEN t
                  ELSE AfterAbort(Each(CancelUpload, t, others), others))
        /\ UNCHANGED <<tries, made, tracked>>

\* clearCancelledHlsReprocessItems
ClearCancelledRebuilds ==
    LET gone == {i \in Items : row[i].reproc /\ row[i].st = "cancelled"}
        left == Only(items, Items \ gone)
    IN  /\ batch # "none" /\ left # items
        /\ Commit(MaybeComplete(
             [Now EXCEPT !.items = left,
                         !.row = [i \in Items |-> IF i \in Ids(left) THEN row[i]
                                                  ELSE Blank],
                         !.batch = IF left = <<>> THEN "none" ELSE @]))
        /\ UNCHANGED <<tries, bulk, made, tracked>>

\* removeUploadBatchItem: a failed or cancelled row goes, and its file on the
\* server with it.
RemoveUploadBatchItem(i) ==
    /\ i \in Ids(items) /\ row[i].st \in {"error", "cancelled"}
    /\ Commit(RemoveRow(DeleteServerFile(Now, i), i))
    /\ UNCHANGED <<tries, bulk, made, tracked>>

\* Mutant: a row is queued again whatever its status.
CanRetry_AnyStatus(i) == i \in Ids(items) /\ row[i].local /\ ~row[i].reselect

CanRetry(i) ==
    /\ i \in Ids(items) /\ row[i].st \in {"error", "cancelled"}
    /\ row[i].local /\ ~row[i].reselect

\* retryUploadItem for the rows of R: one, or every failed one.
RetryRows(R) ==
    /\ R # {}
    /\ Commit(PumpUpload(
         [Now EXCEPT !.row = [i \in Items |->
                                IF i \in R THEN [row[i] EXCEPT !.st = "queued",
                                                               !.fileId = FALSE]
                                ELSE row[i]],
                     !.aborted = @ \ R, !.batch = "uploading"]))
    /\ UNCHANGED <<tries, bulk, made, tracked>>

RetryUploadItem(i) == CanRetry(i) /\ RetryRows({i})

RetryFailedUploadItems ==
    RetryRows({i \in Items : CanRetry(i) /\ row[i].st = "error"})

\* reattachUploadFile: the row is uploading again, and the pump that is asked
\* to run looks for queued rows.
ReattachUploadFile(i) ==
    /\ i \in Ids(items) /\ row[i].reselect /\ row[i].sess
    /\ Commit(PumpUpload(
         [Now EXCEPT !.row[i] = [@ EXCEPT !.local = TRUE, !.st = "uploading",
                                          !.reselect = FALSE],
                     !.batch = "uploading"]))
    /\ UNCHANGED <<tries, bulk, made, tracked>>

\* internalFromPersisted: neither the File nor isReprocess is stored.
FromPersisted(r) == [r EXCEPT !.local = FALSE, !.reproc = FALSE]

\* reconcileRestoredItems for one row.
Reconciled(r) ==
    LET p == FromPersisted(r)
    IN  CASE r.st = "queued" -> [p EXCEPT !.st = "cancelled"]
          [] r.st = "uploading" /\ ~r.fileId ->
               [p EXCEPT !.st = "error", !.reselect = @ \/ r.sess]
          [] OTHER -> p

\* The page is reloaded: restoreUploadBatchFromStorage finds what the last
\* emitBatch stored and every coroutine is gone.
Reload ==
    LET back(i) == IF batch = "complete" THEN FromPersisted(row[i])
                   ELSE Reconciled(row[i])
        t == [Now EXCEPT
               !.pipe = EmptyPipe, !.userPaused = FALSE, !.pump = FALSE,
               !.row = [i \in Items |-> IF i \in Ids(items) THEN back(i) ELSE Blank],
               !.worker = [i \in Items |-> "idle"],
               !.phases = [i \in Items |-> "none"],
               !.strays = {},
               !.resumer = [i \in Items |-> "none"],
               !.resuming = {}, !.aborted = {}]
    IN  /\ CanReload
        /\ Commit(IF batch = "uploading" THEN MaybeComplete(PumpProcessing(t)) ELSE t)
        /\ bulk' = "none"
        /\ UNCHANGED <<tries, made, tracked>>

-----------------------------------------------------------------------------
(* The upload worker.                                                      *)

\* The closure of pumpUploadQueue: claimNextQueued for each free slot.
PumpRun(slots) ==
    LET inFlight == Cardinality({i \in Ids(items) : row[i].st = "uploading" /\ row[i].local})
        queued   == Only(items, {i \in Items : row[i].st = "queued" /\ ~row[i].paused})
        free     == IF inFlight < slots THEN slots - inFlight ELSE 0
        k        == IF Len(queued) <= free THEN Len(queued) ELSE free
        claimed  == IF batch = "uploading" /\ ~userPaused
                    THEN {queued[j] : j \in 1..k} ELSE {}
    IN  /\ pump /\ pump' = FALSE
        /\ row' = [i \in Items |-> IF i \in claimed
                                   THEN [row[i] EXCEPT !.st = "uploading"] ELSE row[i]]
        /\ worker' = [i \in Items |-> IF i \in claimed THEN "wait" ELSE worker[i]]
        /\ tries' = [i \in Items |-> IF i \in claimed THEN 0 ELSE tries[i]]
        /\ UNCHANGED <<pipe, items, batch, userPaused, phases, strays, resumer,
                       resuming, aborted, server, bulk, made, tracked>>

\* The pause is over and uploadFileWithProgress opens its session.
StartTransfer(i) ==
    /\ worker[i] = "wait"
    /\ worker' = [worker EXCEPT ![i] = "bytes"]
    /\ UNCHANGED <<pipe, items, batch, row, userPaused, pump, tries, phases,
                   strays, resumer, resuming, aborted, server, bulk, made, tracked>>

\* onResumableSessionReady
SessionReady(i) ==
    /\ worker[i] = "bytes" /\ i \in Resumable \cap Ids(items) /\ ~row[i].sess
    /\ row' = [row EXCEPT ![i].sess = TRUE]
    /\ UNCHANGED <<pipe, items, batch, userPaused, pump, worker, tries, phases,
                   strays, resumer, resuming, aborted, server, bulk, made, tracked>>

\* emitPostUploadWaitPhase for a generic upload: the phases coroutine starts.
StartPhases(t, i) ==
    [t EXCEPT !.phases[i] = IF CanOccupy(t.pipe["processing"], i)
                            THEN "proc" ELSE "waitProc",
              !.pipe = AcquireStage(@, i, "processing", "phases")]

\* The worker is through: the row is done, or it stays for the ingest poll.
FinishUpload(t, i, awaitsIngest) ==
    LET over == [Release(t, i) EXCEPT !.worker[i] = "idle", !.phases[i] = "none"]
    IN  AfterUpload(IF awaitsIngest THEN over ELSE Mark(over, i, "done"))

\* startMultipartUpload: the last byte is on the wire.
BytesDone(i) ==
    LET t == ReleaseByteSlot([Now EXCEPT !.worker[i] = "response"], i)
    IN  /\ worker[i] = "bytes" /\ i \notin Resumable
        /\ Commit(IF i \in Generic THEN StartPhases(t, i)
                  ELSE [t EXCEPT !.pipe = AcquireStage(@, i, "processing", "display")])
        /\ UNCHANGED <<tries, bulk, made, tracked>>

\* The server stores the file before its answer is back, if it ever is.
ServerStores(i) ==
    /\ worker[i] = "response" \/ (worker[i] = "bytes" /\ i \in Resumable)
    /\ server[i] = "none" /\ server' = [server EXCEPT ![i] = "stored"]
    /\ UNCHANGED <<pipe, items, batch, row, userPaused, pump, worker, tries, phases,
                   strays, resumer, resuming, aborted, bulk, made, tracked>>

\* startMultipartUpload: the server has answered with the file.
RespondOk(i, awaitsIngest) ==
    LET t == Register(Now, i)
    IN  /\ worker[i] = "response" /\ (awaitsIngest => i \in Media)
        /\ Commit(IF i \in Generic THEN [t EXCEPT !.worker[i] = "registered"]
                  ELSE FinishUpload(t, i, awaitsIngest))
        /\ UNCHANGED <<tries, bulk, made, tracked>>

\* uploadFileWithProgressResumable: the session was completed, so that the
\* bytes, the file row and the end of a media upload come at once.
ResumableOk(i, awaitsIngest) ==
    LET t == ReleaseByteSlot(Now, i)
    IN  /\ worker[i] = "bytes" /\ i \in Resumable /\ (awaitsIngest => i \in Media)
        /\ Commit(IF i \in Generic
                  THEN [Register(StartPhases(t, i), i) EXCEPT !.worker[i] = "registered"]
                  ELSE FinishUpload(Register(t, i), i, awaitsIngest))
        /\ UNCHANGED <<tries, bulk, made, tracked>>

\* Whether the phases coroutine outlives an attempt that fails.  fail() opens
\* the response gate, so a coroutine in the processing stage goes on to the
\* next paint; one that waits for a stage has lost its resolver.
Outlives(ph) == ph \in {"proc", "paint"}

\* Mutant: the number of retries is not tested.
Fail_NoCap(i, retry) ==
    /\ worker[i] \in {"bytes", "response"} /\ retry
    /\ Commit([Mark(Release(Now, i), i, "uploading") EXCEPT !.worker[i] = "backoff"])
    /\ UNCHANGED <<tries, bulk, made, tracked>>

\* fail() and the catch of uploadClaimedItem.
Fail(i, retry) ==
    LET t == [Release(Now, i) EXCEPT !.phases[i] = "none",
                                     !.strays = IF Outlives(phases[i])
                                                THEN @ \cup {i} ELSE @]
    IN  /\ worker[i] \in {"bytes", "response"}
        /\ worker[i] = "bytes" \/ CanRefuse
        /\ retry => tries[i] < MaxRetries
        /\ Commit(IF retry
                  THEN [Mark(t, i, "uploading") EXCEPT !.worker[i] = "backoff"]
                  ELSE AfterUpload([Mark(t, i, "error") EXCEPT !.worker[i] = "idle"]))
        /\ UNCHANGED <<tries, bulk, made, tracked>>

\* The end of the wait before a retry: only a row that is still there with the
\* status "cancelled", or a batch that is gone, stops it.
RetryTransfer(i) ==
    /\ worker[i] = "backoff"
    /\ IF batch = "none" \/ (i \in Ids(items) /\ row[i].st = "cancelled")
       THEN /\ Commit(AfterUpload([Now EXCEPT !.worker[i] = "idle"]))
            /\ UNCHANGED <<tries, bulk, made, tracked>>
       ELSE /\ worker' = [worker EXCEPT ![i] = "wait"]
            /\ tries' = [tries EXCEPT ![i] = @ + 1]
            /\ UNCHANGED <<pipe, items, batch, row, userPaused, pump, phases,
                           strays, resumer, resuming, aborted, server, bulk, made, tracked>>

-----------------------------------------------------------------------------
(* runGenericPostUploadPhases                                              *)

\* The processing stage was granted.
PhaseEntered(i) ==
    /\ phases[i] = "waitProc" /\ <<i, "phases">> \in pipe["processing"].woken
    /\ Commit([Now EXCEPT !.phases[i] = "proc",
                          !.pipe = Resume(@, i, "processing", "phases")])
    /\ UNCHANGED <<tries, bulk, made, tracked>>

\* The beat is over, or the server has answered.
PhaseBeat(i) ==
    /\ phases[i] = "proc"
    /\ Commit([ShowProgress(Now, i, "processing") EXCEPT !.phases[i] = "paint"])
    /\ UNCHANGED <<tries, bulk, made, tracked>>

\* The next paint: on to the storing stage.
PhasePainted(i) ==
    /\ phases[i] = "paint"
    /\ Commit([Now EXCEPT !.phases[i] = IF CanOccupy(pipe["storing"], i)
                                        THEN "store" ELSE "waitStore",
                          !.pipe = AcquireStage(@, i, "storing", "phases")])
    /\ UNCHANGED <<tries, bulk, made, tracked>>

\* The storing stage was granted.
PhaseStoring(i) ==
    /\ phases[i] = "waitStore" /\ <<i, "phases">> \in pipe["storing"].woken
    /\ Commit([Now EXCEPT !.phases[i] = "store",
                          !.pipe = Resume(@, i, "storing", "phases")])
    /\ UNCHANGED <<tries, bulk, made, tracked>>

\* The gate is open, the last dwell is over and the worker returns.
PhaseFinished(i) ==
    /\ phases[i] = "store" /\ worker[i] = "registered"
    /\ Commit(FinishUpload(ShowProgress(Now, i, "storing"), i, FALSE))
    /\ UNCHANGED <<tries, bulk, made, tracked>>

\* The next paint of a coroutine whose attempt is over: it asks for the
\* storing stage, shows it and ends.
StrayPainted(i) ==
    /\ i \in strays
    /\ Commit([Now EXCEPT !.strays = @ \ {i},
                          !.pipe = AcquireStage(@, i, "storing", "display")])
    /\ UNCHANGED <<tries, bulk, made, tracked>>

-----------------------------------------------------------------------------
(* resumeUploadItemProcessing and waitForFileIngestCompletion              *)

\* The processing stage was granted.
ResumeEntered(i) ==
    /\ resumer[i] = "wait" /\ <<i, "resume">> \in pipe["processing"].woken
    /\ Commit([Now EXCEPT !.resumer[i] = "poll",
                          !.pipe = Resume(@, i, "processing", "resume")])
    /\ UNCHANGED <<tries, bulk, made, tracked>>

\* isCancelled of the poll loop.
PollCancelled(i) == i \in aborted \/ i \notin Ids(items)

\* A poll that is not the last: mapVideoIngestProgressUpdate names the stage.
PollProgress(i, s) ==
    /\ resumer[i] = "poll" /\ ~PollCancelled(i)
    /\ i \in Generic => s = "processing"
    /\ Commit(ShowProgress(Now, i, s))
    /\ UNCHANGED <<tries, bulk, made, tracked>>

\* The outcomes of the last poll.  The file may become ready although the row
\* was cancelled or the file deleted while the poll shows its progress;
\* hls_ready never becomes true for a file that is not a video.
PollResult(i) ==
    {"error"} \cup (IF i \in Generic THEN {} ELSE {"done", "cancelled"})
              \cup (IF PollCancelled(i) THEN {"cancelled"} ELSE {})

\* The poll loop is over, with the finally of the worker.
ResumeDone(i, result) ==
    LET t == [Mark(Now, i, result) EXCEPT !.resumer[i] = "none",
                                          !.resuming = @ \ {i}]
    IN  /\ resumer[i] = "poll" /\ result \in PollResult(i)
        /\ Commit(MaybeComplete(PumpProcessing(Release(t, i))))
        /\ UNCHANGED <<tries, bulk, made, tracked>>

-----------------------------------------------------------------------------
UserStep ==
    \/ \E n \in 1..Cardinality(Uploads) : StartUploadBatch(n)
    \/ \E i \in Rebuild, reproc \in BOOLEAN : Track(i, reproc)
    \/ DismissUploadBatch \/ SetUploadBatchPaused
    \/ \E i \in Items : SetUploadItemPaused(i)
    \/ \E i \in Items : CancelUploadItem(i)
    \/ CancelAllUploadItems \/ ClearCancelledRebuilds
    \/ \E rows \in {"all", "rebuilds"} : CancelAllRebuilds(rows)
    \/ \E i \in Items : RemoveUploadBatchItem(i)
    \/ \E i \in Items : RetryUploadItem(i)
    \/ RetryFailedUploadItems
    \/ \E i \in Items : ReattachUploadFile(i)
    \/ Reload

\* An end of the transfer's current request.
TransferStep(i) ==
    \/ BytesDone(i)
    \/ \E awaits \in BOOLEAN : RespondOk(i, awaits) \/ ResumableOk(i, awaits)
    \/ \E retry \in BOOLEAN : Fail(i, retry)

PhaseStep(i) ==
    PhaseEntered(i) \/ PhaseBeat(i) \/ PhasePainted(i) \/ PhaseStoring(i) \/ PhaseFinished(i)

Next ==
    \/ UserStep
    \/ \E ok \in BOOLEAN : CancelAllAnswered(ok)
    \/ \E slots \in 1..FileSlots : PumpRun(slots)
    \/ \E i \in Items :
         \/ StartTransfer(i) \/ SessionReady(i) \/ ServerStores(i)
         \/ TransferStep(i) \/ RetryTransfer(i)
         \/ PhaseStep(i)
         \/ StrayPainted(i)
         \/ ResumeEntered(i)
         \/ \E s \in Stages : PollProgress(i, s)
         \/ \E r \in Terminal : ResumeDone(i, r)

Spec == Init /\ [][Next]_vars

\* The browser runs timers and scheduled closures, and a request ends with an
\* answer or an error.  Nothing is promised about the user.
FairSpec ==
    /\ Spec
    /\ WF_vars(\E slots \in 1..FileSlots : PumpRun(slots))
    /\ \A i \in Items : /\ WF_vars(StartTransfer(i))
                         /\ []<>(worker[i] # "bytes")
                         /\ []<>(worker[i] # "backoff")

-----------------------------------------------------------------------------
Row == [st : {"queued", "uploading"} \cup Terminal, local : BOOLEAN,
        fileId : BOOLEAN, sess : BOOLEAN, reselect : BOOLEAN, paused : BOOLEAN,
        reproc : BOOLEAN]

\* Every variable has the shape the code gives it.
TypeOK ==
    /\ PipeTypeOK
    /\ items \in Seq(Items) /\ batch \in {"none", "uploading", "complete"}
    /\ row \in [Items -> Row]
    /\ userPaused \in BOOLEAN /\ pump \in BOOLEAN
    /\ worker \in [Items -> {"idle", "wait", "bytes", "response", "registered", "backoff"}]
    /\ tries \in [Items -> 0..MaxRetries]
    /\ phases \in [Items -> {"none", "waitProc", "proc", "paint", "waitStore", "store"}]
    /\ strays \in SUBSET Items
    /\ resumer \in [Items -> {"none", "wait", "poll"}]
    /\ resuming \in SUBSET Items /\ aborted \in SUBSET Items
    /\ server \in [Items -> {"none", "stored", "deleted"}]
    /\ bulk \in {"none", "all", "rebuilds"} /\ made \in 0..Cardinality(Uploads) /\ tracked \in 0..MaxRows

\* claimNextQueued: "parallel workers never double-start a file".  A row that
\* waits to be claimed has its bytes at hand and no worker left from before.
NoDoubleStart ==
    \A i \in Ids(items) : row[i].st = "queued" => worker[i] = "idle" /\ row[i].local

\* A batch that says it is complete has no row left to settle, whatever
\* worker, poll or handler ended last.
CompleteIsSettled ==
    batch = "complete" => \A i \in Ids(items) : row[i].st \in Terminal

\* The tray asks the server about at most PIPELINE_STAGE_LIMIT rows of its
\* own accord, and a row that is polled is a row past its bytes.
PollersBounded ==
    /\ Cardinality(resuming) <= StageLimit
    /\ \A i \in resuming \cap Ids(items) : row[i].st # "queued" /\ row[i].fileId

\* A row is polled by one coroutine at a time, although a cancel forgets in
\* resumingItemIds a poll that is still on its way.
PolledOnce ==
    [][\A i \in Items : i \in resuming' \ resuming => resumer[i] = "none"]_vars

\* A row that is uploading with its File at hand but with no worker: the state
\* reattachUploadFile leaves behind.
Orphaned(i) == i \in Ids(items) /\ row[i].st = "uploading" /\ row[i].local /\ worker[i] = "idle"

\* The row claimNextQueued takes next.
IsQueueHead(i) ==
    \E j \in DOMAIN items :
        /\ items[j] = i /\ row[i].st = "queued" /\ ~row[i].paused
        /\ \A k \in 1..(j - 1) : row[items[k]].st # "queued" \/ row[items[k]].paused

\* The next row is claimed at last, unless the batch is paused, the user holds
\* it back, takes it away or retries an older one, or a reattached row keeps
\* the byte slot for good.
QueueHeadIsClaimed ==
    \A i \in Uploads :
        IsQueueHead(i) ~> ~IsQueueHead(i) \/ userPaused \/ \E j \in Items : Orphaned(j)

\* "isReprocess rows cancel rebuild only (restore package), never delete the
\* file": the tray never deletes a video it was only asked to rebuild.
RebuildKeepsFile == \A i \in Rebuild : FileOf[i] = i => server[i] # "deleted"

\* "Drop all pipeline slots for a finished, cancelled, or errored row": a slot
\* belongs to a row that is uploading or to one with a coroutine left to run.
NoLeakedSlot ==
    \A s \in Stages : \A i \in pipe[s].slots :
        Live(Now, i) \/ worker[i] # "idle" \/ resumer[i] # "none" \/ i \in strays
=============================================================================
