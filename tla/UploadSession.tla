--------------------------- MODULE UploadSession ---------------------------
(***************************************************************************)
(* Resumable uploads of one user: the upload_sessions and                  *)
(* upload_session_parts rows, staging and final objects, the quota         *)
(* reservation, content-hash dedup, the janitor's expiry sweep and the     *)
(* permanent delete of a file (src/backend/src/uploads,                    *)
(* files/upload_finalize.rs, quota.rs, temp_cleanup.rs, file_delete.rs).   *)
(*                                                                         *)
(* A task is one request handler.  Each SQL write and each object-store    *)
(* call is one atomic step; between two of them other tasks run, and a     *)
(* task may vanish (its client disconnects and the handler future is       *)
(* dropped, or the process stops).  Successive reads of one handler are    *)
(* joined where reading them apart adds no outcome.                        *)
(*                                                                         *)
(* A session stands for its id, its pre-assigned file_id and its storage   *)
(* key.  Every part has size 1.  This is the staged, non-video path.       *)
(***************************************************************************)
EXTENDS Integers, FiniteSets

CONSTANTS
    Sessions,     \* sessions that may be created
    Parts,        \* part numbers of every session
    Tasks,        \* request handlers that may be in flight at the same time
    Content,      \* SHA-256 of the bytes of a session's file
    Hashed,       \* sessions created with a client content_hash
    NoRow,        \* no files row
    Quota,        \* the owner's effective quota, in parts
    SessionCap,   \* MAX_ACTIVE_SESSIONS_PER_USER
    MaxMints,     \* bound: signed part URLs minted
    CanAbort,     \* environment: sessions are aborted or expire
    CanFail,      \* environment: object-store calls and enqueue_job fail
    CanPurge      \* environment: files are deleted permanently

ASSUME UploadSessionAssumption ==
    /\ IsFiniteSet(Sessions) /\ Sessions # {} /\ NoRow \notin Sessions
    /\ IsFiniteSet(Parts) /\ Parts # {}
    /\ Hashed \subseteq Sessions
    /\ Quota \in Nat /\ SessionCap \in Nat /\ MaxMints \in Nat
    /\ {CanAbort, CanFail, CanPurge} \subseteq BOOLEAN

VARIABLES
    sstat,     \* upload_sessions.status; "absent" before the INSERT
    reserved,  \* upload_sessions.quota_reserved_bytes > 0
    expired,   \* upload_sessions.expires_at < now()
    bytes,     \* upload_sessions.bytes_received
    part,      \* upload_session_parts: no row, size 0, or the part's size
    token,     \* upload_session_parts.signed_token; 0 is NULL
    minted,    \* the last confirm token minted
    urls,      \* (session, part) pairs a PUT URL has been signed for
    staged,    \* objects under upload-staging/{session}/
    blob,      \* final objects, by storage key
    row,       \* files.storage_key of a session's file_id
    task,      \* the handlers
    sweeping,  \* sessions the janitor has expired and not yet cleaned up
    refused,   \* history: sessions finalize refused although they fitted
    deleted    \* history: sessions whose files row was purged

sessions == <<sstat, reserved, bytes>>
parts    == <<part, token, minted, urls>>
objects  == <<staged, blob>>
hist     == <<refused, deleted>>
vars     == <<sessions, expired, parts, objects, row, task, sweeping, hist>>

Size     == Cardinality(Parts)
Statuses == {"absent", "active", "completing", "complete", "aborted"}
InFlight == {"active", "completing"}

Pcs == {"idle", "create", "insert", "sign", "token", "consume", "stage",
        "record", "upgrade", "newpart", "list", "mark", "used", "reserved",
        "known", "put", "find", "drop", "link", "insertfile", "enqueue",
        "clean", "place", "complete", "revert", "cleanup", "delrow", "refcheck", "purge"}

\* The steps of complete_session between mark_completing and its last UPDATE.
FinalizePcs == {"used", "reserved", "known", "put", "find", "drop", "link",
                "insertfile", "enqueue", "clean", "place", "complete", "revert"}

\* A handler: where it is, the session, part and storage key it works on,
\* the number and token it has read, whether it takes the instant-dedup path,
\* and whether the session row it loaded held a reservation.
TaskType ==
    [pc : Pcs, s : Sessions, p : Parts, key : Sessions, val : Nat, tok : Nat,
     inst : BOOLEAN, own : BOOLEAN]

Idle == [pc |-> "idle", s |-> CHOOSE s \in Sessions : TRUE,
         p |-> CHOOSE p \in Parts : TRUE, key |-> CHOOSE s \in Sessions : TRUE,
         val |-> 0, tok |-> 0, inst |-> FALSE, own |-> FALSE]

At(t, pc)     == task[t].pc = pc
Become(t, r)  == task' = [task EXCEPT ![t] = r]
Goto(t, pc)   == Become(t, [task[t] EXCEPT !.pc = pc])
End(t)        == Become(t, Idle)
Finalizing(t) == task[t].pc \in FinalizePcs

-----------------------------------------------------------------------------
(* quota.rs.                                                               *)

load_user_used_bytes == Size * Cardinality({s \in Sessions : row[s] # NoRow})

\* Sessions whose reservation counts.
Reserving == {s \in Sessions : sstat[s] \in InFlight /\ reserved[s]}

load_user_reserved_bytes == Size * Cardinality(Reserving)

\* Whether a file still fits beside `used` and `res` bytes.
Fits(used, res) == used + res + Size <= Quota

\* saturating_sub of the reservation the loaded session row held.
ReservedExcluding(own) ==
    IF own /\ load_user_reserved_bytes >= Size
    THEN load_user_reserved_bytes - Size
    ELSE load_user_reserved_bytes

-----------------------------------------------------------------------------
(* content_hash.rs                                                         *)

\* Mutant: rows that do not exist any more are found too.
find_dedup_source_All(s) == {row[f] : f \in {g \in Sessions : Content[g] = Content[s]}}

\* Storage keys of library rows with the bytes of s (any of several matches).
find_dedup_source(s) ==
    {row[f] : f \in {g \in Sessions : row[g] # NoRow /\ Content[g] = Content[s]}}

storage_key_still_referenced(k) == \E f \in Sessions : row[f] = k

-----------------------------------------------------------------------------
(* create_session                                                          *)

\* Count the sessions in flight, then read the used bytes.
CreateBegin(t, s) ==
    /\ At(t, "idle")
    /\ sstat[s] = "absent"
    /\ \A u \in Tasks : task[u].pc \in {"create", "insert"} => task[u].s # s
    /\ Cardinality({r \in Sessions : sstat[r] \in InFlight}) < SessionCap
    /\ Become(t, [Idle EXCEPT !.pc = "create", !.s = s,
                                        !.val = load_user_used_bytes])
    /\ UNCHANGED <<sessions, expired, parts, objects, row, hist>>

\* Read the reserved bytes: over quota the request is rejected.
CreateQuota(t) ==
    /\ At(t, "create")
    /\ IF Fits(task[t].val, load_user_reserved_bytes)
       THEN Goto(t, "insert")
       ELSE End(t)
    /\ UNCHANGED <<sessions, expired, parts, objects, row, hist>>

insert_session(t) ==
    /\ At(t, "insert")
    /\ sstat'    = [sstat EXCEPT ![task[t].s] = "active"]
    /\ reserved' = [reserved EXCEPT ![task[t].s] = TRUE]
    /\ End(t)
    /\ UNCHANGED <<expired, bytes, parts, objects, row, hist>>

\* ensure_session_active, the guard of every handler that adds to a session.
ensure_session_active(s) == sstat[s] = "active" /\ ~expired[s]

-----------------------------------------------------------------------------
(* signed_part_url, the browser's PUT, confirm_part                        *)

SignBegin(t, s, p) ==
    /\ At(t, "idle") /\ minted < MaxMints
    /\ ensure_session_active(s)
    /\ Become(t, [Idle EXCEPT !.pc = "sign", !.s = s, !.p = p,
                          !.val = load_user_used_bytes, !.own = reserved[s]])
    /\ UNCHANGED <<sessions, expired, parts, objects, row, hist>>

\* The quota check leaves out the reservation of the session itself.
SignQuota(t) ==
    /\ At(t, "sign")
    /\ IF Fits(task[t].val, ReservedExcluding(task[t].own))
       THEN Goto(t, "token")
       ELSE End(t)
    /\ UNCHANGED <<sessions, expired, parts, objects, row, hist>>

\* Mint the URL and store a new token, in a size-0 row when there is none.
set_part_signed_token(t) ==
    LET s == task[t].s
        p == task[t].p
    IN /\ At(t, "token")
       /\ minted' = minted + 1
       /\ token'  = [token EXCEPT ![s][p] = minted + 1]
       /\ part'   = [part EXCEPT ![s][p] = IF @ = "none" THEN "placeholder" ELSE @]
       /\ urls'   = urls \cup {<<s, p>>}
       /\ End(t)
       /\ UNCHANGED <<sessions, expired, objects, row, hist>>

\* The browser uses a signed URL; the object store knows no session status.
DirectPut(s, p) ==
    /\ <<s, p>> \in urls
    /\ staged' = [staged EXCEPT ![s] = @ \cup {p}]
    /\ UNCHANGED <<sessions, expired, parts, blob, row, task, hist>>

\* The session is active, the token matches and HEAD finds the staged object.
ConfirmBegin(t, s, p) ==
    /\ At(t, "idle")
    /\ ensure_session_active(s)
    /\ token[s][p] # 0
    /\ p \in staged[s]
    /\ Become(t, [Idle EXCEPT !.pc = "consume", !.s = s, !.p = p,
                                        !.tok = token[s][p]])
    /\ UNCHANGED <<sessions, expired, parts, objects, row, hist>>

\* Mutant: a cleared token is as good as a matching one.
consume_part_signed_token_Any(t) ==
    /\ At(t, "consume")
    /\ token' = [token EXCEPT ![task[t].s][task[t].p] = 0]
    /\ Goto(t, "record")
    /\ UNCHANGED <<sessions, expired, part, minted, urls, objects, row, hist>>

\* Clear the token; the confirm that loses the race records nothing.
consume_part_signed_token(t) ==
    LET s == task[t].s
        p == task[t].p
    IN /\ At(t, "consume")
       /\ IF token[s][p] = task[t].tok
          THEN token' = [token EXCEPT ![s][p] = 0] /\ Goto(t, "record")
          ELSE UNCHANGED token /\ End(t)
       /\ UNCHANGED <<sessions, expired, part, minted, urls, objects, row, hist>>

-----------------------------------------------------------------------------
(* upload_part and record_part_with_checksum                               *)

UploadPartBegin(t, s, p) ==
    /\ At(t, "idle")
    /\ ensure_session_active(s)
    /\ Become(t, [Idle EXCEPT !.pc = "stage", !.s = s, !.p = p])
    /\ UNCHANGED <<sessions, expired, parts, objects, row, hist>>

StagePart(t) ==
    /\ At(t, "stage")
    /\ \/ /\ staged' = [staged EXCEPT ![task[t].s] = @ \cup {task[t].p}]
          /\ Goto(t, "record")
       \/ CanFail /\ UNCHANGED staged /\ End(t)
    /\ UNCHANGED <<sessions, expired, parts, blob, row, hist>>

\* SELECT the part row: upgrade a size-0 row, keep a recorded one, else INSERT.
RecordSelect(t) ==
    LET found == part[task[t].s][task[t].p]
    IN /\ At(t, "record")
       /\ \/ found = "placeholder" /\ Goto(t, "upgrade")
          \/ found = "recorded" /\ End(t)
          \/ found = "none" /\ Goto(t, "newpart")
       /\ UNCHANGED <<sessions, expired, parts, objects, row, hist>>

SetRecorded(t) ==
    /\ part'  = [part EXCEPT ![task[t].s][task[t].p] = "recorded"]
    /\ bytes' = [bytes EXCEPT ![task[t].s] = @ + 1]

\* Mutant: the row is upgraded and bytes_received is left for later.
RecordUpgrade_NoBytes(t) ==
    /\ At(t, "upgrade")
    /\ part' = [part EXCEPT ![task[t].s][task[t].p] = "recorded"]
    /\ End(t)
    /\ UNCHANGED <<sessions, expired, token, minted, urls, objects, row, hist>>

\* UPDATE the size, add to bytes_received and commit.
RecordUpgrade(t) ==
    /\ At(t, "upgrade")
    /\ SetRecorded(t)
    /\ End(t)
    /\ UNCHANGED <<sstat, reserved, expired, token, minted, urls, objects, row, hist>>

\* Mutant: a row that appeared since the SELECT is no conflict.
RecordInsert_NoKey(t) ==
    /\ At(t, "newpart")
    /\ SetRecorded(t)
    /\ End(t)
    /\ UNCHANGED <<sstat, reserved, expired, token, minted, urls, objects, row, hist>>

\* INSERT and commit; the primary key refuses a row that has appeared since.
RecordInsert(t) ==
    /\ At(t, "newpart")
    /\ IF part[task[t].s][task[t].p] = "none"
       THEN SetRecorded(t)
       ELSE UNCHANGED <<part, bytes>>
    /\ End(t)
    /\ UNCHANGED <<sstat, reserved, expired, token, minted, urls, objects, row, hist>>

-----------------------------------------------------------------------------
(* complete_session and finalize_staged_upload                             *)

\* Load the session row, and with it bytes_received.
CompleteBegin(t, s) ==
    /\ At(t, "idle")
    /\ ensure_session_active(s)
    /\ Become(t, [Idle EXCEPT !.pc = "list", !.s = s, !.val = bytes[s]])
    /\ UNCHANGED <<sessions, expired, parts, objects, row, hist>>

\* Mutant: a total that is not exceeded will do.
PartsComplete_AtMost(t) == task[t].val <= Size

\* received.len() counts rows of any size, placeholders too.
PartsComplete(t) ==
    /\ \A p \in Parts : part[task[t].s][p] # "none"
    /\ task[t].val = Size

InstantSource(s) == s \in Hashed /\ find_dedup_source(s) # {}

\* List the part rows and look for an instant dedup source.
CompleteList(t) ==
    LET s == task[t].s
    IN /\ At(t, "list")
       /\ IF InstantSource(s) \/ PartsComplete(t)
          THEN Become(t, [task[t] EXCEPT !.pc = "mark", !.inst = InstantSource(s)])
          ELSE End(t)
       /\ UNCHANGED <<sessions, expired, parts, objects, row, hist>>

\* Mutant: the guard on the status is missing.
mark_completing_NoGuard(t) ==
    /\ At(t, "mark")
    /\ sstat' = [sstat EXCEPT ![task[t].s] = "completing"]
    /\ Goto(t, "used")
    /\ UNCHANGED <<reserved, expired, bytes, parts, objects, row, hist>>

\* UPDATE ... WHERE status = 'active'; otherwise the request is a conflict.
mark_completing(t) ==
    LET s == task[t].s
    IN /\ At(t, "mark")
       /\ IF sstat[s] = "active"
          THEN sstat' = [sstat EXCEPT ![s] = "completing"] /\ Goto(t, "used")
          ELSE UNCHANGED sstat /\ End(t)
       /\ UNCHANGED <<reserved, expired, bytes, parts, objects, row, hist>>

FinalizeUsed(t) ==
    /\ At(t, "used")
    /\ Become(t, [task[t] EXCEPT !.pc = "reserved", !.val = load_user_used_bytes])
    /\ UNCHANGED <<sessions, expired, parts, objects, row, hist>>

\* What s itself may use: the quota less the rows and reservations of others.
FitsBesideOthers(s) ==
    Size * (Cardinality({f \in Sessions \ {s} : row[f] # NoRow})
            + Cardinality(Reserving \ {s}) + 1) <= Quota

\* ensure_within_quota: the session's own reservation is part of the sum.
FinalizeQuota(t) ==
    LET s  == task[t].s
        ok == Fits(task[t].val, load_user_reserved_bytes)
    IN /\ At(t, "reserved")
       /\ Goto(t, IF ~ok THEN "revert"
                  ELSE IF task[t].inst \/ s \in Hashed THEN "known"
                  ELSE "put")
       /\ refused' = IF ~ok /\ FitsBesideOthers(s) THEN refused \cup {s} ELSE refused
       /\ UNCHANGED <<sessions, expired, parts, objects, row, deleted>>

\* Dedup on the client's hash, before any object is read.
FinalizeKnownHash(t) ==
    LET sources == find_dedup_source(task[t].s)
    IN /\ At(t, "known")
       /\ \/ \E k \in sources :
                Become(t, [task[t] EXCEPT !.pc = "link", !.key = k])
          \/ sources = {} /\ task[t].inst /\ Goto(t, "revert")
          \/ sources = {} /\ ~task[t].inst /\ Goto(t, "put")
       /\ UNCHANGED <<sessions, expired, parts, objects, row, hist>>

\* Assemble the staged parts into the final object; a missing part is an error.
hash_and_put_final(t) ==
    LET s == task[t].s
    IN /\ At(t, "put")
       /\ \/ staged[s] = Parts /\ blob' = blob \cup {s} /\ Goto(t, "find")
          \/ /\ staged[s] # Parts \/ CanFail
             /\ UNCHANGED blob
             /\ Goto(t, "revert")
       /\ UNCHANGED <<sessions, expired, parts, staged, row, hist>>

\* "Another concurrent upload finished the same bytes first."
FinalizeFind(t) ==
    LET sources == find_dedup_source(task[t].s)
    IN /\ At(t, "find")
       /\ \/ \E k \in sources :
                Become(t, [task[t] EXCEPT !.pc = "drop", !.key = k])
          \/ sources = {} /\ Goto(t, "insertfile")
       /\ UNCHANGED <<sessions, expired, parts, objects, row, hist>>

\* Mutant: the source's object is deleted.
FinalizeDrop_Source(t) ==
    /\ At(t, "drop")
    /\ blob' = blob \ {task[t].key}
    /\ Goto(t, "link")
    /\ UNCHANGED <<sessions, expired, parts, staged, row, hist>>

\* storage.delete(input.storage_key)
FinalizeDrop(t) ==
    /\ At(t, "drop")
    /\ blob' = blob \ {task[t].s}
    /\ Goto(t, "link")
    /\ UNCHANGED <<sessions, expired, parts, staged, row, hist>>

\* INSERT INTO files: the primary key refuses a second row of the file id.
InsertRow(t, k, next) ==
    LET s == task[t].s
    IN IF row[s] = NoRow
       THEN row' = [row EXCEPT ![s] = k] /\ Goto(t, next)
       ELSE UNCHANGED row /\ Goto(t, "revert")

\* The row shares the source's key; linking the placement may still fail.
insert_deduped_file(t) ==
    /\ At(t, "link")
    /\ \/ InsertRow(t, task[t].key, "clean")
       \/ CanFail /\ InsertRow(t, task[t].key, "revert")
    /\ UNCHANGED <<sessions, expired, parts, objects, hist>>

insert_non_video_file(t) ==
    /\ At(t, "insertfile")
    /\ InsertRow(t, task[t].s, "enqueue")
    /\ UNCHANGED <<sessions, expired, parts, objects, hist>>

\* enqueue_job after the INSERT: an error leaves the row behind.
EnqueueJobs(t) ==
    /\ At(t, "enqueue")
    /\ \/ Goto(t, "place")
       \/ CanFail /\ Goto(t, "revert")
    /\ UNCHANGED <<sessions, expired, parts, objects, row, hist>>

\* cleanup_staging_prefix; its own errors are ignored. A new object ("place")
\* is then linked to its placement, which may fail.
FinalizeClean(t) ==
    /\ task[t].pc \in {"clean", "place"}
    /\ \/ staged' = [staged EXCEPT ![task[t].s] = {}]
       \/ CanFail /\ UNCHANGED staged
    /\ \/ Goto(t, "complete")
       \/ CanFail /\ At(t, "place") /\ Goto(t, "revert")
    /\ UNCHANGED <<sessions, expired, parts, blob, row, hist>>

\* Mutant: the reservation is kept.
mark_complete_Keep(t) ==
    /\ At(t, "complete")
    /\ sstat' = [sstat EXCEPT ![task[t].s] = "complete"]
    /\ End(t)
    /\ UNCHANGED <<reserved, expired, bytes, parts, objects, row, hist>>

\* UPDATE ... WHERE id: whatever the status is now.
mark_complete(t) ==
    /\ At(t, "complete")
    /\ sstat'    = [sstat EXCEPT ![task[t].s] = "complete"]
    /\ reserved' = [reserved EXCEPT ![task[t].s] = FALSE]
    /\ End(t)
    /\ UNCHANGED <<expired, bytes, parts, objects, row, hist>>

\* Mutant: an error is treated like success.
RevertActive_Complete(t) ==
    /\ At(t, "revert")
    /\ sstat'    = [sstat EXCEPT ![task[t].s] = "complete"]
    /\ reserved' = [reserved EXCEPT ![task[t].s] = FALSE]
    /\ End(t)
    /\ UNCHANGED <<expired, bytes, parts, objects, row, hist>>

\* The error path: UPDATE ... SET status = 'active' WHERE id, with no guard.
RevertActive(t) ==
    /\ At(t, "revert")
    /\ sstat' = [sstat EXCEPT ![task[t].s] = "active"]
    /\ End(t)
    /\ UNCHANGED <<reserved, expired, bytes, parts, objects, row, hist>>

-----------------------------------------------------------------------------
(* abort_session and the janitor's sweep                                   *)

\* status = 'aborted', quota_reserved_bytes = 0 for every session of S.
AbortRows(S) ==
    /\ sstat'    = [s \in Sessions |-> IF s \in S THEN "aborted" ELSE sstat[s]]
    /\ reserved' = [s \in Sessions |-> IF s \in S THEN FALSE ELSE reserved[s]]
    /\ UNCHANGED <<expired, bytes, parts, objects, row, hist>>

mark_aborted(t, s) ==
    /\ CanAbort /\ At(t, "idle")
    /\ sstat[s] \in InFlight
    /\ AbortRows({s})
    /\ Become(t, [Idle EXCEPT !.pc = "cleanup", !.s = s])

CleanStaging(s) ==
    /\ \/ staged' = [staged EXCEPT ![s] = {}]
       \/ CanFail /\ UNCHANGED staged
    /\ UNCHANGED <<sessions, expired, parts, blob, row, hist>>

\* Best effort: an error of the object store is ignored.
cleanup_staging_prefix(t) ==
    /\ At(t, "cleanup")
    /\ CleanStaging(task[t].s)
    /\ End(t)

\* Mutant: only active rows are swept.
Overdue_ActiveOnly == {s \in Sessions : expired[s] /\ sstat[s] = "active"}

\* The sweep's first alternative: expires_at < now().
Overdue == {s \in Sessions : expired[s] /\ sstat[s] \in InFlight}

\* One UPDATE aborts every overdue row and every active row that has been idle
\* for SESSION_IDLE_HOURS (any of the active ones).
expire_stale_upload_sessions ==
    /\ CanAbort /\ sweeping = {}
    /\ \E idle \in SUBSET {s \in Sessions : sstat[s] = "active"} :
          /\ idle \cup Overdue # {}
          /\ AbortRows(idle \cup Overdue)
          /\ sweeping' = idle \cup Overdue
    /\ UNCHANGED task

\* The loop over the expired sessions.
SweepClean ==
    \E s \in sweeping :
        /\ CleanStaging(s)
        /\ sweeping' = sweeping \ {s}
        /\ UNCHANGED task

-----------------------------------------------------------------------------
(* delete_owned_file_row                                                   *)

\* SELECT the storage key of the row.
PurgeBegin(t, f) ==
    /\ CanPurge /\ At(t, "idle")
    /\ row[f] # NoRow
    /\ Become(t, [Idle EXCEPT !.pc = "delrow", !.s = f, !.key = row[f]])
    /\ UNCHANGED <<sessions, expired, parts, objects, row, hist>>

PurgeRow(t) ==
    /\ At(t, "delrow")
    /\ row'     = [row EXCEPT ![task[t].s] = NoRow]
    /\ deleted' = deleted \cup {task[t].s}
    /\ Goto(t, "refcheck")
    /\ UNCHANGED <<sessions, expired, parts, objects, refused>>

PurgeRefCheck(t) ==
    /\ At(t, "refcheck")
    /\ IF storage_key_still_referenced(task[t].key) THEN End(t) ELSE Goto(t, "purge")
    /\ UNCHANGED <<sessions, expired, parts, objects, row, hist>>

purge_storage_keys(t) ==
    /\ At(t, "purge")
    /\ blob' = blob \ {task[t].key}
    /\ End(t)
    /\ UNCHANGED <<sessions, expired, parts, staged, row, hist>>

-----------------------------------------------------------------------------
(* The environment                                                         *)

\* A handler's future is dropped at an await, or its process stops.
Vanish(t) ==
    /\ ~At(t, "idle")
    /\ End(t)
    /\ UNCHANGED <<sessions, expired, parts, objects, row, hist>>

\* The process stops in the middle of a sweep.
SweepVanish ==
    /\ sweeping # {}
    /\ sweeping' = {}
    /\ UNCHANGED <<sessions, expired, parts, objects, row, task, hist>>

\* SESSION_TTL_HOURS pass.
PassDeadline(s) ==
    /\ CanAbort
    /\ sstat[s] # "absent" /\ ~expired[s]
    /\ expired' = [expired EXCEPT ![s] = TRUE]
    /\ UNCHANGED <<sessions, parts, objects, row, task, hist>>

Init ==
    /\ sstat    = [s \in Sessions |-> "absent"]
    /\ reserved = [s \in Sessions |-> FALSE]
    /\ expired  = [s \in Sessions |-> FALSE]
    /\ bytes    = [s \in Sessions |-> 0]
    /\ part     = [s \in Sessions |-> [p \in Parts |-> "none"]]
    /\ token    = [s \in Sessions |-> [p \in Parts |-> 0]]
    /\ minted   = 0
    /\ urls     = {}
    /\ staged   = [s \in Sessions |-> {}]
    /\ blob     = {}
    /\ row      = [s \in Sessions |-> NoRow]
    /\ task     = [t \in Tasks |-> Idle]
    /\ sweeping = {}
    /\ refused  = {}
    /\ deleted  = {}

\* The rest of a handler that has begun.
Continue(t) ==
    \/ CreateQuota(t) \/ insert_session(t)
    \/ SignQuota(t) \/ set_part_signed_token(t) \/ consume_part_signed_token(t)
    \/ StagePart(t) \/ RecordSelect(t) \/ RecordUpgrade(t) \/ RecordInsert(t)
    \/ CompleteList(t) \/ mark_completing(t) \/ FinalizeUsed(t) \/ FinalizeQuota(t)
    \/ FinalizeKnownHash(t) \/ hash_and_put_final(t) \/ FinalizeFind(t)
    \/ FinalizeDrop(t) \/ insert_deduped_file(t) \/ insert_non_video_file(t)
    \/ EnqueueJobs(t) \/ FinalizeClean(t) \/ mark_complete(t) \/ RevertActive(t)
    \/ cleanup_staging_prefix(t)
    \/ PurgeRow(t) \/ PurgeRefCheck(t) \/ purge_storage_keys(t)

Begin(t, s) ==
    \/ CreateBegin(t, s) \/ CompleteBegin(t, s)
    \/ mark_aborted(t, s) \/ PurgeBegin(t, s)

BeginPart(t, s, p) ==
    SignBegin(t, s, p) \/ ConfirmBegin(t, s, p) \/ UploadPartBegin(t, s, p)

Handler(t) ==
    \/ Continue(t) \/ Vanish(t)
    \/ \E s \in Sessions : Begin(t, s)
    \/ \E s \in Sessions, p \in Parts : BeginPart(t, s, p)

Next ==
    \/ /\ \/ \E t \in Tasks : Handler(t)
          \/ \E s \in Sessions, p \in Parts : DirectPut(s, p)
          \/ \E s \in Sessions : PassDeadline(s)
       /\ UNCHANGED sweeping
    \/ expire_stale_upload_sessions
    \/ SweepClean
    \/ SweepVanish

Spec == Init /\ [][Next]_vars

\* Handlers that are not dropped run on, time passes, and the janitor sweeps
\* for as long as the server runs.
Fairness ==
    /\ \A t \in Tasks : WF_vars(Continue(t) /\ UNCHANGED sweeping)
    /\ \A s \in Sessions : WF_vars(PassDeadline(s) /\ UNCHANGED sweeping)
    /\ WF_vars(expire_stale_upload_sessions)
    /\ WF_vars(SweepClean)

FairSpec == Spec /\ Fairness

-----------------------------------------------------------------------------
(* Properties                                                              *)

Recorded(s) == {p \in Parts : part[s][p] = "recorded"}

\* The rows, the objects and the requests in flight have the types the
\* handlers give them; a files row names a session's storage key or nothing.
TypeOK ==
    /\ sstat    \in [Sessions -> Statuses]
    /\ reserved \in [Sessions -> BOOLEAN]
    /\ expired  \in [Sessions -> BOOLEAN]
    /\ bytes    \in [Sessions -> Nat]
    /\ part     \in [Sessions -> [Parts -> {"none", "placeholder", "recorded"}]]
    /\ token    \in [Sessions -> [Parts -> Nat]]
    /\ minted   \in Nat
    /\ urls     \subseteq Sessions \X Parts
    /\ staged   \in [Sessions -> SUBSET Parts]
    /\ blob     \subseteq Sessions
    /\ row      \in [Sessions -> Sessions \cup {NoRow}]
    /\ task     \in [Tasks -> TaskType]
    /\ sweeping \subseteq Sessions
    /\ refused  \subseteq Sessions
    /\ deleted  \subseteq Sessions

\* At most one complete_session is past mark_completing for a session, through
\* aborts, failures, retries and dropped handlers: two would both assemble and
\* delete the same storage key.  The status alone must keep others out.
FinalizeExclusive ==
    \A t \in Tasks : Finalizing(t) =>
        /\ sstat[task[t].s] \in {"completing", "aborted"}
        /\ \A u \in Tasks \ {t} : Finalizing(u) => task[u].s # task[t].s

\* A session that has ended holds no quota, whichever of mark_complete,
\* mark_aborted and the sweep ended it and whatever raced with it.
ReservationReleased ==
    \A s \in Sessions : sstat[s] \in {"complete", "aborted"} => ~reserved[s]

\* A session reported complete has its files row, unless the file has been
\* deleted since.
CompletedHasFile ==
    \A s \in Sessions : sstat[s] = "complete" => row[s] # NoRow \/ s \in deleted

\* bytes_received never falls behind the recorded parts, so a session whose
\* parts are all recorded is never reported short of bytes.
BytesCoverParts ==
    \A s \in Sessions : bytes[s] >= Cardinality(Recorded(s))

\* bytes_received is the size of the recorded parts (record_part is described
\* as idempotent and atomic); complete_session refuses any other total.
BytesMatchParts ==
    \A s \in Sessions : bytes[s] = Cardinality(Recorded(s))

\* A confirm token lets one confirm_part record its part.
ConfirmTokenSingleUse ==
    \A t, u \in Tasks :
        /\ t # u
        /\ task[t].pc \in {"record", "upgrade", "newpart"}
        /\ task[u].pc \in {"record", "upgrade", "newpart"}
        /\ task[t].tok # 0
        => task[u].tok # task[t].tok

\* A file assembled from its session's own parts has all of them recorded.
FileBytesReceived ==
    \A s \in Sessions : row[s] = s => Recorded(s) = Parts

\* Every files row points at an object that exists: concurrent uploads of the
\* same bytes and their dedup, retries and deletes never lose the last copy.
FileHasBlob ==
    \A s \in Sessions : row[s] # NoRow => row[s] \in blob

\* Finalize refuses no session that fits beside the files and reservations of
\* the others.
FinalizeHonest == refused = {}

\* Every session ends and stays ended: handlers dropped in the middle of
\* complete_session and error paths that set the session active again after an
\* abort leave nothing in flight for ever.
EverySessionSettles ==
    \A s \in Sessions : <>[](sstat[s] \notin InFlight)
=============================================================================
