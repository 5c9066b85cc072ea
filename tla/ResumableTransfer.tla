-------------------------- MODULE ResumableTransfer --------------------------
(***************************************************************************)
(* The transfer of one large file: the part loop of the web client         *)
(* (src/frontend/src/lib/resumable-upload.ts), the attempts that           *)
(* uploadClaimedItem and uploadFileWithProgressResumable make of it, and   *)
(* the /uploads handlers of the server that answer it, over a network that *)
(* loses requests, loses answers and delivers requests late.               *)
(*                                                                         *)
(* Part rows, tokens and staged objects are kept per server session.  A    *)
(* handler of the server is one step, except confirm_part, whose token is  *)
(* checked and used in two; UploadSession has the finer interleavings of   *)
(* the handlers, quota and dedup, and UploadManager the tray around this.  *)
(***************************************************************************)
EXTENDS Integers, FiniteSets, FiniteSetsExt

CONSTANTS
    NumParts,   \* total_parts of the file
    Hashed,     \* whether the file is hashed before its session is created
    MaxRunners, \* ADAPTIVE_PART_CONCURRENCY_MAX
    MaxRetries, \* UPLOAD_MAX_RETRIES
    MaxManual,  \* bound: how often the user retries the row
    MaxFaults   \* bound: refusals, network errors, dead hops, expiries, cancels

ASSUME TransferAssumption ==
    /\ NumParts \in Nat \ {0} /\ Hashed \in BOOLEAN /\ MaxRunners \in Nat \ {0}
    /\ MaxRetries \in Nat /\ MaxManual \in Nat /\ MaxFaults \in Nat

Parts    == 0..(NumParts - 1)
Attempts == 1..((MaxManual + 1) * (MaxRetries + 1))
None     == 0   \* null, where a session or a token may be

VARIABLES
    link,     \* what the deployment offers a part: "proxy", "cross", "direct"
    row,      \* the tray's row: "queued", "uploading", "error", "done", "gone"
    rowSess,  \* item.resumableServerSessionId
    claimed,  \* claimed.resumableServerSessionId
    worker,   \* uploadClaimedItem: "idle", in an "attempt", in its "backoff"
    tries,    \* its retryAttempt
    manual,   \* how often the user has retried
    cur,      \* the last attempt
    att,      \* the attempts: where each is, and its session
    work,     \* for each attempt the parts and the request each waits for
    srv,      \* upload_sessions and upload_session_parts
    staged,   \* <<session, part>>: the staged objects
    stored,   \* for each registered file the parts it was assembled from
    late,     \* requests the client gave up that may still arrive
    faults

client == <<row, rowSess, claimed, worker, tries, manual, cur, att, work>>
server == <<srv, staged, stored>>
vars   == <<link, client, server, late, faults>>

\* The id of a session and a confirm token are those of the attempt that asked
\* for them: an attempt creates one session at most and signs a part once.
Waiting == {"sign", "put", "confirm", "checked", "proxy"}

TypeOK ==
    /\ link \in {"proxy", "cross", "direct"}
    /\ row \in {"queued", "uploading", "error", "done", "gone"}
    /\ worker \in {"idle", "attempt", "backoff"}
    /\ rowSess \in {None} \cup Attempts /\ claimed \in {None} \cup Attempts
    /\ tries \in 0..MaxRetries /\ manual \in 0..MaxManual
    /\ cur \in {None} \cup Attempts /\ faults \in 0..MaxFaults
    /\ att \in [Attempts -> [at : {"none", "session", "parts", "complete", "over"},
                             s : {None} \cup Attempts]]
    /\ work \in [Attempts -> [Parts -> Waiting \cup {"todo", "have", "ok", "dead"}]]
    /\ srv \in [Attempts -> [st : {"none", "active", "complete", "aborted"},
                             part : [Parts -> {"none", "placeholder", "recorded"}],
                             tok : [Parts -> {None} \cup Attempts]]]
    /\ staged \subseteq Attempts \X Parts
    /\ stored \in [Attempts -> SUBSET Parts]
    /\ late \subseteq [kind : {"create", "sign", "put", "confirm", "proxy",
                               "complete", "abort"},
                       a : Attempts, s : Attempts, p : Parts]

Init ==
    /\ link \in {"proxy", "cross", "direct"}
    /\ row = "queued" /\ rowSess = None /\ claimed = None /\ worker = "idle"
    /\ tries = 0 /\ manual = 0 /\ cur = None
    /\ att = [a \in Attempts |-> [at |-> "none", s |-> None]]
    /\ work = [a \in Attempts |-> [p \in Parts |-> "todo"]]
    /\ srv = [s \in Attempts |-> [st |-> "none", part |-> [p \in Parts |-> "none"],
                                  tok |-> [p \in Parts |-> None]]]
    /\ staged = {} /\ stored = [s \in Attempts |-> {}]
    /\ late = {} /\ faults = 0

-----------------------------------------------------------------------------
(* The server's handlers, as what they do to t = [srv, staged, stored].  A *)
(* handler that refuses leaves t alone.                                    *)

Now == [srv |-> srv, staged |-> staged, stored |-> stored]

Serve(t) == \E u \in {t} : srv' = u.srv /\ staged' = u.staged /\ stored' = u.stored

\* ensure_session_active
Active(t, s) == t.srv[s].st = "active"

\* create_session, for the attempt a
create_session(t, a) == [t EXCEPT !.srv[a].st = "active"]

\* list_received_parts: every row counts, the placeholders of a mint too.
list_received_parts(t, s) == {p \in Parts : t.srv[s].part[p] # "none"}

\* signed_part_url with set_part_signed_token
signed_part_url(t, s, p, a) ==
    IF ~Active(t, s) THEN t
    ELSE LET b == t.srv[s].part[p]
         IN  [t EXCEPT !.srv[s] = [@ EXCEPT !.tok[p] = a,
                !.part[p] = IF b = "none" THEN "placeholder" ELSE b]]

\* The object store takes a PUT to a signed URL whatever became of the session.
StoragePut(t, s, p) == [t EXCEPT !.staged = @ \cup {<<s, p>>}]

\* Mutant: the staged object is not asked for.
ConfirmMatches_NoHead(t, s, p, a) == Active(t, s) /\ t.srv[s].tok[p] = a

\* The checks of confirm_part: part_signed_token_matches, then object_size.
ConfirmMatches(t, s, p, a) ==
    Active(t, s) /\ t.srv[s].tok[p] = a /\ <<s, p>> \in t.staged

\* consume_part_signed_token, and record_part_with_checksum if it matched
consume_part(t, s, p, a) ==
    IF t.srv[s].tok[p] # a THEN t
    ELSE [t EXCEPT !.srv[s] = [@ EXCEPT !.tok[p] = None, !.part[p] = "recorded"]]

\* upload_part: stage, then record
upload_part(t, s, p) ==
    IF ~Active(t, s) THEN t
    ELSE [StoragePut(t, s, p) EXCEPT !.srv[s].part[p] = "recorded"]

\* find_dedup_source: the user's library has the bytes of this file.
Instant(t, s) == Hashed /\ \E c \in Attempts \ {s} : t.srv[c].st = "complete"

StagedParts(t, s) == {p \in Parts : <<s, p>> \in t.staged}

\* Mutant: the part rows are counted and assembled as they come.
CanComplete_Count(t, s) ==
    Active(t, s) /\ (Instant(t, s) \/ list_received_parts(t, s) = Parts)

\* complete_session succeeds: all bytes are received and finalize_staged_upload
\* finds every staged part, or another file has them.
CanComplete(t, s) ==
    /\ Active(t, s)
    /\ \/ Instant(t, s)
       \/ (\A p \in Parts : t.srv[s].part[p] = "recorded") /\ StagedParts(t, s) = Parts

\* cleanup_staging_prefix
Cleaned(t, s) == [t EXCEPT !.staged = {o \in @ : o[1] # s}]

complete_session(t, s) ==
    IF ~CanComplete(t, s) THEN t
    ELSE [Cleaned(t, s) EXCEPT
            !.srv[s].st = "complete",
            !.stored[s] = IF Instant(t, s) THEN Parts ELSE StagedParts(t, s)]

\* abort_session, and the janitor's expire_stale_upload_sessions
abort_session(t, s) ==
    IF ~Active(t, s) THEN t ELSE [Cleaned(t, s) EXCEPT !.srv[s].st = "aborted"]

\* A request the client no longer waits for reaches the server.
LateArrives ==
    \E r \in late :
      /\ late' = late \ {r}
      /\ Serve(CASE r.kind = "create"   -> create_session(Now, r.a)
                 [] r.kind = "sign"     -> signed_part_url(Now, r.s, r.p, r.a)
                 [] r.kind = "put"      -> StoragePut(Now, r.s, r.p)
                 [] r.kind = "confirm"  -> IF ConfirmMatches(Now, r.s, r.p, r.a)
                                           THEN consume_part(Now, r.s, r.p, r.a) ELSE Now
                 [] r.kind = "proxy"    -> upload_part(Now, r.s, r.p)
                 [] r.kind = "complete" -> complete_session(Now, r.s)
                 [] r.kind = "abort"    -> abort_session(Now, r.s))
      /\ UNCHANGED <<link, client, faults>>

\* The janitor ends an overdue session under the client's hands.
Expire(s) ==
    /\ faults < MaxFaults /\ Active(Now, s)
    /\ faults' = faults + 1
    /\ Serve(abort_session(Now, s))
    /\ UNCHANGED <<link, client, late>>

-----------------------------------------------------------------------------
(* The client.                                                             *)

Fault == faults < MaxFaults /\ faults' = faults + 1

\* uploadClaimedItem calls uploadFileWithProgress: the next attempt, with the
\* session id s of the row as it was claimed.
BeginAttempt(s) ==
    /\ cur' = cur + 1
    /\ att' = [att EXCEPT ![cur + 1] = [at |-> "session", s |-> s]]
    /\ worker' = "attempt"

\* claimNextQueued
Claim ==
    /\ row = "queued" /\ worker = "idle"
    /\ row' = "uploading" /\ claimed' = rowSess /\ tries' = 0
    /\ BeginAttempt(rowSess)
    /\ UNCHANGED <<link, rowSess, manual, work, server, late, faults>>

\* The catch of uploadClaimedItem, for an attempt that ends with an error.
Fails(a, retryable) ==
    /\ att' = [att EXCEPT ![a].at = "over"]
    /\ IF retryable /\ tries < MaxRetries
       THEN worker' = "backoff" /\ tries' = tries + 1 /\ UNCHANGED row
       ELSE /\ worker' = "idle" /\ UNCHANGED tries
            /\ row' = IF row = "uploading" THEN "error" ELSE row

\* The backoff is over: the attempt is repeated with the row as it was claimed,
\* unless the row went and the batch, with no other row in it, went too.
Retry ==
    /\ worker = "backoff"
    /\ \/ BeginAttempt(claimed)
       \/ row = "gone" /\ worker' = "idle" /\ UNCHANGED <<cur, att>>
    /\ UNCHANGED <<link, row, rowSess, claimed, tries, manual, work, server, late, faults>>

\* The first request of a part: uploadPartDirect or uploadPartViaApi.
FirstRequest == IF link = "proxy" THEN "proxy" ELSE "sign"

\* mapWithConcurrency over the parts that are not in received, with k runners.
Started(received, k) ==
    LET missing == Parts \ received
    IN  [p \in Parts |-> IF p \in received THEN "have"
                         ELSE IF Cardinality({q \in missing : q < p}) < k
                              THEN FirstRequest ELSE "todo"]

\* ensureUploadSession and onSessionReady for attempt a: POST /uploads, or GET
\* of the session it was given, whatever that session's status is.
SessionReady(a) ==
    LET s == IF att[a].s = None THEN a ELSE att[a].s
        t == IF att[a].s = None THEN create_session(Now, a) ELSE Now
        received == list_received_parts(t, s)
    IN  /\ att[a].at = "session"
        /\ Serve(t)
        /\ rowSess' = IF row = "uploading" THEN s ELSE rowSess
        /\ \E k \in 1..MaxRunners :
             IF (Instant(t, s) /\ att[a].s = None) \/ received = Parts
             THEN /\ att' = [att EXCEPT ![a].s = s, ![a].at = "complete"]
                  /\ work' = [work EXCEPT ![a] = Started(received, 0)]
             ELSE /\ att' = [att EXCEPT ![a].s = s, ![a].at = "parts"]
                  /\ work' = [work EXCEPT ![a] = Started(received, k)]
        /\ UNCHANGED <<link, row, claimed, worker, tries, manual, cur, late, faults>>

\* The session request is refused for good or for now, or its answer is lost.
SessionFails(a, outcome) ==
    /\ att[a].at = "session" /\ Fault
    /\ late' = IF outcome = "lost" /\ att[a].s = None
               THEN late \cup {[kind |-> "create", a |-> a, s |-> a, p |-> 0]} ELSE late
    /\ Fails(a, outcome # "refused")
    /\ UNCHANGED <<link, rowSess, claimed, manual, cur, work, server>>

-----------------------------------------------------------------------------
(* A runner of attempt a carries part p.  The runners of an attempt that    *)
(* has failed go on: Promise.all gives up waiting, it stops nothing.        *)

\* Mutant: the failed part is noted and nobody is told.
Rejected_Silent(a, p, retryable) ==
    /\ work' = [work EXCEPT ![a][p] = "dead"]
    /\ UNCHANGED <<att, worker, tries, row>>

\* worker(part) throws: its runner ends, and the attempt if it is not over yet.
Rejected(a, p, retryable) ==
    /\ work' = [work EXCEPT ![a][p] = "dead"]
    /\ IF att[a].at = "parts" THEN Fails(a, retryable)
       ELSE UNCHANGED <<att, worker, tries, row>>

\* worker(part) returns: its runner takes the next part; after the last one the
\* attempt posts complete.
Sent(a, p) ==
    LET done == [work[a] EXCEPT ![p] = "ok"]
        todo == {q \in Parts : done[q] = "todo"}
        next == IF todo = {} THEN done ELSE [done EXCEPT ![Min(todo)] = FirstRequest]
    IN  /\ work' = [work EXCEPT ![a] = next]
        /\ att' = IF att[a].at = "parts" /\ \A q \in Parts : next[q] \in {"ok", "have"}
                  THEN [att EXCEPT ![a].at = "complete"] ELSE att
        /\ UNCHANGED <<worker, tries, row>>

Moves(a, p, to) ==
    /\ work' = [work EXCEPT ![a][p] = to]
    /\ UNCHANGED <<att, worker, tries, row>>

PartFrame == UNCHANGED <<link, rowSess, claimed, manual, cur>>

\* The answer to signed-url: a refusal, or a URL of another origin, sends the
\* part through the API.
SignAnswered(a, p) ==
    /\ work[a][p] = "sign"
    /\ Serve(signed_part_url(Now, att[a].s, p, a))
    /\ Moves(a, p, IF Active(Now, att[a].s) /\ link = "direct" THEN "put" ELSE "proxy")
    /\ PartFrame /\ UNCHANGED <<late, faults>>

PutAnswered(a, p) ==
    /\ work[a][p] = "put"
    /\ Serve(StoragePut(Now, att[a].s, p))
    /\ Moves(a, p, "confirm")
    /\ PartFrame /\ UNCHANGED <<late, faults>>

\* A hop on the way answers 200 and the object store never sees the part.
PutSwallowed(a, p) ==
    /\ work[a][p] = "put" /\ Fault
    /\ Moves(a, p, "confirm")
    /\ PartFrame /\ UNCHANGED <<server, late>>

ConfirmChecked(a, p) ==
    /\ work[a][p] = "confirm"
    /\ Moves(a, p, IF ConfirmMatches(Now, att[a].s, p, a) THEN "checked" ELSE "proxy")
    /\ PartFrame /\ UNCHANGED <<server, late, faults>>

\* A token that was replaced since is no error as long as the part has a row,
\* which a part with a token always has.
ConfirmConsumed(a, p) ==
    /\ work[a][p] = "checked"
    /\ Serve(consume_part(Now, att[a].s, p, a))
    /\ Sent(a, p)
    /\ PartFrame /\ UNCHANGED <<late, faults>>

ProxyAnswered(a, p) ==
    /\ work[a][p] = "proxy"
    /\ Serve(upload_part(Now, att[a].s, p))
    /\ IF Active(Now, att[a].s) THEN Sent(a, p) ELSE Rejected(a, p, FALSE)
    /\ PartFrame /\ UNCHANGED <<late, faults>>

\* 429 or a storage error: the direct path falls back, the API path throws.
PartRefused(a, p) ==
    /\ work[a][p] \in {"sign", "confirm", "proxy"} /\ Fault
    /\ IF work[a][p] = "proxy" THEN Rejected(a, p, TRUE) ELSE Moves(a, p, "proxy")
    /\ PartFrame /\ UNCHANGED <<server, late>>

Kind(w) == IF w = "checked" THEN "confirm" ELSE w

LateOf(a, p) == [kind |-> Kind(work[a][p]), a |-> a, s |-> att[a].s, p |-> p]

\* fetch throws: only the PUT to the object store is inside a try.
PartLost(a, p) ==
    /\ work[a][p] \in Waiting /\ Fault
    /\ late' = late \cup {LateOf(a, p)}
    /\ IF work[a][p] = "put" THEN Moves(a, p, "proxy") ELSE Rejected(a, p, TRUE)
    /\ PartFrame /\ UNCHANGED server

-----------------------------------------------------------------------------
\* POST complete is answered.  A row that is gone keeps its fate.
CompleteAnswered(a) ==
    /\ att[a].at = "complete"
    /\ Serve(complete_session(Now, att[a].s))
    /\ IF CanComplete(Now, att[a].s)
       THEN /\ att' = [att EXCEPT ![a].at = "over"] /\ worker' = "idle"
            /\ row' = IF row = "uploading" THEN "done" ELSE row
            /\ UNCHANGED tries
       ELSE Fails(a, FALSE)
    /\ UNCHANGED <<link, rowSess, claimed, manual, cur, work, late, faults>>

\* finalize fails and the session is set active again, or the answer is lost.
CompleteFails(a, outcome) ==
    /\ att[a].at = "complete" /\ Fault
    /\ late' = IF outcome = "lost"
               THEN late \cup {[kind |-> "complete", a |-> a, s |-> att[a].s, p |-> 0]}
               ELSE late
    /\ Fails(a, TRUE)
    /\ UNCHANGED <<link, rowSess, claimed, manual, cur, work, server>>

-----------------------------------------------------------------------------
(* The user.                                                               *)

\* cancelUploadItem and abortUploadSession: the current attempt's requests are
\* dropped where they are, its session is asked to abort if it is known, and
\* the row goes.  A worker in its backoff is not in activeUploadSessions.
Cancel ==
    LET dropped == {LateOf(cur, p) : p \in {q \in Parts : work[cur][q] \in Waiting}}
        main    == CASE att[cur].at = "session" /\ att[cur].s = None -> "create"
                     [] att[cur].at = "complete" -> "complete"
                     [] OTHER -> "none"
        target  == IF att[cur].s = None THEN cur ELSE att[cur].s
        request(kind) == [kind |-> kind, a |-> cur, s |-> target, p |-> 0]
        aborted == [p \in Parts |-> IF work[cur][p] \in Waiting THEN "dead" ELSE work[cur][p]]
    IN  /\ row \in {"queued", "uploading"} /\ row' = "gone" /\ Fault
        /\ IF worker # "attempt" THEN UNCHANGED <<worker, att, work, late>>
           ELSE /\ worker' = "idle"
                /\ att' = [att EXCEPT ![cur].at = "over"]
                /\ work' = [work EXCEPT ![cur] = aborted]
                /\ late' = late \cup dropped
                             \cup {request(k) : k \in {main} \ {"none"}}
                             \cup {request("abort") : s \in {att[cur].s} \ {None}}
        /\ UNCHANGED <<link, rowSess, claimed, tries, manual, cur, server>>

\* retryUploadItem
RetryRow ==
    /\ row = "error" /\ worker = "idle" /\ manual < MaxManual
    /\ row' = "queued" /\ manual' = manual + 1
    /\ UNCHANGED <<link, rowSess, claimed, worker, tries, cur, att, work, server, late, faults>>

\* removeUploadBatchItem
RemoveRow ==
    /\ row = "error" /\ row' = "gone"
    /\ UNCHANGED <<link, rowSess, claimed, worker, tries, manual, cur, att, work,
                   server, late, faults>>

-----------------------------------------------------------------------------
\* What an attempt does when its requests are answered or fail.
Step(a) ==
    \/ SessionReady(a) \/ \E o \in {"refused", "busy", "lost"} : SessionFails(a, o)
    \/ CompleteAnswered(a) \/ \E o \in {"busy", "lost"} : CompleteFails(a, o)

PartStep(a, p) ==
    \/ SignAnswered(a, p) \/ PutAnswered(a, p) \/ PutSwallowed(a, p)
    \/ ConfirmChecked(a, p) \/ ConfirmConsumed(a, p) \/ ProxyAnswered(a, p)
    \/ PartRefused(a, p) \/ PartLost(a, p)

\* The browser: its pump, its timers, and the answers to its requests.
Browser == Claim \/ Retry \/ \E a \in Attempts : Step(a) \/ \E p \in Parts : PartStep(a, p)

Next ==
    \/ Browser \/ Cancel \/ RetryRow \/ RemoveRow \/ LateArrives
    \/ \E s \in Attempts : Expire(s)

Spec == Init /\ [][Next]_vars

\* As long as the page is open the pump, a timer or a request goes on: a request
\* is answered or fails.  Nothing is asked of the user, of late requests or of
\* the order in which the browser's requests end.
Fairness == WF_vars(Browser)

FairSpec == Spec /\ Fairness

-----------------------------------------------------------------------------
\* A part an attempt counts as uploaded is recorded and staged for as long as the
\* session is active, through swallowed PUTs, fallbacks and runners of earlier
\* attempts.  The one exception: a sign request that arrives between the check
\* and the use of the part's token leaves a placeholder with a newer token.
ReportedIsRecorded ==
    \A a \in Attempts, p \in Parts :
      LET s == att[a].s
      IN  work[a][p] = "ok" /\ srv[s].st = "active" =>
            /\ <<s, p>> \in staged
            /\ \/ srv[s].part[p] = "recorded"
               \/ srv[s].part[p] = "placeholder" /\ srv[s].tok[p] \notin {None, a}

\* A row shown as done has a file on the server, and every registered file, that
\* of a lost answer or a cancelled row too, was assembled from all of its parts.
DoneIsWhole ==
    /\ row = "done" => \E s \in Attempts : srv[s].st = "complete"
    /\ \A s \in Attempts : srv[s].st = "complete" => stored[s] = Parts

\* A row that is waiting or uploading ends: as done, as an error the user sees,
\* or gone.  No lost answer and no dead runner leaves it uploading for ever.
TransferSettles == row \in {"queued", "uploading"} ~> row \in {"error", "done", "gone"}

\* What src/backend/src/uploads/store.rs:133 and resumable-upload.ts:331 say of a
\* resumed session: the parts that are skipped are stored.
SkipsOnlyStored ==
    \A a \in Attempts, p \in Parts :
      work[a][p] = "have" /\ srv[att[a].s].st = "active"
        => srv[att[a].s].part[p] = "recorded"

\* What upload-manager.ts:197 says: a row's session is used again on retry, so
\* that a row has at most one session open.
RetryReusesSession == Cardinality({s \in Attempts : srv[s].st = "active"}) <= 1
=============================================================================
