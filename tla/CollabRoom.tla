----------------------------- MODULE CollabRoom -----------------------------
(***************************************************************************)
(* One live document room: the tabs that edit it (CollabClient of          *)
(* src/frontend/src/lib/collab/client.ts, useDocumentCollab.ts and the     *)
(* editor callbacks of RtfEditorDialog.tsx) and the backend replica that   *)
(* keeps its session in memory (backend/src/collab).                       *)
(*                                                                         *)
(* A text is a sequence of characters; what a user inserts is the id of    *)
(* the op that inserts it, so characters are told apart.  HTML is the text *)
(* it renders.  A server frame and an HTTP answer are sequences of items,  *)
(* one for each call of ingestOp or applySession or error its handler      *)
(* makes.  JavaScript runs a handler to completion, so "todo" holds the    *)
(* items left of the running handler and everything else waits for it.     *)
(***************************************************************************)
EXTENDS TextOT, FiniteSets

CONSTANTS
    Tabs,       \* open editors
    UserOf,     \* the user, or guest, each tab is signed in as
    Seed,       \* the document's text when the room was created
    MaxOps,     \* DEFAULT_MAX_OPS, the length of the op ring
    CasRetries, \* CAS_RETRIES
    Plans       \* bounds: the scenarios of an instance, each with the tabs
                \* that join "late" and the ones that have left ("away"; the
                \* others are connected), the tabs whose user moves the
                \* caret ("carets"), the ones that may close ("leaving"),
                \* what a key may do ("keys": how much it deletes and
                \* inserts), how many ops there are ("cids", text changes
                \* only among the first "edits"), bare caret moves ("beats")
                \* and lost sockets or requests ("faults")

ASSUME UserAssumption == UserOf \in [Tabs -> {UserOf[c] : c \in Tabs}]
ASSUME SeedAssumption == Seed \in Seq(Nat)
ASSUME PlanAssumption == \A p \in Plans : p.keys \subseteq Nat \X {0, 1}
ASSUME RingAssumption == MaxOps \in Nat \ {0} /\ CasRetries \in Nat \ {0}

VARIABLES
    session,  \* the room's CollabSession
    jobs,     \* requests and socket frames the backend is working on
    replies,  \* HTTP answers on their way back
    up, down, \* frames of each tab's socket, by direction
    conn,     \* "out", "joining" until start() is answered (for good if it fails),
              \* then the socket: "connecting", "open"; "closed" after stop()
    polling,  \* pollTimer is set
    latest,   \* latestSeq
    pending,  \* pendingOps
    dom,      \* the text in the editor
    refs,     \* lastHtmlRef and lastPlainRef of the hook
    lock,     \* lastLockRef
    peers,    \* locks of the participants the tab last heard of
    presence, \* pendingPresence
    timers,   \* armed among "fullSync" and "formatRetry"
    todo,     \* items left of the handler that is running
    seen,     \* history: seqs of the remote ops each editor was handed
    clash,    \* history: the tabs whose text went astray for a reason named below
    failed,   \* history: ids whose POST was reported as failed
    plan,     \* the scenario
    made, beats, faults

Users == {UserOf[c] : c \in Tabs}

serverVars == <<session, jobs, replies>>
wireVars   == <<up, down, conn, polling>>
seqVars    == <<latest, seen>>
editorVars == <<pending, dom, refs, lock, peers, presence, timers>>
bounds     == <<plan, made, beats, faults>>
vars == <<serverVars, wireVars, seqVars, editorVars, todo, clash, failed, bounds>>

Op(seq, user, cid, type, body) ==
    [seq |-> seq, user |-> user, cid |-> cid, type |-> type, body |-> body]

\* Mutant: next_seq is sent for latest_seq.
View_NextSeq(s) ==
    [latest |-> Len(s.log) + 1, text |-> s.text, html |-> s.html, locks |-> s.locks]

\* session_view
View(s) == [latest |-> Len(s.log), text |-> s.text, html |-> s.html, locks |-> s.locks]

OpItem(op, ack)   == [k |-> "op", op |-> op, ack |-> ack]
SessionItem(s)    == [k |-> "session", view |-> View(s)]
ErrorItem(e, cid) == [k |-> "error", code |-> e, cid |-> cid]

MkSession(log, text, html, locks, version) ==
    [log |-> log, text |-> text, html |-> html, locks |-> locks, version |-> version]

\* A job holds the copy of the session it read; a sync only the ops.
NoLocks   == [u \in Users |-> NoRange]
Copy(ops) == MkSession(ops, <<>>, <<>>, NoLocks, 0)

MkJob(c, via, req, at, ses, tries) ==
    [tab |-> c, via |-> via, req |-> req, at |-> at, ses |-> ses, tries |-> tries]

Job(c, via, req) == MkJob(c, via, req, "new", Copy(<<>>), 0)
Turned(j, at, ses, tries) == MkJob(j.tab, j.via, j.req, at, ses, tries)

\* An HTTP answer.
MkReply(c, req, ok, items) == [tab |-> c, req |-> req, ok |-> ok, items |-> items]

\* The lock a presence carries: a range, or no word of it; and no presence.
Keep       == [start |-> 1, end |-> 0]
NoPresence == [start |-> 2, end |-> 0]

Init ==
    /\ plan \in Plans
    /\ session = MkSession(<<>>, Seed, Seed, NoLocks, 1)
    /\ jobs = {} /\ replies = {}
    /\ up = [c \in Tabs |-> <<>>] /\ down = [c \in Tabs |-> <<>>]
    /\ conn = [c \in Tabs |-> CASE c \in plan.late -> "out"
                               [] c \in plan.away -> "closed"
                               [] OTHER -> "open"]
    /\ polling = [c \in Tabs |-> FALSE]
    /\ latest = [c \in Tabs |-> 0] /\ seen = [c \in Tabs |-> <<>>]
    /\ pending = [c \in Tabs |-> <<>>] /\ dom = [c \in Tabs |-> Seed]
    /\ refs = [c \in Tabs |-> [html |-> Seed, text |-> Seed]]
    /\ lock = [c \in Tabs |-> NoRange]
    /\ peers = [c \in Tabs |-> NoLocks]
    /\ presence = [c \in Tabs |-> NoPresence] /\ timers = [c \in Tabs |-> {}]
    /\ todo = <<>> /\ clash = {} /\ failed = {}
    /\ made = 0 /\ beats = 0 /\ faults = 0

-----------------------------------------------------------------------------
(* The session and what a submitted op does to it (engine.rs, document.rs) *)

\* ops_after: what the ring still holds behind a seq.
OpsAfter(s, base) ==
    LET kept == {n \in 1..Len(s.log) : n > Len(s.log) - MaxOps /\ n > base}
    IN  SubSeq(s.log, Len(s.log) - Cardinality(kept) + 1, Len(s.log))

Replaces(ops) ==
    LET texts == Kept(ops, {n \in DOMAIN ops : ops[n].type = "replace"})
    IN  [n \in DOMAIN texts |-> texts[n].body]

BlockedByOthers(locks, user, r) ==
    r.end > r.start /\ \E u \in DOMAIN locks \ {user} :
        locks[u].end > locks[u].start /\ RangesOverlap(r, locks[u])

\* Mutant: only the length is clamped.
Rebased_IndexFree(s, req) ==
    LET r == TransformReplaceThrough(req.body, Replaces(OpsAfter(s, req.base)))
    IN  Replace(r.index, Smaller(r.del, Len(s.text) - r.index), r.ins)

\* A replace through the ops its author had not seen, clamped to the text.
Rebased(s, req) ==
    LET r     == TransformReplaceThrough(req.body, Replaces(OpsAfter(s, req.base)))
        index == Smaller(r.index, Len(s.text))
    IN  Replace(index, Smaller(r.del, Len(s.text) - index), r.ins)

\* validate_and_transform, and the no-op check of apply.
Verdict(s, user, req) ==
    LET foreign == \E u \in Users \ {user} : s.locks[u].end > s.locks[u].start
        r       == Rebased(s, req)
        touched == [start |-> r.index, end |-> r.index + Larger(r.del, 1)]
    IN  CASE req.base > Len(s.log) -> "invalid"
          [] req.base <= Len(s.log) /\ req.type = "replace" ->
               IF IsNoop(req.body) THEN "invalid"
               ELSE IF BlockedByOthers(s.locks, user, touched) THEN "locked"
               ELSE IF IsNoop(r) THEN "invalid" ELSE "ok"
          [] req.base <= Len(s.log) /\ req.type = "format_commit" ->
               IF req.body.text # s.text THEN "text_mismatch"
               ELSE IF foreign THEN "locked" ELSE "ok"
          [] req.base <= Len(s.log) /\ req.type = "lock" ->
               IF req.body.end <= req.body.start THEN "invalid"
               ELSE IF BlockedByOthers(s.locks, user, req.body) THEN "locked" ELSE "ok"
          [] OTHER -> "ok"

\* apply, apply_lock_presence and transform_presence: what an op with the
\* given (rebased) body leaves of text, HTML and locks.
TextAfter(s, type, body) ==
    IF type = "replace" THEN ApplyReplace(s.text, body)
    ELSE IF type = "format_commit" THEN body.text ELSE s.text

LocksAfter(s, user, type, body) ==
    CASE type = "lock"    -> [s.locks EXCEPT ![user] = body]
      [] type = "unlock"  -> [s.locks EXCEPT ![user] = NoRange]
      [] type = "replace" -> [u \in Users |-> TransformRange(s.locks[u], body)]
      [] OTHER            -> s.locks

BodyOf(s, req) == IF req.type = "replace" THEN Rebased(s, req) ELSE req.body
HtmlAfter(s, type, body) == IF type = "format_commit" THEN body.html ELSE s.html

\* submit_op: the append to the log, and the version save_cas gives the copy.
Applied(s, user, req) ==
    LET body == BodyOf(s, req)
    IN  MkSession(Append(s.log, Op(Len(s.log) + 1, user, req.cid, req.type, body)),
                  TextAfter(s, req.type, body), HtmlAfter(s, req.type, body),
                  LocksAfter(s, user, req.type, body), s.version + 1)

\* heartbeat merges the presence it is sent, a lock range included, into the
\* participant; join adds the participant and seeds a text that is empty.
Beaten(s, user, lk) ==
    MkSession(s.log, s.text, s.html,
              IF lk = Keep THEN s.locks ELSE [s.locks EXCEPT ![user] = lk],
              s.version + 1)

Joined(s, user, seed) ==
    MkSession(s.log,
              IF s.text = <<>> THEN seed ELSE s.text,
              IF s.text = <<>> THEN seed ELSE s.html,
              [s.locks EXCEPT ![user] = NoRange],
              s.version + 1)

Outcome(j) ==
    LET u == UserOf[j.tab] IN
    IF j.req.kind = "heartbeat" THEN Beaten(j.ses, u, j.req.lock)
    ELSE IF j.req.kind = "join" THEN Joined(j.ses, u, j.req.seed)
    ELSE Applied(j.ses, u, j.req)

\* The tabs that a commit leads astray: the author of a change that was rebased
\* without ops the ring no longer holds; every tab, when a join has seeded an
\* emptied text again.
AstrayBySave(j) ==
    IF j.req.kind = "op"
    THEN {c \in {j.tab} : /\ j.req.type = "replace"
                          /\ Len(OpsAfter(j.ses, j.req.base)) # Len(j.ses.log) - j.req.base}
    ELSE {c \in Tabs : /\ j.req.kind = "join" /\ j.ses.text = <<>>
                       /\ j.req.seed # <<>>}
-----------------------------------------------------------------------------
(* Requests at the backend *)

Broadcast(frame) ==
    [c \in Tabs |-> IF conn[c] = "open" THEN Append(down[c], frame) ELSE down[c]]

Writes == {"op", "heartbeat", "join"}

\* The socket's recv task takes its next frame when it is done with the last.
Frame(c) == Job(c, "ws", Head(up[c]))
CanTake(c) == up[c] # <<>> /\ ~\E j \in jobs : j.tab = c /\ j.via = "ws"

\* store.get: a writer copies the session.
ReadFor(j, was) ==
    /\ todo = <<>> /\ j.at = "new" /\ j.req.kind \in Writes
    /\ jobs' = was \cup {Turned(j, "read", session, j.tries)}
    /\ UNCHANGED <<session, replies, down, conn, polling, seqVars, editorVars,
                   todo, clash, failed, bounds>>

TakeWrite(c) ==
    /\ CanTake(c) /\ ReadFor(Frame(c), jobs)
    /\ up' = [up EXCEPT ![c] = Tail(@)]

ReadSession(j) == ReadFor(j, jobs \ {j}) /\ UNCHANGED up

Reply(j, items) ==
    replies' = IF j.via = "http"
               THEN replies \cup {MkReply(j.tab, j.req, TRUE, items)}
               ELSE replies
Refuse(j, code) ==
    replies' = IF j.via = "http"
               THEN replies \cup {MkReply(j.tab, j.req, FALSE, <<ErrorItem(code, 0)>>)}
               ELSE replies

\* Mutant: the copy is written whatever was saved since it was read.
SaveSession_NoCas(j) ==
    /\ todo = <<>> /\ j.at = "read" /\ j.req.kind \in Writes
    /\ j.req.kind = "op" => Verdict(j.ses, UserOf[j.tab], j.req) = "ok"
    /\ session' = Outcome(j)
    /\ jobs' = (jobs \ {j}) \cup {Turned(j, "saved", Outcome(j), j.tries)}
    /\ UNCHANGED <<replies, wireVars, seqVars, editorVars, todo, clash, failed, bounds>>

\* save_cas: the copy replaces the session if the version is still the one
\* that was read; else the job starts over, at most CAS_RETRIES times.
SaveSession(j) ==
    /\ todo = <<>> /\ j.at = "read" /\ j.req.kind \in Writes
    /\ j.req.kind = "op" => Verdict(j.ses, UserOf[j.tab], j.req) = "ok"
    /\ \/ /\ session.version = j.ses.version
          /\ session' = Outcome(j)
          /\ jobs' = (jobs \ {j}) \cup {Turned(j, "saved", Outcome(j), j.tries)}
          /\ clash' = clash \cup AstrayBySave(j)
          /\ UNCHANGED replies
       \/ /\ session.version # j.ses.version /\ j.tries + 1 < CasRetries
          /\ jobs' = (jobs \ {j}) \cup {Turned(j, "new", Copy(<<>>), j.tries + 1)}
          /\ UNCHANGED <<session, clash, replies>>
       \/ /\ session.version # j.ses.version /\ j.tries + 1 = CasRetries
          /\ jobs' = jobs \ {j} /\ Refuse(j, "conflict")
          /\ UNCHANGED <<session, clash>>
    /\ UNCHANGED <<wireVars, seqVars, editorVars, todo, failed, bounds>>

\* An op the domain refuses.  Over a socket a foreign lock and a text mismatch
\* are told to everyone in the room; the frame for any other error names no
\* op and changes nothing where it arrives, so it is left out.  A change that is
\* told to the room is dropped from its author's queue, and stays in the editor.
RefuseOp(j) ==
    LET v == Verdict(j.ses, UserOf[j.tab], j.req) IN
    /\ todo = <<>> /\ j.at = "read" /\ j.req.kind = "op" /\ v # "ok"
    /\ jobs' = jobs \ {j} /\ Refuse(j, v)
    /\ IF j.via # "http" /\ v # "invalid"
       THEN /\ down' = Broadcast(<<ErrorItem(v, j.req.cid)>>)
            /\ clash' = clash \cup {c \in {j.tab} : j.req.type = "replace"}
       ELSE UNCHANGED <<down, clash>>
    /\ UNCHANGED <<session, up, conn, polling, seqVars, editorVars, todo, failed, bounds>>

\* publish_op and publish_presence, then the answer to an HTTP request.  join
\* publishes nothing.
Publish(j) ==
    LET kind == j.req.kind
        op   == OpItem(Last(j.ses.log), FALSE)
    IN  /\ todo = <<>> /\ j.at = "saved"
        /\ jobs' = jobs \ {j}
        /\ down' = IF kind = "op" THEN Broadcast(<<op, SessionItem(j.ses)>>)
                   ELSE IF kind = "heartbeat" THEN Broadcast(<<SessionItem(j.ses)>>)
                   ELSE down
        /\ Reply(j, IF kind = "op" THEN <<OpItem(Last(j.ses.log), TRUE)>>
                    ELSE <<SessionItem(j.ses)>>)
        /\ UNCHANGED <<session, up, conn, polling, seqVars, editorVars,
                       todo, clash, failed, bounds>>

\* A sync frame reads the ops first and the session after them; the answer
\* goes to everyone in the room.
TakeSync(c) ==
    LET j == Frame(c) IN
    /\ todo = <<>> /\ CanTake(c) /\ j.req.kind = "sync"
    /\ jobs' = jobs \cup {Turned(j, "read", Copy(OpsAfter(session, j.req.after)), 0)}
    /\ up' = [up EXCEPT ![c] = Tail(@)]
    /\ UNCHANGED <<session, replies, down, conn, polling, seqVars, editorVars,
                   todo, clash, failed, bounds>>

OpItems(ops) == [n \in DOMAIN ops |-> OpItem(ops[n], FALSE)]

SyncSend(j) ==
    /\ todo = <<>> /\ j.at = "read" /\ j.req.kind = "sync"
    /\ jobs' = jobs \ {j}
    /\ down' = Broadcast(Append(OpItems(j.ses.log), SessionItem(session)))
    /\ UNCHANGED <<session, replies, up, conn, polling, seqVars, editorVars,
                   todo, clash, failed, bounds>>

\* GET .../ops and GET .../sessions/{id}.
AnswerGet(j) ==
    /\ todo = <<>> /\ j.at = "new" /\ j.req.kind \in {"ops", "session"}
    /\ jobs' = jobs \ {j}
    /\ Reply(j, IF j.req.kind = "ops" THEN OpItems(OpsAfter(session, j.req.after))
                ELSE <<SessionItem(session)>>)
    /\ UNCHANGED <<session, wireVars, seqVars, editorVars, todo, clash, failed, bounds>>
-----------------------------------------------------------------------------
(* A tab sends *)

Http(c, req) == Job(c, "http", req)
GetOps(c)    == Http(c, [kind |-> "ops", after |-> latest[c]])
Beat(lk)     == [kind |-> "heartbeat", lock |-> lk]
Asked(c, t)  == \E x \in jobs \cup replies : x.tab = c /\ x.req.kind = t

MkPending(cid, base, type, body, inFlight) ==
    [cid |-> cid, base |-> base, type |-> type, body |-> body, inFlight |-> inFlight]

OpFrame(p) == [kind |-> "op", type |-> p.type, cid |-> p.cid, base |-> p.base, body |-> p.body]

\* submitOp: over an open socket, else by POST; before the join postOpHttp
\* returns at once and the op stays marked as in flight.
Submitted(c, type, body) == MkPending(made + 1, latest[c], type, body, TRUE)

Sends(c, frames) ==
    /\ up' = IF conn[c] = "open" THEN [up EXCEPT ![c] = @ \o frames] ELSE up
    /\ jobs' = IF conn[c] = "connecting"
               THEN jobs \cup {Http(c, frames[n]) : n \in DOMAIN frames} ELSE jobs

SubmitOp(c, type, body) ==
    LET p == Submitted(c, type, body) IN
    /\ made < plan.cids /\ made' = made + 1
    /\ pending' = [pending EXCEPT ![c] = Append(@, p)]
    /\ Sends(c, <<OpFrame(p)>>)

\* The effect of useDocumentCollab: start() asks to join with the text and
\* HTML the editor shows.
Start(c) ==
    /\ todo = <<>> /\ conn[c] = "out"
    /\ conn' = [conn EXCEPT ![c] = "joining"]
    /\ jobs' = jobs \cup {Http(c, [kind |-> "join", seed |-> dom[c]])}
    /\ refs' = [refs EXCEPT ![c] = [html |-> dom[c], text |-> dom[c]]]
    /\ UNCHANGED <<session, replies, up, down, polling, seqVars, pending, dom, lock, peers,
                   presence, timers, todo, clash, failed, bounds>>

LivePayload(p) == p.type = "replace" /\ ~IsNoop(p.body)

\* The op with this id is in the log, at a seq up to n.
Logged(cid, n) == \E m \in DOMAIN session.log : m <= n /\ session.log[m].cid = cid

\* A change of the tab's own that its latestSeq does not cover.
Unconfirmed(c) ==
    \E n \in DOMAIN pending[c] :
        LivePayload(pending[c][n]) /\ ~Logged(pending[c][n].cid, latest[c])

\* A key changes the text, unless a peer's lock covers the place; the change
\* is published as the one replace diffPlainText finds and the full sync is due
\* 600 ms later.
\* What is typed on top of an unconfirmed change is sent with a base that lacks
\* it.
Edit(c) ==
    \E i \in 0..Len(dom[c]), key \in plan.keys :
        LET d  == key[1]
            op == Replace(i, d, SubSeq(<<made + 1>>, 1, key[2]))
        IN
        /\ todo = <<>> /\ conn[c] # "closed" /\ made < plan.edits
        /\ i + d <= Len(dom[c]) /\ ApplyReplace(dom[c], op) # dom[c]
        /\ ~BlockedByOthers(peers[c], UserOf[c], [start |-> i, end |-> i + 1])
        /\ dom' = [dom EXCEPT ![c] = ApplyReplace(@, op)]
        /\ SubmitOp(c, "replace", DiffPlainText(dom[c], dom'[c]))
        /\ timers' = [timers EXCEPT ![c] = @ \cup {"fullSync"}]
        /\ clash' = clash \cup {x \in {c} : Unconfirmed(c)}
        /\ UNCHANGED <<session, replies, down, conn, polling, seqVars, refs, lock,
                       peers, presence, todo, failed, plan, beats, faults>>

\* The fullSync timer: publishDocument with the editor's HTML and text.
FullSync(c) ==
    LET now == [html |-> dom[c], text |-> dom[c]] IN
    /\ todo = <<>> /\ conn[c] # "closed" /\ "fullSync" \in timers[c]
    /\ SubmitOp(c, "format_commit", now)
    /\ refs' = [refs EXCEPT ![c] = now]
    /\ timers' = [timers EXCEPT ![c] = @ \ {"fullSync"}]
    /\ UNCHANGED <<session, replies, down, conn, polling, seqVars, dom, lock, peers,
                   presence, todo, clash, failed, plan, beats, faults>>

\* scheduleFormatCommitRetry's timer: the payload is what the hook's refs hold.
FormatRetry(c) ==
    /\ todo = <<>> /\ conn[c] # "closed" /\ "formatRetry" \in timers[c]
    /\ SubmitOp(c, "format_commit", refs[c])
    /\ timers' = [timers EXCEPT ![c] = @ \ {"formatRetry"}]
    /\ UNCHANGED <<session, replies, down, conn, polling, seqVars, dom, refs, lock, peers,
                   presence, todo, clash, failed, plan, beats, faults>>

\* {...pendingPresence, ...presence}: a lock range stands until the next one.
Merged(c, lk) == IF lk = Keep /\ presence[c] # NoPresence THEN presence[c] ELSE lk

\* updatePresence after an op was submitted by the same handler or not.
Presents(c, lk, ops) ==
    LET open == conn[c] = "open" IN
        /\ up' = IF open THEN [up EXCEPT ![c] = @ \o ops \o <<Beat(Merged(c, lk))>>] ELSE up
        /\ jobs' = IF conn[c] = "connecting"
                   THEN jobs \cup {Http(c, ops[n]) : n \in DOMAIN ops} ELSE jobs
        /\ presence' = [presence EXCEPT ![c] = IF open THEN NoPresence ELSE Merged(c, lk)]

\* The caret moves: acquireSentenceLock asks for the sentence's lock when it
\* is not the last one asked for, by an op and by the presence it sends, and
\* sends the selection in any case.
MoveCaret(c) ==
    /\ todo = <<>> /\ conn[c] # "closed" /\ c \in plan.carets
    /\ \/ \E s \in 0..Len(dom[c]), e \in 0..Len(dom[c]) :
            LET r == [start |-> s, end |-> e]
                p == Submitted(c, "lock", r)
            IN  /\ s < e /\ r # lock[c] /\ made < plan.cids
                /\ lock' = [lock EXCEPT ![c] = r]
                /\ pending' = [pending EXCEPT ![c] = Append(@, p)]
                /\ Presents(c, r, <<OpFrame(p)>>)
                /\ made' = made + 1 /\ UNCHANGED beats
       \/ /\ beats < plan.beats /\ beats' = beats + 1
          /\ Presents(c, Keep, <<>>)
          /\ UNCHANGED <<lock, pending, made>>
    /\ UNCHANGED <<session, replies, down, conn, polling, seqVars, dom, refs, peers,
                   timers, todo, clash, failed, plan, faults>>

\* releaseLock, called by the effect's cleanup.
ReleaseLock(c) ==
    LET p == Submitted(c, "unlock", NoRange) IN
    /\ todo = <<>> /\ conn[c] # "closed" /\ c \in plan.carets /\ made < plan.cids
    /\ lock' = [lock EXCEPT ![c] = NoRange]
    /\ pending' = [pending EXCEPT ![c] = Append(@, p)]
    /\ Presents(c, NoRange, <<OpFrame(p)>>)
    /\ made' = made + 1
    /\ UNCHANGED <<session, replies, down, conn, polling, seqVars, dom, refs, peers,
                   timers, todo, clash, failed, plan, beats, faults>>

\* The 50 ms presence timer: flushPresenceHttp.
FlushPresence(c) ==
    /\ todo = <<>> /\ conn[c] \in {"connecting", "open"} /\ presence[c] # NoPresence
    /\ jobs' = jobs \cup {Http(c, Beat(presence[c]))}
    /\ presence' = [presence EXCEPT ![c] = NoPresence]
    /\ UNCHANGED <<session, replies, wireVars, seqVars, pending, dom, refs, lock, peers,
                   timers, todo, clash, failed, bounds>>
-----------------------------------------------------------------------------
(* A tab's socket and its fallback *)

\* Mutant: every pending op is sent again, in flight or not.
Open_ResendAll(c) ==
    LET again == [n \in DOMAIN pending[c] |-> [pending[c][n] EXCEPT !.base = latest[c]]]
    IN  /\ todo = <<>> /\ conn[c] = "connecting"
        /\ conn' = [conn EXCEPT ![c] = "open"] /\ polling' = [polling EXCEPT ![c] = FALSE]
        /\ pending' = [pending EXCEPT ![c] = again]
        /\ up' = [up EXCEPT ![c] = <<[kind |-> "sync", after |-> latest[c]]>>
                                     \o [n \in DOMAIN again |-> OpFrame(again[n])]]
        /\ UNCHANGED <<serverVars, down, seqVars, dom, refs, lock, peers, presence, timers,
                       todo, clash, failed, bounds>>

\* A pending op goes out again.
Raised(p, base) == MkPending(p.cid, base, p.type, p.body, TRUE)

\* onopen: the poll timer stops, a sync goes out and, behind it, every op
\* that is not in flight, with the base raised to latestSeq.
Open(c) ==
    LET raised == [n \in DOMAIN pending[c] |->
                     IF pending[c][n].inFlight THEN pending[c][n]
                     ELSE Raised(pending[c][n], latest[c])]
        again  == Kept(pending[c], {n \in DOMAIN pending[c] : ~pending[c][n].inFlight})
    IN  /\ todo = <<>> /\ conn[c] = "connecting"
        /\ conn' = [conn EXCEPT ![c] = "open"] /\ polling' = [polling EXCEPT ![c] = FALSE]
        /\ pending' = [pending EXCEPT ![c] = raised]
        /\ up' = [up EXCEPT ![c] = <<[kind |-> "sync", after |-> latest[c]]>>
                     \o [n \in DOMAIN again |-> OpFrame(Raised(again[n], latest[c]))]]
        /\ UNCHANGED <<serverVars, down, seqVars, dom, refs, lock, peers, presence, timers,
                       todo, clash, failed, bounds>>

\* A frame the backend has in work, or has received, outlives its socket; the
\* next socket has a recv task of its own.  Bound: of the frames that wait
\* behind it only the first may be received, and none behind one in work.
Orphan(j)  == MkJob(j.tab, "oldws", j.req, j.at, j.ses, j.tries)
Orphans(c) == {j \in jobs : j.tab = c /\ j.via = "ws"}
Received(c) == {Orphan(Frame(d)) : d \in {d \in {c} : CanTake(d) /\ Head(up[d]).kind \in Writes}}

\* onclose of an open socket: the other frames in it are gone, the poll fallback
\* starts with a first poll.  A socket that closes before it opened changes
\* nothing: the mode is "poll" already and setTransport returns.
Drop(c) ==
    /\ todo = <<>> /\ conn[c] = "open" /\ faults < plan.faults
    /\ conn' = [conn EXCEPT ![c] = "connecting"]
    /\ up' = [up EXCEPT ![c] = <<>>] /\ down' = [down EXCEPT ![c] = <<>>]
    /\ polling' = [polling EXCEPT ![c] = TRUE]
    /\ \E late \in SUBSET Received(c) :
          jobs' = (jobs \ Orphans(c)) \cup {Orphan(j) : j \in Orphans(c)}
                    \cup late \cup {GetOps(c)}
    /\ faults' = faults + 1
    /\ UNCHANGED <<session, replies, seqVars, editorVars, todo, clash, failed, plan, made, beats>>

\* The send task of the lost socket fails and handle_socket aborts the recv task
\* in the middle of its frame.
AbortFrame(j) ==
    /\ todo = <<>> /\ j.via = "oldws"
    /\ jobs' = jobs \ {j}
    /\ UNCHANGED <<session, replies, wireVars, seqVars, editorVars,
                   todo, clash, failed, bounds>>

\* The poll timer: pollOpsOnce and pollSessionOnce.  Bound: the interval does
\* not fire while its last requests are unanswered.
Poll(c) ==
    /\ todo = <<>> /\ polling[c] /\ ~Asked(c, "ops") /\ ~Asked(c, "session")
    /\ jobs' = jobs \cup {GetOps(c), Http(c, [kind |-> "session"])}
    /\ UNCHANGED <<session, replies, wireVars, seqVars, editorVars,
                   todo, clash, failed, bounds>>

\* A request or its answer is lost.  For a POST the client cannot tell which.
LoseHttp(c) ==
    /\ todo = <<>> /\ faults < plan.faults /\ faults' = faults + 1
    /\ \/ \E j \in jobs : j.tab = c /\ j.via = "http" /\ j.at = "new"
            /\ jobs' = jobs \ {j}
            /\ replies' = replies \cup {MkReply(c, j.req, FALSE, <<ErrorItem("network", 0)>>)}
       \/ \E r \in replies : r.tab = c /\ r.ok
            /\ replies' = (replies \ {r}) \cup
                 {MkReply(c, r.req, FALSE, <<ErrorItem("network", 0)>>)}
            /\ UNCHANGED jobs
    /\ UNCHANGED <<session, wireVars, seqVars, editorVars, todo, clash, failed, plan, made, beats>>

\* stop(): the ops that are not confirmed are forgotten.
Stop(c) ==
    /\ todo = <<>> /\ c \in plan.leaving /\ conn[c] \in {"connecting", "open"}
    /\ conn' = [conn EXCEPT ![c] = "closed"] /\ polling' = [polling EXCEPT ![c] = FALSE]
    /\ up' = [up EXCEPT ![c] = <<>>] /\ down' = [down EXCEPT ![c] = <<>>]
    /\ pending' = [pending EXCEPT ![c] = <<>>] /\ timers' = [timers EXCEPT ![c] = {}]
    /\ presence' = [presence EXCEPT ![c] = NoPresence]
    /\ clash' = clash \cup {x \in {c} : \E n \in DOMAIN pending[c] : LivePayload(pending[c][n])}
    /\ UNCHANGED <<serverVars, seqVars, dom, refs, lock, peers, todo, failed, bounds>>
-----------------------------------------------------------------------------
(* A tab receives *)

At(c, items) == [n \in DOMAIN items |-> [tab |-> c, item |-> items[n]]]

\* onmessage.
Receive(c) ==
    /\ todo = <<>> /\ down[c] # <<>>
    /\ todo' = At(c, Head(down[c]))
    /\ down' = [down EXCEPT ![c] = Tail(@)]
    /\ UNCHANGED <<serverVars, up, conn, polling, seqVars, editorVars, clash, failed, bounds>>

\* An HTTP answer.  start() goes on with connectWs and shows the room's HTML
\* when it is not what was sent and somebody else is there: "show" leaves
\* open who the backend has pruned by then.
Answer(r) ==
    LET c      == r.tab
        isJoin == r.req.kind = "join"
        view   == r.items[1].view
    IN  \E show \in {FALSE, r.ok /\ isJoin /\ view.html # r.req.seed} :
        /\ todo = <<>> /\ r.ok
        /\ replies' = replies \ {r}
        /\ todo' = At(c, r.items)
        /\ conn' = IF isJoin THEN [conn EXCEPT ![c] = "connecting"] ELSE conn
        /\ dom' = IF show THEN [dom EXCEPT ![c] = view.html] ELSE dom
        /\ clash' = clash \cup {x \in {c} : dom'[c] # dom[c]}
        /\ UNCHANGED <<session, jobs, up, down, polling, seqVars, pending, refs, lock,
                       peers, presence, timers, failed, bounds>>

\* The op with this id is not in flight any more.
Unsent(ps, cid) ==
    [n \in DOMAIN ps |->
        IF ps[n].cid = cid THEN MkPending(cid, ps[n].base, ps[n].type, ps[n].body, FALSE)
        ELSE ps[n]]

\* postOpHttp's catch: the op may be sent again; a mismatch of a format
\* commit also asks for the ops and for another try.  Other requests ignore
\* the failure.
AnswerFailed(r) ==
    LET c     == r.tab
        isOp  == r.req.kind = "op"
        again == isOp /\ r.req.type = "format_commit" /\ r.items[1].code = "text_mismatch"
    IN  /\ todo = <<>> /\ ~r.ok
        /\ replies' = replies \ {r}
        /\ pending' = IF isOp THEN [pending EXCEPT ![c] = Unsent(@, r.req.cid)] ELSE pending
        /\ failed' = IF isOp THEN failed \cup {r.req.cid} ELSE failed
        /\ IF again /\ conn[c] # "closed"
           THEN /\ timers' = [timers EXCEPT ![c] = @ \cup {"formatRetry"}]
                /\ Sends(c, <<IF conn[c] = "open" THEN [kind |-> "sync", after |-> latest[c]]
                                                  ELSE [kind |-> "ops", after |-> latest[c]]>>)
           ELSE UNCHANGED <<timers, up, jobs>>
        /\ UNCHANGED <<session, down, conn, polling, seqVars, dom, refs, lock, peers,
                       presence, todo, clash, bounds>>

\* rebaseRemoteAgainstPending and rebasePendingThroughRemote.
Against(op, ps) ==
    LET live == Kept(ps, {n \in DOMAIN ps : LivePayload(ps[n])})
    IN  TransformReplaceThrough(op.body, [n \in DOMAIN live |-> live[n].body])

Through(ps, op) ==
    [n \in DOMAIN ps |->
        IF op.type # "replace" \/ ~LivePayload(ps[n]) THEN ps[n]
        ELSE MkPending(ps[n].cid,
                       IF ps[n].inFlight THEN ps[n].base ELSE Larger(ps[n].base, op.seq),
                       ps[n].type, TransformReplace(ps[n].body, op.body), ps[n].inFlight)]

\* applyPlainReplaceToEditor: a place behind the end of the text has no DOM
\* range, and what goes there is put in front.
DomApply(t, op) ==
    LET cut == ApplyReplace(t, Replace(op.index, op.del, <<>>))
    IN  IF op.index > Len(cut) THEN op.ins \o cut
        ELSE ApplyReplace(cut, Replace(op.index, 0, op.ins))

\* What the editor shows after an op: onRemoteTextOp, onRemoteDocument.
Shown(t, type, body) ==
    IF type = "replace" THEN DomApply(t, body)
    ELSE IF type = "format_commit" THEN body.html ELSE t

Without(ps, cid) == Kept(ps, {n \in DOMAIN ps : ps[n].cid # cid})

\* ingestOp goes on.
Fresh(c, it) == it.ack \/ it.op.seq > latest[c]

\* An op of this user, or one of its own pending ops.
IsLocal(c, op) == op.user = UserOf[c] \/ \E n \in DOMAIN pending[c] : pending[c][n].cid = op.cid

\* The two replaces meet: they insert at one place, or one inserts into or
\* deletes from what the other deletes.
Meet(a, b) ==
    /\ a.index <= b.index + b.del /\ b.index <= a.index + a.del
    /\ (a.index = b.index /\ a.ins # <<>> /\ b.ins # <<>>)
         \/ (a.index < b.index + b.del /\ b.index < a.index + a.del)

\* A foreign op is rebased over a pending one that it meets, or that the server
\* had rebased it over already; or the HTML of a commit is not what is shown.
AstrayByOp(c, op, rest) ==
    \/ op.type = "replace" /\ \E n \in DOMAIN rest :
         LivePayload(rest[n]) /\ (Logged(rest[n].cid, op.seq) \/ Meet(rest[n].body, op.body))
    \/ op.type = "format_commit" /\ op.body.html # dom[c]

\* ingestOp and, for an op that is not an echo, the editor's callbacks.
IngestOp(c, it) ==
    LET op     == it.op
        rest   == Without(pending[c], op.cid)
        remote == ~IsLocal(c, op) /\ ~it.ack
        body   == IF op.type = "replace" /\ ~IsNoop(op.body) THEN Against(op, rest) ELSE op.body
    IN  /\ latest' = [latest EXCEPT ![c] = Larger(@, op.seq)]
        /\ pending' = [pending EXCEPT ![c] = IF remote THEN Through(rest, op) ELSE rest]
        /\ seen' = IF remote THEN [seen EXCEPT ![c] = Append(@, op.seq)] ELSE seen
        /\ lock' = IF remote /\ op.type = "replace"
                   THEN [lock EXCEPT ![c] = TransformRange(@, body)] ELSE lock
        /\ dom' = IF remote THEN [dom EXCEPT ![c] = Shown(@, op.type, body)] ELSE dom
        /\ refs' = IF remote /\ op.type = "format_commit"
                   THEN [refs EXCEPT ![c] = body] ELSE refs
        /\ clash' = clash \cup {x \in {c} : remote /\ AstrayByOp(c, op, rest)}

\* One item of the running handler.
StepOp ==
    /\ todo # <<>> /\ Head(todo).item.k = "op"
    /\ todo' = Tail(todo)
    /\ LET c == Head(todo).tab  it == Head(todo).item IN
       IF Fresh(c, it) THEN IngestOp(c, it)
       ELSE UNCHANGED <<latest, pending, seen, lock, dom, refs, clash>>
    /\ UNCHANGED <<serverVars, wireVars, peers, presence, timers, failed, bounds>>

\* applySession.  The room's snapshot never reaches onRemoteDocument: onSession
\* has just stored the same HTML in lastHtmlRef.
StepSession ==
    LET c == Head(todo).tab  view == Head(todo).item.view IN
    /\ todo # <<>> /\ Head(todo).item.k = "session"
    /\ todo' = Tail(todo)
    /\ latest' = [latest EXCEPT ![c] = Larger(@, view.latest)]
    /\ refs' = [refs EXCEPT ![c] = [html |-> view.html, text |-> view.text]]
    /\ peers' = [peers EXCEPT ![c] = view.locks]
    /\ UNCHANGED <<serverVars, wireVars, seen, pending, dom, lock, presence, timers,
                   clash, failed, bounds>>

\* The error branch of handleServerMessage: a pending op it names is
\* dropped, and every tab that hears of the error syncs.
StepError ==
    LET c == Head(todo).tab  it == Head(todo).item IN
    /\ todo # <<>> /\ Head(todo).item.k = "error"
    /\ todo' = Tail(todo)
    /\ pending' = [pending EXCEPT ![c] = Without(@, it.cid)]
    /\ timers' = IF it.code = "text_mismatch"
                 THEN [timers EXCEPT ![c] = @ \cup {"formatRetry"}] ELSE timers
    /\ up' = [up EXCEPT ![c] = Append(@, [kind |-> "sync", after |-> latest[c]])]
    /\ UNCHANGED <<serverVars, down, conn, polling, seqVars, dom, refs, lock, peers,
                   presence, clash, failed, bounds>>
-----------------------------------------------------------------------------
Backend ==
    \/ \E c \in Tabs : TakeWrite(c) \/ TakeSync(c)
    \/ \E j \in jobs : \/ ReadSession(j) \/ SaveSession(j) \/ RefuseOp(j) \/ Publish(j)
                       \/ SyncSend(j) \/ AnswerGet(j) \/ AbortFrame(j)

Client(c) ==
    \/ Start(c) \/ Edit(c) \/ FullSync(c) \/ FormatRetry(c)
    \/ MoveCaret(c) \/ ReleaseLock(c) \/ FlushPresence(c)
    \/ Open(c) \/ Drop(c) \/ Poll(c) \/ LoseHttp(c) \/ Stop(c) \/ Receive(c)

Handler == \/ StepOp \/ StepSession \/ StepError
           \/ \E r \in replies : Answer(r) \/ AnswerFailed(r)

Next == Backend \/ Handler \/ \E c \in Tabs : Client(c)

Spec == Init /\ [][Next]_vars

-----------------------------------------------------------------------------
Ranges == [start : Nat, end : Nat]

\* The session, the sockets and every tab's state keep their types; above all
\* no rebased op points before the text or deletes a negative length.
TypeOK ==
    /\ session.version \in Nat /\ session.locks \in [Users -> Ranges]
    /\ \A n \in DOMAIN session.log : session.log[n].type = "replace" =>
           session.log[n].body.index \in Nat /\ session.log[n].body.del \in Nat
    /\ conn \in [Tabs -> {"out", "joining", "connecting", "open", "closed"}]
    /\ polling \in [Tabs -> BOOLEAN]
    /\ latest \in [Tabs -> Nat] /\ seen \in [Tabs -> Seq(Nat)]
    /\ lock \in [Tabs -> Ranges] /\ timers \in [Tabs -> SUBSET {"fullSync", "formatRetry"}]
    /\ clash \subseteq Tabs /\ failed \subseteq Nat
    /\ made \in Nat /\ beats \in Nat /\ faults \in Nat

\* The room implements CollabLog: concurrent submits never lose or reorder an
\* op of the log, and whatever frames, polls, syncs and answers overtake each
\* other, ingestOp hands every editor each op at most once, in log order.
Log == INSTANCE CollabLog WITH log <- session.log
LogSpec == Log!Spec

\* No tab gets ahead of the log: latestSeq and the base of every op that is
\* pending or under way stay within it, so that submit_op never answers
\* "base_seq ahead of latest" to a client that only follows the protocol.
BaseWithinLog ==
    \A c \in Tabs :
        /\ latest[c] <= Len(session.log)
        /\ \A n \in DOMAIN pending[c] : pending[c][n].base <= Len(session.log)
        /\ \A j \in jobs : j.req.kind = "op" => j.req.base <= Len(session.log)

\* Only a POST that was reported as failed is ever applied twice: an op that
\* went over the socket, or is still under way, is not sent again.
ResentOnlyAfterFailure ==
    \A m, n \in DOMAIN session.log :
        (m # n /\ session.log[m].cid = session.log[n].cid)
            => session.log[m].cid \in failed

Foreign(c) == {n \in DOMAIN session.log : session.log[n].user # UserOf[c]}
CaughtUp(c) == {seen[c][k] : k \in DOMAIN seen[c]} = Foreign(c)

\* Nobody else is signed in as the tab's user, and none of its ops was applied
\* twice.
Alone(c) == \A d \in Tabs \ {c} : UserOf[d] # UserOf[c]
Once(c) ==
    \A m, n \in DOMAIN session.log \ Foreign(c) :
        session.log[m].cid = session.log[n].cid => m = n

\* At every moment at which an editor has been handed every foreign op and has
\* no unconfirmed change, it shows the server's text: the client's rebase of
\* remote ops over its pending one and the server's transform agree, unless
\* the two met or the tab went astray in another of the ways "clash" records.
CleanConverges ==
    \A c \in Tabs \ clash :
        /\ Alone(c) /\ Once(c) /\ CaughtUp(c)
        /\ \A n \in DOMAIN pending[c] : ~LivePayload(pending[c][n])
        => dom[c] = session.text

\* Violated.  A tab's latestSeq is the last op it applied: every foreign op
\* up to it was handed to the editor.
LatestIsApplied ==
    \A c \in Tabs : conn[c] \in {"connecting", "open"} =>
        \A n \in Foreign(c) : n <= latest[c] => \E k \in DOMAIN seen[c] : seen[c][k] = n

\* Violated.  Two participants never hold overlapping locks.
LocksExclusive ==
    \A u, v \in Users : u # v => ~RangesOverlap(session.locks[u], session.locks[v])

\* Violated.  The HTML of every format_commit in the log renders its text.
CommitsConsistent ==
    \A n \in DOMAIN session.log : session.log[n].type = "format_commit" =>
        session.log[n].body.html = session.log[n].body.text
=============================================================================
