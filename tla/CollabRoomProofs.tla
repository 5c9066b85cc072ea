-------------------------- MODULE CollabRoomProofs --------------------------
(***************************************************************************)
(* What holds of the live room for any tabs, users, seed, ring length,     *)
(* number of retries and scenario.  Three layers, each using the one       *)
(* before it:                                                              *)
(*   Inv      what is under way is in the log, and the room implements     *)
(*            CollabLog;                                                   *)
(*   Traffic  no base is ahead of the log, and an op that was not reported *)
(*            as failed is in one place only;                              *)
(*   Typed    texts, ops, ranges and requests keep their types.            *)
(***************************************************************************)
EXTENDS CollabRoom, SeqLoopsProofs, FiniteSetTheorems, TLAPS

LEMMA LastOf ==
    ASSUME NEW s
    PROVE  Last(s) = s[Len(s)]
BY DEF Last

-----------------------------------------------------------------------------
(* The inductive invariant *)

\* The op is the one the log holds under its seq.
In(log, op) == op.seq \in 1..Len(log) /\ op = log[op.seq]

GoodItem(log, it) ==
    /\ it.k = "op" => In(log, it.op)
    /\ it.k = "session" => it.view.latest \in 0..Len(log)

GoodItems(log, items) ==
    IsSeq(items) /\ \A n \in DOMAIN items : GoodItem(log, items[n])

GoodFrames(log, q) ==
    IsSeq(q) /\ \A n \in DOMAIN q : GoodItems(log, q[n])

\* A writer that holds the current version holds the current log; what a sync
\* has read and a writer has saved is in the log.
JobOK(ses, j) ==
    /\ j.tab \in Tabs
    /\ j.at = "read" /\ j.req.kind \in Writes =>
         /\ j.ses.version \in Nat /\ j.ses.version <= ses.version
         /\ j.ses.version = ses.version => j.ses.log = ses.log
    /\ j.at = "read" /\ j.req.kind = "sync" =>
         IsSeq(j.ses.log) /\ \A n \in DOMAIN j.ses.log : In(ses.log, j.ses.log[n])
    /\ j.at = "saved" =>
         /\ IsSeq(j.ses.log) /\ Len(j.ses.log) <= Len(ses.log)
         /\ j.req.kind = "op" => In(ses.log, Last(j.ses.log))

ReplyOK(log, r) == r.tab \in Tabs /\ GoodItems(log, r.items)

LogOK == /\ IsSeq(session.log) /\ session.version \in Nat
         /\ \A n \in DOMAIN session.log : session.log[n].seq = n

JobsOK    == \A j \in jobs : JobOK(session, j)
RepliesOK == \A r \in replies : ReplyOK(session.log, r)

DownOK == /\ down = [c \in Tabs |-> down[c]]
          /\ \A c \in Tabs : GoodFrames(session.log, down[c])

TodoOK == /\ IsSeq(todo)
          /\ \A n \in DOMAIN todo :
               todo[n].tab \in Tabs /\ GoodItem(session.log, todo[n].item)

SeenOK == /\ latest \in [Tabs -> Nat] /\ seen \in [Tabs -> Seq(Nat)]
          /\ \A c \in Tabs : /\ latest[c] <= Len(session.log)
                            /\ \A k \in DOMAIN seen[c] : seen[c][k] <= latest[c]

Inv == LogOK /\ JobsOK /\ RepliesOK /\ DownOK /\ TodoOK /\ SeenOK

LEMMA InitInv == Init => Inv
<1>. SUFFICES ASSUME Init PROVE Inv OBVIOUS
<1>1. LogOK
  BY PairIsSeq DEF Init, LogOK, MkSession
<1>2. JobsOK /\ RepliesOK BY DEF Init, JobsOK, RepliesOK
<1>3. DownOK BY PairIsSeq DEF Init, DownOK, GoodFrames
<1>4. TodoOK BY PairIsSeq DEF Init, TodoOK
<1>5. SeenOK BY DEF Init, SeenOK
<1>. QED BY <1>1, <1>2, <1>3, <1>4, <1>5 DEF Inv
-----------------------------------------------------------------------------
(* What stays good when the log grows *)

Extends(new, old) ==
    /\ Len(old) \in Nat /\ Len(new) \in Nat /\ Len(old) <= Len(new)
    /\ \A n \in 1..Len(old) : new[n] = old[n]

LEMMA InMono ==
    ASSUME NEW old, NEW new, Extends(new, old), NEW op, In(old, op)
    PROVE  In(new, op)
<1>1. op.seq \in 1..Len(old) /\ op = old[op.seq] BY DEF In
<1>2. new[op.seq] = old[op.seq] /\ op.seq \in 1..Len(new) BY <1>1 DEF Extends
<1>. QED BY <1>1, <1>2 DEF In

LEMMA ItemMono ==
    ASSUME NEW old, NEW new, Extends(new, old), NEW it, GoodItem(old, it)
    PROVE  GoodItem(new, it)
<1>1. 0..Len(old) \subseteq 0..Len(new) BY DEF Extends
<1>. QED BY <1>1, InMono DEF GoodItem

LEMMA ItemsMono ==
    ASSUME NEW old, NEW new, Extends(new, old), NEW items, GoodItems(old, items)
    PROVE  GoodItems(new, items)
BY ItemMono DEF GoodItems

LEMMA FramesMono ==
    ASSUME NEW old, NEW new, Extends(new, old), NEW q, GoodFrames(old, q)
    PROVE  GoodFrames(new, q)
BY ItemsMono DEF GoodFrames
-----------------------------------------------------------------------------
(* What the backend reads and sends *)

LEMMA SessionItemGood ==
    ASSUME NEW s, IsSeq(s.log), NEW log, IsSeq(log), Len(s.log) <= Len(log)
    PROVE  GoodItem(log, SessionItem(s))
<1>1. Len(s.log) \in 0..Len(log) BY IsSeqDom
<1>. QED BY <1>1 DEF GoodItem, SessionItem, View

LEMMA OwnViewGood ==
    ASSUME Inv
    PROVE  GoodItem(session.log, SessionItem(session))
<1>1. IsSeq(session.log) /\ Len(session.log) \in Nat BY IsSeqDom DEF Inv, LogOK
<1>. QED BY <1>1, SessionItemGood

LEMMA OpItemGood ==
    ASSUME NEW log, NEW op, In(log, op), NEW ack
    PROVE  GoodItem(log, OpItem(op, ack))
BY DEF GoodItem, OpItem

LEMMA OpItemsGood ==
    ASSUME NEW log, NEW ops, IsSeq(ops), \A n \in DOMAIN ops : In(log, ops[n])
    PROVE  GoodItems(log, OpItems(ops))
<1>1. Len(ops) \in Nat /\ DOMAIN ops = 1..Len(ops) BY IsSeqDom
<1>2. OpItems(ops) = [i \in 1..Len(ops) |-> OpItems(ops)[i]] BY <1>1 DEF OpItems
<1>3. IsSeq(OpItems(ops)) /\ DOMAIN OpItems(ops) = 1..Len(ops) BY <1>1, <1>2, FunIsSeq
<1>4. ASSUME NEW n \in DOMAIN OpItems(ops) PROVE GoodItem(log, OpItems(ops)[n])
  <2>1. OpItems(ops)[n] = OpItem(ops[n], FALSE) BY <1>1, <1>3 DEF OpItems
  <2>2. In(log, ops[n]) BY <1>1, <1>3
  <2>. QED BY <2>1, <2>2, OpItemGood
<1>. QED BY <1>3, <1>4 DEF GoodItems

LEMMA ErrorItemGood ==
    ASSUME NEW log, NEW code, NEW cid
    PROVE  GoodItem(log, ErrorItem(code, cid))
BY DEF GoodItem, ErrorItem

LEMMA OneItemGood ==
    ASSUME NEW log, NEW it, GoodItem(log, it)
    PROVE  GoodItems(log, <<it>>)
BY PairIsSeq DEF GoodItems

LEMMA TwoItemsGood ==
    ASSUME NEW log, NEW a, NEW b, GoodItem(log, a), GoodItem(log, b)
    PROVE  GoodItems(log, <<a, b>>)
BY PairIsSeq DEF GoodItems

\* What ops_after returns are the last entries of the log.
LEMMA OpsAfterEnd ==
    ASSUME NEW s, IsSeq(s.log), NEW base
    PROVE  \E k \in 0..Len(s.log) :
             /\ IsSeq(OpsAfter(s, base)) /\ DOMAIN OpsAfter(s, base) = 1..k
             /\ \A n \in 1..k : OpsAfter(s, base)[n] = s.log[n + (Len(s.log) - k)]
<1>. DEFINE log == s.log
            len == Len(log)
            kept == {n \in 1..len : n > len - MaxOps /\ n > base}
            k == Cardinality(kept)
            sub == SubSeq(log, len - k + 1, len)
<1>1. len \in Nat /\ DOMAIN log = 1..len BY IsSeqDom
<1>2. k \in 0..len
  <2>1. IsFiniteSet(1..len) /\ Cardinality(1..len) = len
    <3>1. /\ IsFiniteSet(1..len)
          /\ Cardinality(1..len) = IF 1 > len THEN 0 ELSE len - 1 + 1
      BY <1>1, FS_Interval
    <3>. QED BY <1>1, <3>1
  <2>2. kept \subseteq 1..len OBVIOUS
  <2>3. IsFiniteSet(kept) /\ k <= Cardinality(1..len) BY <2>1, <2>2, FS_Subset
  <2>4. k \in Nat BY <2>3, FS_CardinalityType
  <2>. QED BY <1>1, <2>1, <2>3, <2>4
<1>. HIDE DEF kept, k
<1>3. sub = [i \in 1..k |-> log[i + (len - k)]]
  <2>1. log \in Seq({log[i] : i \in DOMAIN log}) BY DEF IsSeq
  <2>2. len - k + 1 \in Int /\ len - (len - k + 1) + 1 = k BY <1>1, <1>2
  <2>3. sub = [i \in 1..(len - (len - k + 1) + 1) |-> log[i + (len - k + 1) - 1]]
    <3>. HIDE DEF log
    <3>. QED BY <1>1, <2>1, <2>2
  <2>4. \A i \in 1..k : i + (len - k + 1) - 1 = i + (len - k) BY <1>1, <1>2
  <2>. QED BY <2>2, <2>3, <2>4
<1>. HIDE DEF sub, len
<1>4. IsSeq(sub) /\ DOMAIN sub = 1..k
  <2>1. k \in Nat BY <1>1, <1>2
  <2>2. sub = [i \in 1..k |-> sub[i]] BY <1>3
  <2>. QED BY <2>1, <2>2, FunIsSeq
<1>5. \A n \in 1..k : sub[n] = log[n + (len - k)] BY <1>3
<1>6. OpsAfter(s, base) = sub BY DEF OpsAfter, kept, k, len, sub
<1>. QED BY <1>1, <1>2, <1>4, <1>5, <1>6 DEF len

LEMMA OpsAfterOf ==
    ASSUME NEW s, IsSeq(s.log), NEW base
    PROVE  /\ IsSeq(OpsAfter(s, base))
           /\ \A n \in DOMAIN OpsAfter(s, base) :
                \E m \in DOMAIN s.log : OpsAfter(s, base)[n] = s.log[m]
<1>1. PICK k \in 0..Len(s.log) :
        /\ IsSeq(OpsAfter(s, base)) /\ DOMAIN OpsAfter(s, base) = 1..k
        /\ \A n \in 1..k : OpsAfter(s, base)[n] = s.log[n + (Len(s.log) - k)]
  BY OpsAfterEnd
<1>2. Len(s.log) \in Nat /\ DOMAIN s.log = 1..Len(s.log) BY IsSeqDom
<1>3. \A n \in 1..k : n + (Len(s.log) - k) \in DOMAIN s.log BY <1>2
<1>. QED BY <1>1, <1>3

LEMMA OpsAfterIn ==
    ASSUME LogOK, NEW base
    PROVE  /\ IsSeq(OpsAfter(session, base))
           /\ \A n \in DOMAIN OpsAfter(session, base) :
                In(session.log, OpsAfter(session, base)[n])
<1>1. IsSeq(session.log) /\ \A n \in DOMAIN session.log : session.log[n].seq = n BY DEF LogOK
<1>2. DOMAIN session.log = 1..Len(session.log) BY <1>1, IsSeqDom
<1>3. \A m \in DOMAIN session.log : In(session.log, session.log[m]) BY <1>1, <1>2 DEF In
<1>. HIDE DEF LogOK
<1>. QED BY <1>1, <1>3, OpsAfterOf
-----------------------------------------------------------------------------
(* Steps that leave the session alone *)

LEMMA SameSession ==
    ASSUME Inv, session' = session,
           \A j \in jobs' : j \in jobs \/ JobOK(session, j),
           \A r \in replies' : r \in replies \/ ReplyOK(session.log, r),
           down' = down \/ DownOK', todo' = todo \/ TodoOK',
           (latest' = latest /\ seen' = seen) \/ SeenOK'
    PROVE  Inv'
<1>1. LogOK' BY DEF Inv, LogOK
<1>2. JobsOK' BY DEF Inv, JobsOK
<1>3. RepliesOK' BY DEF Inv, RepliesOK
<1>4. DownOK' BY DEF Inv, DownOK
<1>5. TodoOK' BY DEF Inv, TodoOK
<1>6. SeenOK' BY DEF Inv, SeenOK
<1>. QED BY <1>1, <1>2, <1>3, <1>4, <1>5, <1>6 DEF Inv

LEMMA NewJobOK ==
    ASSUME NEW c \in Tabs, NEW via, NEW req
    PROVE  JobOK(session, Job(c, via, req))
BY DEF JobOK, Job, MkJob

\* What a lost socket leaves: its own frame, whose new name is all that changes,
\* and the next one.
LEMMA OrphanFields ==
    ASSUME NEW j
    PROVE  /\ Orphan(j).tab = j.tab /\ Orphan(j).req = j.req /\ Orphan(j).at = j.at
           /\ Orphan(j).ses = j.ses
BY DEF Orphan, MkJob

LEMMA DropJobs ==
    ASSUME NEW c, Drop(c), NEW i \in jobs'
    PROVE  \/ i \in jobs /\ i \notin Orphans(c)
           \/ \E j \in Orphans(c) : i = Orphan(j)
           \/ i = GetOps(c)
           \/ up[c] # <<>> /\ i = Orphan(Frame(c))
<1>1. PICK late \in SUBSET Received(c) :
        jobs' = (jobs \ Orphans(c)) \cup {Orphan(j) : j \in Orphans(c)}
                   \cup late \cup {GetOps(c)}
  BY DEF Drop
<1>2. \A k \in Received(c) : up[c] # <<>> /\ k = Orphan(Frame(c)) BY DEF Received, CanTake
<1>. QED BY <1>1, <1>2

\* A frame that has just been received.
LEMMA ReceivedFields ==
    ASSUME NEW c
    PROVE  /\ Orphan(Frame(c)).tab = c /\ Orphan(Frame(c)).req = Head(up[c])
           /\ Orphan(Frame(c)).at = "new"
<1>1. Frame(c).tab = c /\ Frame(c).req = Head(up[c]) /\ Frame(c).at = "new"
  BY DEF Frame, Job, MkJob
<1>. QED BY <1>1, OrphanFields

LEMMA SendsJobs ==
    ASSUME NEW c \in Tabs, NEW frames, Sends(c, frames)
    PROVE  \A j \in jobs' : j \in jobs \/ JobOK(session, j)
BY NewJobOK DEF Sends, Http

LEMMA PresentsJobs ==
    ASSUME NEW c \in Tabs, NEW lk, NEW ops, Presents(c, lk, ops)
    PROVE  \A j \in jobs' : j \in jobs \/ JobOK(session, j)
BY NewJobOK DEF Presents, Http

\* One tab's socket is emptied.
LEMMA DownCleared ==
    ASSUME DownOK, session' = session, NEW c \in Tabs,
           down' = [down EXCEPT ![c] = <<>>]
    PROVE  DownOK'
<1>1. GoodFrames(session.log, <<>>) BY PairIsSeq DEF GoodFrames
<1>2. down' = [d \in Tabs |-> IF d = c THEN <<>> ELSE down[d]] BY DEF DownOK
<1>. QED BY <1>1, <1>2 DEF DownOK

\* A frame of good items goes to every open socket.
LEMMA DownBroadcast ==
    ASSUME DownOK, session' = session, NEW frame, GoodItems(session.log, frame),
           down' = Broadcast(frame)
    PROVE  DownOK'
<1>1. ASSUME NEW c \in Tabs PROVE GoodFrames(session.log, down'[c])
  <2>1. IsSeq(down[c]) /\ \A n \in DOMAIN down[c] : GoodItems(session.log, down[c][n])
    BY DEF DownOK, GoodFrames
  <2>2. DOMAIN down[c] = 1..Len(down[c]) /\ Len(down[c]) \in Nat BY <2>1, IsSeqDom
  <2>3. GoodFrames(session.log, Append(down[c], frame))
    <3>1. /\ IsSeq(Append(down[c], frame))
          /\ DOMAIN Append(down[c], frame) = 1..(Len(down[c]) + 1)
          /\ \A i \in 1..Len(down[c]) : Append(down[c], frame)[i] = down[c][i]
          /\ Append(down[c], frame)[Len(down[c]) + 1] = frame
      BY <2>1, AppendIsSeq
    <3>2. ASSUME NEW n \in 1..(Len(down[c]) + 1)
          PROVE  GoodItems(session.log, Append(down[c], frame)[n])
      <4>1. CASE n \in 1..Len(down[c]) BY <2>1, <2>2, <3>1, <4>1
      <4>2. CASE n = Len(down[c]) + 1 BY <3>1, <4>2
      <4>. QED BY <2>2, <4>1, <4>2
    <3>. QED BY <3>1, <3>2 DEF GoodFrames
  <2>4. GoodFrames(session.log, down[c]) BY <2>1 DEF GoodFrames
  <2>. QED BY <2>3, <2>4 DEF Broadcast
<1>2. down' = [c \in Tabs |-> down'[c]] BY DEF Broadcast
<1>. QED BY <1>1, <1>2 DEF DownOK

\* A step of the kind every action but SaveSession and StepOp takes.
Silent == session' = session /\ seen' = seen

LEMMA TabStep ==
    ASSUME Inv, NEW c \in Tabs,
           \/ Start(c) \/ Edit(c) \/ FullSync(c) \/ FormatRetry(c)
           \/ MoveCaret(c) \/ ReleaseLock(c) \/ FlushPresence(c)
           \/ Open(c) \/ Poll(c)
    PROVE  Inv' /\ Silent
<1>. SUFFICES Silent /\ latest' = latest /\ down' = down /\ todo' = todo /\ replies' = replies
              /\ \A j \in jobs' : j \in jobs \/ JobOK(session, j)
  BY SameSession DEF Silent
<1>1. CASE Start(c) BY <1>1, NewJobOK DEF Start, Silent, seqVars, Http
<1>2. CASE Edit(c)
  <2>1. PICK i \in 0..Len(dom[c]), key \in plan.keys :
           /\ SubmitOp(c, "replace", DiffPlainText(dom[c], dom'[c]))
           /\ UNCHANGED <<session, replies, down, conn, polling, seqVars, refs, lock,
                          peers, presence, todo, failed, plan, beats, faults>>
    BY <1>2 DEF Edit
  <2>. QED BY <2>1, SendsJobs DEF SubmitOp, Silent, seqVars
<1>3. CASE FullSync(c) BY <1>3, SendsJobs DEF FullSync, SubmitOp, Silent, seqVars
<1>4. CASE FormatRetry(c) BY <1>4, SendsJobs DEF FormatRetry, SubmitOp, Silent, seqVars
<1>5. CASE MoveCaret(c)
  <2>1. \E lk, ops : Presents(c, lk, ops) BY <1>5 DEF MoveCaret
  <2>. QED BY <1>5, <2>1, PresentsJobs DEF MoveCaret, Silent, seqVars
<1>6. CASE ReleaseLock(c) BY <1>6, PresentsJobs DEF ReleaseLock, Silent, seqVars
<1>7. CASE FlushPresence(c) BY <1>7, NewJobOK DEF FlushPresence, Silent, seqVars, wireVars, Http
<1>8. CASE Open(c) BY <1>8 DEF Open, Silent, seqVars, serverVars
<1>9. CASE Poll(c) BY <1>9, NewJobOK DEF Poll, Silent, seqVars, wireVars, Http, GetOps
<1>. QED BY <1>1, <1>2, <1>3, <1>4, <1>5, <1>6, <1>7, <1>8, <1>9

\* The answers that report a failure.
LEMMA FailureOK ==
    ASSUME NEW log, NEW c \in Tabs, NEW req, NEW ok, NEW code
    PROVE  ReplyOK(log, MkReply(c, req, ok, <<ErrorItem(code, 0)>>))
<1>1. GoodItems(log, <<ErrorItem(code, 0)>>) BY ErrorItemGood, OneItemGood
<1>. QED BY <1>1 DEF ReplyOK, MkReply

LEMMA FaultStep ==
    ASSUME Inv, NEW c \in Tabs, Drop(c) \/ Stop(c) \/ LoseHttp(c)
    PROVE  Inv' /\ Silent
<1>1. CASE Drop(c)
  <2>1. session' = session /\ down' = [down EXCEPT ![c] = <<>>] BY <1>1 DEF Drop
  <2>2. DownOK' BY <2>1, DownCleared DEF Inv
  <2>3. ASSUME NEW i \in jobs' PROVE i \in jobs \/ JobOK(session, i)
    <3>1. ASSUME NEW j \in Orphans(c), i = Orphan(j) PROVE JobOK(session, i)
      <4>1. JobOK(session, j) BY DEF Orphans, Inv, JobsOK
      <4>. QED BY <3>1, <4>1, OrphanFields DEF JobOK
    <3>2. JobOK(session, GetOps(c)) BY NewJobOK DEF GetOps, Http
    <3>3. JobOK(session, Orphan(Frame(c))) BY ReceivedFields DEF JobOK
    <3>. QED BY <1>1, <3>1, <3>2, <3>3, DropJobs
  <2>. QED BY <1>1, <2>1, <2>2, <2>3, SameSession DEF Drop, Silent, seqVars
<1>2. CASE Stop(c)
  <2>1. /\ session' = session /\ down' = [down EXCEPT ![c] = <<>>]
        /\ jobs' = jobs /\ replies' = replies
    BY <1>2 DEF Stop, serverVars
  <2>2. DownOK' BY <2>1, DownCleared DEF Inv
  <2>. QED BY <1>2, <2>1, <2>2, SameSession DEF Stop, Silent, seqVars
<1>3. CASE LoseHttp(c)
  <2>1. /\ session' = session /\ down' = down /\ todo' = todo
        /\ latest' = latest /\ seen' = seen
    BY <1>3 DEF LoseHttp, wireVars, seqVars
  <2>2. \A j \in jobs' : j \in jobs BY <1>3 DEF LoseHttp
  <2>3. \E req : \A r \in replies' :
          r \in replies \/ r = MkReply(c, req, FALSE, <<ErrorItem("network", 0)>>)
    BY <1>3 DEF LoseHttp
  <2>4. \A r \in replies' : r \in replies \/ ReplyOK(session.log, r) BY <2>3, FailureOK
  <2>. QED BY <2>1, <2>2, <2>4, SameSession DEF Silent
<1>. QED BY <1>1, <1>2, <1>3

\* The items of a frame or an answer become the running handler.
LEMMA TodoSet ==
    ASSUME NEW c \in Tabs, NEW items, GoodItems(session.log, items), session' = session,
           todo' = At(c, items)
    PROVE  TodoOK'
<1>1. Len(items) \in Nat /\ DOMAIN items = 1..Len(items) BY IsSeqDom DEF GoodItems
<1>2. todo' = [i \in 1..Len(items) |-> [tab |-> c, item |-> items[i]]] BY <1>1 DEF At
<1>3. IsSeq(todo') /\ DOMAIN todo' = 1..Len(items) BY <1>1, <1>2, FunIsSeq
<1>4. \A n \in DOMAIN todo' : todo'[n].tab = c /\ todo'[n].item = items[n] BY <1>2
<1>. QED BY <1>1, <1>3, <1>4 DEF TodoOK, GoodItems

LEMMA ReceiveStep ==
    ASSUME Inv, NEW c \in Tabs, Receive(c)
    PROVE  Inv' /\ Silent
<1>1. /\ session' = session /\ jobs' = jobs /\ replies' = replies /\ down[c] # <<>>
      /\ todo' = At(c, Head(down[c])) /\ down' = [down EXCEPT ![c] = Tail(@)]
      /\ latest' = latest /\ seen' = seen
  BY DEF Receive, serverVars, seqVars
<1>2. GoodFrames(session.log, down[c]) BY DEF Inv, DownOK
<1>3. /\ IsSeq(Tail(down[c])) /\ Len(down[c]) \in Nat \ {0} /\ Head(down[c]) = down[c][1]
      /\ DOMAIN Tail(down[c]) = 1..(Len(down[c]) - 1)
      /\ \A i \in 1..(Len(down[c]) - 1) : Tail(down[c])[i] = down[c][i + 1]
  BY <1>1, <1>2, TailIsSeq DEF GoodFrames
<1>4. DOMAIN down[c] = 1..Len(down[c]) BY <1>2, IsSeqDom DEF GoodFrames
<1>5. GoodItems(session.log, Head(down[c])) BY <1>2, <1>3, <1>4 DEF GoodFrames
<1>6. GoodFrames(session.log, Tail(down[c])) BY <1>2, <1>3, <1>4 DEF GoodFrames
<1>7. TodoOK' BY <1>1, <1>5, TodoSet
<1>8. DownOK'
  <2>1. down' = [d \in Tabs |-> IF d = c THEN Tail(down[c]) ELSE down[d]]
    BY <1>1 DEF Inv, DownOK
  <2>. QED BY <1>1, <1>6, <2>1 DEF Inv, DownOK
<1>. QED BY <1>1, <1>7, <1>8, SameSession DEF Silent

LEMMA AnswerStep ==
    ASSUME Inv, NEW r \in replies, Answer(r) \/ AnswerFailed(r)
    PROVE  Inv' /\ Silent
<1>0. r.tab \in Tabs /\ GoodItems(session.log, r.items) BY DEF Inv, RepliesOK, ReplyOK
<1>1. CASE Answer(r)
  <2>1. /\ session' = session /\ jobs' = jobs /\ replies' = replies \ {r} /\ down' = down
        /\ todo' = At(r.tab, r.items) /\ latest' = latest /\ seen' = seen
    BY <1>1 DEF Answer, seqVars
  <2>2. TodoOK' BY <1>0, <2>1, TodoSet
  <2>. QED BY <2>1, <2>2, SameSession DEF Silent
<1>2. CASE AnswerFailed(r)
  <2>1. /\ session' = session /\ replies' = replies \ {r} /\ down' = down /\ todo' = todo
        /\ latest' = latest /\ seen' = seen
    BY <1>2 DEF AnswerFailed, seqVars
  <2>2. jobs' = jobs \/ \E frames : Sends(r.tab, frames) BY <1>2 DEF AnswerFailed
  <2>3. \A j \in jobs' : j \in jobs \/ JobOK(session, j) BY <1>0, <2>2, SendsJobs
  <2>. QED BY <2>1, <2>3, SameSession DEF Silent
<1>. QED BY <1>1, <1>2
-----------------------------------------------------------------------------
(* The running handler *)

LEMMA TodoTail ==
    ASSUME TodoOK, session' = session, todo # <<>>, todo' = Tail(todo)
    PROVE  /\ TodoOK' /\ Head(todo).tab \in Tabs
           /\ GoodItem(session.log, Head(todo).item)
<1>1. /\ IsSeq(Tail(todo)) /\ Len(todo) \in Nat \ {0} /\ Head(todo) = todo[1]
      /\ DOMAIN Tail(todo) = 1..(Len(todo) - 1)
      /\ \A i \in 1..(Len(todo) - 1) : Tail(todo)[i] = todo[i + 1]
  BY TailIsSeq DEF TodoOK
<1>2. DOMAIN todo = 1..Len(todo) BY IsSeqDom DEF TodoOK
<1>. QED BY <1>1, <1>2 DEF TodoOK

LEMMA LargerNat ==
    ASSUME NEW a \in Nat, NEW b \in Nat
    PROVE  /\ Larger(a, b) \in Nat /\ a <= Larger(a, b) /\ b <= Larger(a, b)
           /\ Larger(a, b) \in {a, b}
BY DEF Larger

\* latestSeq rises and nothing is handed to an editor.
LEMMA LatestRises ==
    ASSUME SeenOK, session' = session, NEW c \in Tabs, NEW n \in Nat, n <= Len(session.log),
           seen' = seen, latest' = [latest EXCEPT ![c] = Larger(@, n)]
    PROVE  SeenOK'
<1>1. latest[c] \in Nat BY DEF SeenOK
<1>2. Larger(latest[c], n) \in Nat /\ latest[c] <= Larger(latest[c], n) BY <1>1, LargerNat
<1>3. latest' \in [Tabs -> Nat] BY <1>2 DEF SeenOK
<1>4. ASSUME NEW d \in Tabs, NEW k \in DOMAIN seen[d] PROVE seen[d][k] <= latest'[d]
  <2>1. seen[d][k] \in Nat /\ latest[d] \in Nat /\ seen[d][k] <= latest[d] BY DEF SeenOK
  <2>2. CASE d = c
    <3>1. latest'[d] = Larger(latest[c], n) BY <2>2 DEF SeenOK
    <3>. QED BY <1>2, <2>1, <2>2, <3>1
  <2>3. CASE d # c BY <2>1, <2>3 DEF SeenOK
  <2>. QED BY <2>2, <2>3
<1>5. \A d \in Tabs : latest'[d] <= Len(session'.log)
  <2>1. Larger(latest[c], n) \in {latest[c], n} BY <1>1, LargerNat
  <2>. QED BY <2>1 DEF SeenOK
<1>. QED BY <1>3, <1>4, <1>5 DEF SeenOK

\* An op behind latestSeq is handed to the editor.
LEMMA SeenGrows ==
    ASSUME SeenOK, session' = session, NEW c \in Tabs, NEW n \in Nat, n <= Len(session.log),
           n > latest[c],
           seen' = [seen EXCEPT ![c] = Append(@, n)],
           latest' = [latest EXCEPT ![c] = Larger(@, n)]
    PROVE  SeenOK' /\ \A k \in DOMAIN seen[c] : seen[c][k] < n
<1>1. latest[c] \in Nat /\ seen[c] \in Seq(Nat) BY DEF SeenOK
<1>2. Larger(latest[c], n) \in Nat /\ latest[c] <= Larger(latest[c], n) /\ n <= Larger(latest[c], n)
  BY <1>1, LargerNat
<1>3. latest' \in [Tabs -> Nat] /\ latest'[c] = Larger(latest[c], n) BY <1>2 DEF SeenOK
<1>4. \A k \in DOMAIN seen[c] : seen[c][k] \in Nat /\ seen[c][k] <= latest[c] BY <1>1 DEF SeenOK
<1>5. seen' \in [Tabs -> Seq(Nat)] /\ seen'[c] = Append(seen[c], n) BY <1>1 DEF SeenOK
<1>6. ASSUME NEW d \in Tabs, NEW k \in DOMAIN seen'[d] PROVE seen'[d][k] <= latest'[d]
  <2>1. CASE d # c
    <3>1. seen'[d] = seen[d] /\ latest'[d] = latest[d] BY <2>1 DEF SeenOK
    <3>. QED BY <3>1 DEF SeenOK
  <2>2. CASE d = c
    <3>1. k \in 1..(Len(seen[c]) + 1) BY <1>1, <1>5, <2>2
    <3>2. CASE k = Len(seen[c]) + 1
      <4>1. seen'[c][k] = n BY <1>1, <1>5, <3>2
      <4>. QED BY <1>2, <1>3, <2>2, <4>1
    <3>3. CASE k \in 1..Len(seen[c])
      <4>1. seen'[c][k] = seen[c][k] BY <1>1, <1>5, <3>3
      <4>2. seen[c][k] \in Nat /\ seen[c][k] <= latest[c] BY <1>1, <1>4, <3>3
      <4>. QED BY <1>1, <1>2, <1>3, <2>2, <4>1, <4>2
    <3>. QED BY <1>1, <3>1, <3>2, <3>3
  <2>. QED BY <2>1, <2>2
<1>7. \A k \in DOMAIN seen[c] : seen[c][k] < n BY <1>1, <1>4
<1>8. \A d \in Tabs : latest'[d] <= Len(session'.log)
  <2>1. Larger(latest[c], n) \in {latest[c], n} BY <1>1, LargerNat
  <2>. QED BY <2>1 DEF SeenOK
<1>. QED BY <1>3, <1>5, <1>6, <1>7, <1>8 DEF SeenOK

LEMMA ViewStep ==
    ASSUME Inv, StepSession \/ StepError
    PROVE  Inv' /\ Silent
<1>. DEFINE c == Head(todo).tab
            it == Head(todo).item
<1>1. /\ session' = session /\ jobs' = jobs /\ replies' = replies /\ down' = down
      /\ todo # <<>> /\ todo' = Tail(todo) /\ seen' = seen
  BY DEF StepSession, StepError, serverVars, wireVars, seqVars
<1>2. TodoOK' /\ c \in Tabs /\ GoodItem(session.log, it) BY <1>1, TodoTail DEF Inv
<1>3. CASE StepSession
  <2>1. it.k = "session" /\ latest' = [latest EXCEPT ![c] = Larger(@, it.view.latest)]
    BY <1>3 DEF StepSession
  <2>2. it.view.latest \in Nat /\ it.view.latest <= Len(session.log)
    <3>1. Len(session.log) \in Nat BY IsSeqDom DEF Inv, LogOK
    <3>. QED BY <1>2, <2>1, <3>1 DEF GoodItem
  <2>3. SeenOK' BY <1>1, <1>2, <2>1, <2>2, LatestRises DEF Inv
  <2>. QED BY <1>1, <1>2, <2>3, SameSession DEF Silent
<1>4. CASE StepError
  <2>1. latest' = latest BY <1>4 DEF StepError, seqVars
  <2>. QED BY <1>1, <1>2, <2>1, SameSession DEF Silent
<1>. QED BY <1>3, <1>4

\* ingestOp stutters or delivers.
LEMMA OpStep ==
    ASSUME Inv, StepOp
    PROVE  Inv' /\ (Silent \/ \E c \in Tabs : Log!Deliver(c))
<1>. DEFINE c == Head(todo).tab
            it == Head(todo).item
            op == it.op
<1>1. /\ session' = session /\ jobs' = jobs /\ replies' = replies /\ down' = down
      /\ todo # <<>> /\ todo' = Tail(todo) /\ it.k = "op"
      /\ IF Fresh(c, it) THEN IngestOp(c, it)
         ELSE UNCHANGED <<latest, pending, seen, lock, dom, refs, clash>>
  BY DEF StepOp, serverVars, wireVars
<1>2. TodoOK' /\ c \in Tabs /\ GoodItem(session.log, it) BY <1>1, TodoTail DEF Inv
<1>3. op.seq \in 1..Len(session.log) /\ op = session.log[op.seq]
  BY <1>1, <1>2 DEF GoodItem, In
<1>4. op.seq \in Nat /\ op.seq <= Len(session.log)
  <2>1. Len(session.log) \in Nat BY IsSeqDom DEF Inv, LogOK
  <2>. QED BY <1>3, <2>1
<1>. DEFINE remote == ~IsLocal(c, op) /\ ~it.ack
<1>5. CASE ~Fresh(c, it)
  <2>1. latest' = latest /\ seen' = seen BY <1>1, <1>5
  <2>. QED BY <1>1, <1>2, <2>1, SameSession DEF Silent
<1>6. CASE Fresh(c, it)
  <2>1. /\ latest' = [latest EXCEPT ![c] = Larger(@, op.seq)]
        /\ seen' = IF remote THEN [seen EXCEPT ![c] = Append(@, op.seq)] ELSE seen
    BY <1>1, <1>6 DEF IngestOp
  <2>2. CASE ~remote
    <3>1. seen' = seen BY <2>1, <2>2
    <3>2. SeenOK' BY <1>1, <1>2, <1>4, <2>1, <3>1, LatestRises DEF Inv
    <3>. QED BY <1>1, <1>2, <3>1, <3>2, SameSession DEF Silent
  <2>3. CASE remote
    <3>1. op.seq > latest[c] BY <1>6, <2>3 DEF Fresh
    <3>2. seen' = [seen EXCEPT ![c] = Append(@, op.seq)] BY <2>1, <2>3
    <3>3. SeenOK' /\ \A k \in DOMAIN seen[c] : seen[c][k] < op.seq
      BY <1>1, <1>2, <1>4, <2>1, <3>1, <3>2, SeenGrows DEF Inv
    <3>4. Inv' BY <1>1, <1>2, <3>3, SameSession
    <3>5. session.log[op.seq].user # UserOf[c] BY <1>3, <2>3 DEF IsLocal
    <3>6. Log!Deliver(c) BY <1>1, <1>3, <3>2, <3>3, <3>5 DEF Log!Deliver
    <3>. QED BY <1>2, <3>4, <3>6
  <2>. QED BY <2>2, <2>3
<1>. QED BY <1>5, <1>6
-----------------------------------------------------------------------------
(* The backend *)

LEMMA ReadStep ==
    ASSUME Inv, NEW j, NEW was, was \subseteq jobs, j.tab \in Tabs, ReadFor(j, was)
    PROVE  Inv' /\ Silent
<1>1. JobOK(session, Turned(j, "read", session, j.tries))
  <2>1. Turned(j, "read", session, j.tries).req.kind # "sync"
    BY DEF ReadFor, Writes, Turned, MkJob
  <2>. QED BY <2>1 DEF Inv, LogOK, JobOK, Turned, MkJob
<1>2. /\ session' = session /\ replies' = replies /\ down' = down /\ todo' = todo
      /\ latest' = latest /\ seen' = seen
      /\ jobs' = was \cup {Turned(j, "read", session, j.tries)}
  BY DEF ReadFor, seqVars
<1>. QED BY <1>1, <1>2, SameSession DEF Silent

LEMMA TakeStep ==
    ASSUME Inv, NEW c \in Tabs, TakeWrite(c) \/ TakeSync(c)
    PROVE  Inv' /\ Silent
<1>1. Frame(c).tab = c BY DEF Frame, Job, MkJob
<1>2. CASE TakeWrite(c) BY <1>1, <1>2, ReadStep DEF TakeWrite
<1>3. CASE TakeSync(c)
  <2>. DEFINE ops == OpsAfter(session, Frame(c).req.after)
              new == Turned(Frame(c), "read", Copy(ops), 0)
  <2>1. /\ session' = session /\ replies' = replies /\ down' = down /\ todo' = todo
        /\ latest' = latest /\ seen' = seen /\ jobs' = jobs \cup {new}
        /\ Frame(c).req.kind = "sync"
    BY <1>3 DEF TakeSync, seqVars
  <2>2. IsSeq(ops) /\ \A n \in DOMAIN ops : In(session.log, ops[n]) BY OpsAfterIn DEF Inv
  <2>3. new.tab = c /\ new.at = "read" /\ new.req.kind = "sync" /\ new.ses.log = ops
    BY <1>1, <2>1 DEF Turned, MkJob, Copy, MkSession
  <2>. HIDE DEF new, ops
  <2>4. JobOK(session, new) BY <2>2, <2>3 DEF JobOK, Writes
  <2>. QED BY <2>1, <2>4, SameSession DEF Silent
<1>. QED BY <1>2, <1>3

LEMMA RefuseStep ==
    ASSUME Inv, NEW j \in jobs, RefuseOp(j)
    PROVE  Inv' /\ Silent
<1>. DEFINE v == Verdict(j.ses, UserOf[j.tab], j.req)
<1>1. /\ session' = session /\ jobs' = jobs \ {j} /\ Refuse(j, v) /\ todo' = todo
      /\ latest' = latest /\ seen' = seen
      /\ down' = down \/ down' = Broadcast(<<ErrorItem(v, j.req.cid)>>)
  BY DEF RefuseOp, seqVars
<1>2. j.tab \in Tabs BY DEF Inv, JobsOK, JobOK
<1>3. \A r \in replies' : r \in replies \/ ReplyOK(session.log, r)
  BY <1>1, <1>2, FailureOK DEF Refuse
<1>4. GoodItems(session.log, <<ErrorItem(v, j.req.cid)>>) BY ErrorItemGood, OneItemGood
<1>5. down' = down \/ DownOK' BY <1>1, <1>4, DownBroadcast DEF Inv
<1>. QED BY <1>1, <1>3, <1>5, SameSession DEF Silent

LEMMA ReplyStepOK ==
    ASSUME NEW j, j.tab \in Tabs, NEW items, GoodItems(session.log, items), Reply(j, items)
    PROVE  \A r \in replies' : r \in replies \/ ReplyOK(session.log, r)
BY DEF Reply, MkReply, ReplyOK

LEMMA PublishStep ==
    ASSUME Inv, NEW j \in jobs, Publish(j)
    PROVE  Inv' /\ Silent
<1>. DEFINE op(ack) == OpItem(Last(j.ses.log), ack)
            view == SessionItem(j.ses)
<1>1. /\ session' = session /\ jobs' = jobs \ {j} /\ todo' = todo /\ j.at = "saved"
      /\ latest' = latest /\ seen' = seen
      /\ Reply(j, IF j.req.kind = "op" THEN <<op(TRUE)>> ELSE <<view>>)
      /\ down' = IF j.req.kind = "op" THEN Broadcast(<<op(FALSE), view>>)
                 ELSE IF j.req.kind = "heartbeat" THEN Broadcast(<<view>>) ELSE down
  BY DEF Publish, seqVars
<1>2. /\ j.tab \in Tabs /\ IsSeq(j.ses.log) /\ Len(j.ses.log) <= Len(session.log)
      /\ j.req.kind = "op" => In(session.log, Last(j.ses.log))
  BY <1>1 DEF Inv, JobsOK, JobOK
<1>3. GoodItem(session.log, view) BY <1>2, SessionItemGood DEF Inv, LogOK
<1>4. j.req.kind = "op" => GoodItem(session.log, op(TRUE)) /\ GoodItem(session.log, op(FALSE))
  BY <1>2, OpItemGood
<1>. HIDE DEF op, view
<1>5. GoodItems(session.log, <<view>>) BY <1>3, OneItemGood
<1>6. CASE j.req.kind = "op"
  <2>1. GoodItems(session.log, <<op(TRUE)>>) BY <1>4, <1>6, OneItemGood
  <2>2. GoodItems(session.log, <<op(FALSE), view>>) BY <1>3, <1>4, <1>6, TwoItemsGood
  <2>3. Reply(j, <<op(TRUE)>>) /\ down' = Broadcast(<<op(FALSE), view>>) BY <1>1, <1>6
  <2>4. DownOK' BY <1>1, <2>2, <2>3, DownBroadcast DEF Inv
  <2>5. \A r \in replies' : r \in replies \/ ReplyOK(session.log, r)
    BY <1>2, <2>1, <2>3, ReplyStepOK
  <2>. QED BY <1>1, <2>4, <2>5, SameSession DEF Silent
<1>7. CASE j.req.kind # "op"
  <2>1. Reply(j, <<view>>) BY <1>1, <1>7
  <2>2. down' = down \/ down' = Broadcast(<<view>>) BY <1>1, <1>7
  <2>3. down' = down \/ DownOK' BY <1>1, <1>5, <2>2, DownBroadcast DEF Inv
  <2>4. \A r \in replies' : r \in replies \/ ReplyOK(session.log, r)
    BY <1>2, <1>5, <2>1, ReplyStepOK
  <2>. QED BY <1>1, <2>3, <2>4, SameSession DEF Silent
<1>. QED BY <1>6, <1>7

LEMMA SyncStep ==
    ASSUME Inv, NEW j \in jobs, SyncSend(j)
    PROVE  Inv' /\ Silent
<1>. DEFINE items == OpItems(j.ses.log)
            view == SessionItem(session)
<1>1. /\ session' = session /\ jobs' = jobs \ {j} /\ replies' = replies /\ todo' = todo
      /\ latest' = latest /\ seen' = seen /\ j.at = "read" /\ j.req.kind = "sync"
      /\ down' = Broadcast(Append(items, view))
  BY DEF SyncSend, seqVars
<1>2. IsSeq(j.ses.log) /\ \A n \in DOMAIN j.ses.log : In(session.log, j.ses.log[n])
  BY <1>1 DEF Inv, JobsOK, JobOK
<1>3. GoodItems(session.log, items) BY <1>2, OpItemsGood
<1>4. GoodItem(session.log, view) BY OwnViewGood
<1>. HIDE DEF items, view
<1>5. GoodItems(session.log, Append(items, view))
  <2>1. IsSeq(items) /\ Len(items) \in Nat /\ DOMAIN items = 1..Len(items)
    BY <1>3, IsSeqDom DEF GoodItems
  <2>2. /\ IsSeq(Append(items, view)) /\ DOMAIN Append(items, view) = 1..(Len(items) + 1)
        /\ \A i \in 1..Len(items) : Append(items, view)[i] = items[i]
        /\ Append(items, view)[Len(items) + 1] = view
    BY <2>1, AppendIsSeq
  <2>3. ASSUME NEW n \in 1..(Len(items) + 1)
        PROVE  GoodItem(session.log, Append(items, view)[n])
    <3>1. CASE n \in 1..Len(items) BY <1>3, <2>1, <2>2, <3>1 DEF GoodItems
    <3>2. CASE n = Len(items) + 1 BY <1>4, <2>2, <3>2
    <3>. QED BY <2>1, <3>1, <3>2
  <2>. QED BY <2>2, <2>3 DEF GoodItems
<1>6. DownOK' BY <1>1, <1>5, DownBroadcast DEF Inv
<1>. QED BY <1>1, <1>6, SameSession DEF Silent

LEMMA GetStep ==
    ASSUME Inv, NEW j \in jobs, AnswerGet(j)
    PROVE  Inv' /\ Silent
<1>. DEFINE ops == OpItems(OpsAfter(session, j.req.after))
            view == SessionItem(session)
<1>1. /\ session' = session /\ jobs' = jobs \ {j} /\ down' = down /\ todo' = todo
      /\ latest' = latest /\ seen' = seen
      /\ Reply(j, IF j.req.kind = "ops" THEN ops ELSE <<view>>)
  BY DEF AnswerGet, seqVars, wireVars
<1>2. j.tab \in Tabs BY DEF Inv, JobsOK, JobOK
<1>3. GoodItems(session.log, ops) BY OpsAfterIn, OpItemsGood DEF Inv
<1>4. GoodItem(session.log, view) BY OwnViewGood
<1>5. GoodItems(session.log, <<view>>) BY <1>4, OneItemGood
<1>. HIDE DEF ops, view
<1>6. \A r \in replies' : r \in replies \/ ReplyOK(session.log, r)
  <2>1. CASE j.req.kind = "ops"
    <3>1. Reply(j, ops) BY <1>1, <2>1
    <3>. QED BY <1>2, <1>3, <3>1, ReplyStepOK
  <2>2. CASE j.req.kind # "ops"
    <3>1. Reply(j, <<view>>) BY <1>1, <2>2
    <3>. QED BY <1>2, <1>5, <3>1, ReplyStepOK
  <2>. QED BY <2>1, <2>2
<1>. QED BY <1>1, <1>6, SameSession DEF Silent

\* What a writer saves: the log it read, with at most one op more.
LEMMA OutcomeLog ==
    ASSUME NEW j, IsSeq(j.ses.log), j.ses.version \in Nat,
           \A n \in DOMAIN j.ses.log : j.ses.log[n].seq = n
    PROVE  LET s == Outcome(j) IN
           /\ s.version = j.ses.version + 1
           /\ IsSeq(s.log) /\ Extends(s.log, j.ses.log)
           /\ \A n \in DOMAIN s.log : s.log[n].seq = n
           /\ s.log = j.ses.log \/ Len(s.log) = Len(j.ses.log) + 1
           /\ j.req.kind = "op" => In(s.log, Last(s.log))
<1>. DEFINE log == j.ses.log
            u == UserOf[j.tab]
            e == Op(Len(log) + 1, u, j.req.cid, j.req.type, BodyOf(j.ses, j.req))
<1>0. Len(log) \in Nat /\ DOMAIN log = 1..Len(log) BY IsSeqDom
<1>1. CASE j.req.kind \in {"heartbeat", "join"}
  <2>1. Outcome(j).log = log /\ Outcome(j).version = j.ses.version + 1
    BY <1>1 DEF Outcome, Beaten, Joined, MkSession
  <2>2. Extends(log, log) BY <1>0 DEF Extends
  <2>. QED BY <1>1, <2>1, <2>2
<1>2. CASE j.req.kind \notin {"heartbeat", "join"}
  <2>1. Outcome(j).log = Append(log, e) /\ Outcome(j).version = j.ses.version + 1
    BY <1>2 DEF Outcome, Applied, MkSession
  <2>2. e.seq = Len(log) + 1 BY DEF Op
  <2>. HIDE DEF e
  <2>3. /\ IsSeq(Append(log, e)) /\ Len(Append(log, e)) = Len(log) + 1
        /\ DOMAIN Append(log, e) = 1..(Len(log) + 1)
        /\ \A i \in 1..Len(log) : Append(log, e)[i] = log[i]
        /\ Append(log, e)[Len(log) + 1] = e
    BY AppendIsSeq
  <2>4. Extends(Append(log, e), log) BY <1>0, <2>3 DEF Extends
  <2>5. ASSUME NEW n \in 1..(Len(log) + 1) PROVE Append(log, e)[n].seq = n
    <3>1. CASE n \in 1..Len(log) BY <1>0, <2>3, <3>1
    <3>2. CASE n = Len(log) + 1 BY <2>2, <2>3, <3>2
    <3>. QED BY <1>0, <3>1, <3>2
  <2>6. Last(Append(log, e)) = e BY <2>3, LastOf
  <2>7. In(Append(log, e), e) BY <1>0, <2>2, <2>3 DEF In
  <2>. QED BY <2>1, <2>3, <2>4, <2>5, <2>6, <2>7
<1>. QED BY <1>1, <1>2

\* A writer's copy is saved over the version it read: the log grows.
LEMMA CommitStep ==
    ASSUME Inv, NEW j \in jobs, j.at = "read", j.req.kind \in Writes,
           session.version = j.ses.version, session' = Outcome(j),
           jobs' = (jobs \ {j}) \cup {Turned(j, "saved", Outcome(j), j.tries)},
           replies' = replies, down' = down, todo' = todo, latest' = latest, seen' = seen
    PROVE  Inv' /\ (session'.log = session.log \/ Log!Commit)
<1>1. j.tab \in Tabs /\ j.ses.version \in Nat /\ j.ses.log = session.log
  BY DEF Inv, JobsOK, JobOK
<1>2. IsSeq(session.log) /\ \A n \in DOMAIN session.log : session.log[n].seq = n
  BY DEF Inv, LogOK
<1>3. /\ session'.version = session.version + 1 /\ IsSeq(session'.log)
      /\ Extends(session'.log, session.log)
      /\ \A n \in DOMAIN session'.log : session'.log[n].seq = n
      /\ session'.log = session.log \/ Len(session'.log) = Len(session.log) + 1
      /\ j.req.kind = "op" => In(session'.log, Last(session'.log))
  BY <1>1, <1>2, OutcomeLog
<1>4. LogOK' BY <1>1, <1>3 DEF LogOK
<1>5. JobsOK'
  <2>. DEFINE new == Turned(j, "saved", Outcome(j), j.tries)
  <2>1. JobOK(session', new)
    <3>1. /\ new.tab = j.tab /\ new.at = "saved" /\ new.req = j.req
          /\ new.ses = session'
      BY DEF Turned, MkJob
    <3>. HIDE DEF new
    <3>2. Len(session'.log) <= Len(session'.log) BY <1>3 DEF Extends
    <3>. QED BY <1>1, <1>3, <3>1, <3>2 DEF JobOK
  <2>2. ASSUME NEW k \in jobs PROVE JobOK(session', k)
    <3>1. JobOK(session, k) BY DEF Inv, JobsOK
    <3>2. session.version \in Nat /\ session'.version = session.version + 1
      BY <1>3 DEF Inv, LogOK
    <3>3. k.at = "read" /\ k.req.kind \in Writes =>
            /\ k.ses.version \in Nat /\ k.ses.version <= session'.version
            /\ k.ses.version # session'.version
      BY <3>1, <3>2 DEF JobOK
    <3>4. k.at = "saved" => Len(k.ses.log) <= Len(session'.log)
      <4>1. k.at = "saved" => Len(k.ses.log) \in Nat /\ Len(k.ses.log) <= Len(session.log)
        BY <3>1, IsSeqDom DEF JobOK
      <4>. QED BY <1>3, <4>1 DEF Extends
    <3>. QED BY <1>3, <3>1, <3>3, <3>4, InMono DEF JobOK
  <2>. QED BY <2>1, <2>2 DEF JobsOK
<1>6. RepliesOK' BY <1>3, ItemsMono DEF Inv, RepliesOK, ReplyOK
<1>7. DownOK' BY <1>3, FramesMono DEF Inv, DownOK
<1>8. TodoOK' BY <1>3, ItemMono DEF Inv, TodoOK
<1>9. SeenOK' BY <1>3 DEF Inv, SeenOK, Extends
<1>10. session'.log = session.log \/ Log!Commit BY <1>3 DEF Log!Commit, Extends
<1>. QED BY <1>4, <1>5, <1>6, <1>7, <1>8, <1>9, <1>10 DEF Inv

LEMMA SaveStep ==
    ASSUME Inv, NEW j \in jobs, SaveSession(j)
    PROVE  Inv' /\ seen' = seen /\ (session'.log = session.log \/ Log!Commit)
<1>0. /\ down' = down /\ todo' = todo /\ latest' = latest /\ seen' = seen
      /\ j.at = "read" /\ j.req.kind \in Writes
  BY DEF SaveSession, wireVars, seqVars
<1>1. j.tab \in Tabs BY DEF Inv, JobsOK, JobOK
<1>2. CASE session.version = j.ses.version
  <2>1. /\ session' = Outcome(j) /\ replies' = replies
        /\ jobs' = (jobs \ {j}) \cup {Turned(j, "saved", Outcome(j), j.tries)}
    BY <1>2 DEF SaveSession
  <2>. QED BY <1>0, <1>2, <2>1, CommitStep
<1>3. CASE session.version # j.ses.version
  <2>1. session' = session BY <1>3 DEF SaveSession
  <2>2. \/ jobs' = (jobs \ {j}) \cup {Turned(j, "new", Copy(<<>>), j.tries + 1)}
             /\ replies' = replies
        \/ jobs' = jobs \ {j} /\ Refuse(j, "conflict")
    BY <1>3 DEF SaveSession
  <2>3. JobOK(session, Turned(j, "new", Copy(<<>>), j.tries + 1))
    BY <1>1 DEF JobOK, Turned, MkJob
  <2>4. \A k \in jobs' : k \in jobs \/ JobOK(session, k) BY <2>2, <2>3
  <2>5. \A r \in replies' :
          \/ r \in replies
          \/ r = MkReply(j.tab, j.req, FALSE, <<ErrorItem("conflict", 0)>>)
    BY <2>2 DEF Refuse
  <2>6. ReplyOK(session.log, MkReply(j.tab, j.req, FALSE, <<ErrorItem("conflict", 0)>>))
    BY <1>1, FailureOK
  <2>. QED BY <1>0, <2>1, <2>4, <2>5, <2>6, SameSession
<1>. QED BY <1>2, <1>3
LEMMA AbortStep ==
    ASSUME Inv, NEW j \in jobs, AbortFrame(j)
    PROVE  Inv' /\ Silent
<1>1. /\ session' = session /\ latest' = latest /\ seen' = seen /\ todo' = todo
      /\ down' = down /\ replies' = replies /\ jobs' = jobs \ {j}
  BY DEF AbortFrame, wireVars, seqVars
<1>. QED BY <1>1, SameSession DEF Silent

-----------------------------------------------------------------------------
\* The step relation of CollabLog, allowing a stutter.
LogStep == [Log!Next]_<<session.log, seen>>

\* Every step of the room keeps the invariant and is a step of CollabLog.
LEMMA NextInv == Inv /\ [Next]_vars => Inv' /\ LogStep
<1>. SUFFICES ASSUME Inv, [Next]_vars PROVE Inv' /\ LogStep OBVIOUS
<1>0. Silent => LogStep BY DEF Silent, LogStep
<1>1. ASSUME NEW c \in Tabs, TakeWrite(c) \/ TakeSync(c) PROVE Inv' /\ LogStep
  BY <1>0, <1>1, TakeStep
<1>2. ASSUME NEW j \in jobs, ReadSession(j) PROVE Inv' /\ LogStep
  <2>1. j.tab \in Tabs BY DEF Inv, JobsOK, JobOK
  <2>2. ReadFor(j, jobs \ {j}) BY <1>2 DEF ReadSession
  <2>. QED BY <1>0, <2>1, <2>2, ReadStep
<1>3. ASSUME NEW j \in jobs, SaveSession(j) PROVE Inv' /\ LogStep
  <2>1. Inv' /\ seen' = seen /\ (session'.log = session.log \/ Log!Commit) BY <1>3, SaveStep
  <2>. QED BY <2>1 DEF LogStep, Log!Next
<1>4. ASSUME NEW j \in jobs,
             RefuseOp(j) \/ Publish(j) \/ SyncSend(j) \/ AnswerGet(j) \/ AbortFrame(j)
      PROVE  Inv' /\ LogStep
  BY <1>0, <1>4, RefuseStep, PublishStep, SyncStep, GetStep, AbortStep
<1>5. CASE Backend BY <1>1, <1>2, <1>3, <1>4, <1>5 DEF Backend
<1>6. CASE Handler
  <2>1. CASE StepOp
    <3>1. Inv' /\ (Silent \/ \E c \in Tabs : Log!Deliver(c)) BY <2>1, OpStep
    <3>. QED BY <1>0, <3>1 DEF LogStep, Log!Next
  <2>2. CASE StepSession \/ StepError BY <1>0, <2>2, ViewStep
  <2>3. CASE \E r \in replies : Answer(r) \/ AnswerFailed(r) BY <1>0, <2>3, AnswerStep
  <2>. QED BY <1>6, <2>1, <2>2, <2>3 DEF Handler
<1>7. ASSUME NEW c \in Tabs, Client(c) PROVE Inv' /\ LogStep
  <2>1. CASE Receive(c) BY <1>0, <2>1, ReceiveStep
  <2>2. CASE Drop(c) \/ Stop(c) \/ LoseHttp(c) BY <1>0, <2>2, FaultStep
  <2>3. CASE \/ Start(c) \/ Edit(c) \/ FullSync(c) \/ FormatRetry(c)
             \/ MoveCaret(c) \/ ReleaseLock(c) \/ FlushPresence(c)
             \/ Open(c) \/ Poll(c)
    BY <1>0, <2>3, TabStep
  <2>. QED BY <1>7, <2>1, <2>2, <2>3 DEF Client
<1>8. CASE UNCHANGED vars
  <2>1. /\ session' = session /\ jobs' = jobs /\ replies' = replies /\ down' = down
        /\ todo' = todo /\ latest' = latest /\ seen' = seen
    BY <1>8 DEF vars, serverVars, wireVars, seqVars
  <2>. QED BY <1>0, <2>1, SameSession DEF Silent
<1>. QED BY <1>5, <1>6, <1>7, <1>8 DEF Next

\* The room implements CollabLog: save_cas lets the log only grow, one op at a
\* time, and ingestOp hands every editor a subsequence of it without its own
\* user's ops, for any tabs, users, ring length, retries and scenario.
THEOREM RoomImplementsLog == Spec => LogSpec
<1>1. Init => Log!Init BY DEF Init, Log!Init, MkSession
<1>. QED BY <1>1, InitInv, NextInv, PTL DEF Spec, LogSpec, Log!Spec, LogStep
-----------------------------------------------------------------------------
(* Requests: no base ahead of the log, no op in two places *)

LEMMA ConcatIsSeq ==
    ASSUME NEW s, NEW t, IsSeq(s), IsSeq(t)
    PROVE  /\ IsSeq(s \o t) /\ Len(s \o t) = Len(s) + Len(t)
           /\ Len(s) \in Nat /\ Len(t) \in Nat
           /\ DOMAIN (s \o t) = 1..(Len(s) + Len(t))
           /\ \A i \in 1..Len(s) : (s \o t)[i] = s[i]
           /\ \A i \in (Len(s) + 1)..(Len(s) + Len(t)) : (s \o t)[i] = t[i - Len(s)]
<1>. DEFINE R == {s[i] : i \in DOMAIN s} \cup {t[i] : i \in DOMAIN t}
<1>1. Len(s) \in Nat /\ DOMAIN s = 1..Len(s) /\ Len(t) \in Nat /\ DOMAIN t = 1..Len(t)
  BY IsSeqDom
<1>2. s \in Seq(R) /\ t \in Seq(R)
  <2>1. s \in [1..Len(s) -> R] BY <1>1 DEF IsSeq
  <2>2. t \in [1..Len(t) -> R] BY <1>1 DEF IsSeq
  <2>. QED BY <1>1, <2>1, <2>2
<1>. HIDE DEF R
<1>3. s \o t \in Seq(R) /\ Len(s \o t) = Len(s) + Len(t) BY <1>2
<1>4. IsSeq(s \o t) /\ DOMAIN (s \o t) = 1..(Len(s) + Len(t)) BY <1>3, SeqIsSeq
<1>5. \A i \in 1..Len(s) : (s \o t)[i] = s[i] BY <1>1, <1>2
<1>6. \A i \in (Len(s) + 1)..(Len(s) + Len(t)) : (s \o t)[i] = t[i - Len(s)] BY <1>1, <1>2
<1>. QED BY <1>1, <1>3, <1>4, <1>5, <1>6

GoodReq(len, ids, req) == req.kind = "op" => req.base \in 0..len /\ req.cid \in 1..ids

\* A pending op that may be sent again was reported as failed.
GoodPending(len, ids, lost, p) ==
    /\ p.base \in 0..len /\ p.cid \in 1..ids
    /\ p.inFlight \in BOOLEAN /\ (~p.inFlight => p.cid \in lost)

LogCidsOK == made \in Nat /\ \A n \in DOMAIN session.log : session.log[n].cid \in 1..made

UpOK == /\ up = [c \in Tabs |-> up[c]]
        /\ \A c \in Tabs : /\ IsSeq(up[c])
                           /\ \A n \in DOMAIN up[c] :
                                GoodReq(Len(session.log), made, up[c][n])

JobReqsOK == \A j \in jobs : GoodReq(Len(session.log), made, j.req)

PendingOK == /\ pending = [c \in Tabs |-> pending[c]]
             /\ \A c \in Tabs : /\ IsSeq(pending[c])
                                /\ \A n \in DOMAIN pending[c] :
                                     GoodPending(Len(session.log), made, failed, pending[c][n])

\* Where the op with id x is on its way: a frame of a socket, a request that
\* has not been saved, an entry of the log.
Carries(req, x) == req.kind = "op" /\ req.cid = x
UpAt(u, x, c, n) == c \in Tabs /\ n \in DOMAIN u[c] /\ Carries(u[c][n], x)
JobAt(J, x, j) == j \in J /\ j.at # "saved" /\ Carries(j.req, x)
LogAt(l, x, n) == n \in DOMAIN l /\ l[n].cid = x

OnePlace(u, J, l, x) ==
    /\ \A c, d, m, n : UpAt(u, x, c, m) /\ UpAt(u, x, d, n) => c = d /\ m = n
    /\ \A i, j : JobAt(J, x, i) /\ JobAt(J, x, j) => i = j
    /\ \A m, n : LogAt(l, x, m) /\ LogAt(l, x, n) => m = n
    /\ \A c, n, j : ~(UpAt(u, x, c, n) /\ JobAt(J, x, j))
    /\ \A c, m, n : ~(UpAt(u, x, c, m) /\ LogAt(l, x, n))
    /\ \A j, n : ~(JobAt(J, x, j) /\ LogAt(l, x, n))

PlacesOK == \A x : x \notin failed => OnePlace(up, jobs, session.log, x)

Traffic == LogCidsOK /\ UpOK /\ JobReqsOK /\ PendingOK /\ PlacesOK
-----------------------------------------------------------------------------
(* How an op moves *)

LEMMA FewerPlaces ==
    ASSUME NEW u, NEW J, NEW l, NEW v, NEW K, NEW k, NEW x, OnePlace(u, J, l, x),
           \A c, n : UpAt(v, x, c, n) => UpAt(u, x, c, n),
           \A j : JobAt(K, x, j) => JobAt(J, x, j),
           \A n : LogAt(k, x, n) => LogAt(l, x, n)
    PROVE  OnePlace(v, K, k, x)
BY DEF OnePlace

\* A frame leaves its socket and becomes a request.
LEMMA TakenPlace ==
    ASSUME NEW u, NEW J, NEW l, NEW v, NEW c \in Tabs, NEW j, NEW x, OnePlace(u, J, l, x),
           IsSeq(u[c]), u[c] # <<>>, v[c] = Tail(u[c]), \A d \in Tabs \ {c} : v[d] = u[d],
           j.req = u[c][1]
    PROVE  OnePlace(v, J \cup {j}, l, x)
<1>1. /\ Len(u[c]) \in Nat \ {0} /\ DOMAIN v[c] = 1..(Len(u[c]) - 1)
      /\ \A i \in 1..(Len(u[c]) - 1) : v[c][i] = u[c][i + 1]
  BY TailIsSeq
<1>2. DOMAIN u[c] = 1..Len(u[c]) BY IsSeqDom
<1>3. ASSUME NEW d, NEW n, UpAt(v, x, d, n)
      PROVE  IF d = c THEN UpAt(u, x, c, n + 1) /\ n \in Nat /\ n + 1 # 1 ELSE UpAt(u, x, d, n)
  <2>1. CASE d = c
    <3>1. n \in 1..(Len(u[c]) - 1) /\ Carries(v[c][n], x) BY <1>1, <1>3, <2>1 DEF UpAt
    <3>2. v[c][n] = u[c][n + 1] BY <1>1, <3>1
    <3>3. n \in Nat /\ n + 1 # 1 /\ n + 1 \in DOMAIN u[c] BY <1>1, <1>2, <3>1
    <3>. QED BY <2>1, <3>1, <3>2, <3>3 DEF UpAt
  <2>2. CASE d # c BY <1>3, <2>2 DEF UpAt
  <2>. QED BY <2>1, <2>2
<1>4. ASSUME NEW i, JobAt(J \cup {j}, x, i) PROVE JobAt(J, x, i) \/ (i = j /\ UpAt(u, x, c, 1))
  <2>1. CASE i \in J BY <1>4, <2>1 DEF JobAt
  <2>2. CASE i = j BY <1>1, <1>2, <1>4, <2>2 DEF JobAt, UpAt
  <2>. QED BY <1>4, <2>1, <2>2 DEF JobAt
<1>5. \A d, e, m, n : UpAt(v, x, d, m) /\ UpAt(v, x, e, n) => d = e /\ m = n
  <2>. SUFFICES ASSUME NEW d, NEW e, NEW m, NEW n, UpAt(v, x, d, m), UpAt(v, x, e, n)
                PROVE  d = e /\ m = n
    OBVIOUS
  <2>1. d = e BY <1>3 DEF OnePlace
  <2>2. CASE d = c
    <3>1. m \in Nat /\ n \in Nat /\ m + 1 = n + 1 BY <1>3, <2>1, <2>2 DEF OnePlace
    <3>. QED BY <2>1, <3>1
  <2>3. CASE d # c BY <1>3, <2>1, <2>3 DEF OnePlace
  <2>. QED BY <2>2, <2>3
<1>6. \A i, k : JobAt(J \cup {j}, x, i) /\ JobAt(J \cup {j}, x, k) => i = k
  BY <1>4 DEF OnePlace
<1>7. \A d, n, i : ~(UpAt(v, x, d, n) /\ JobAt(J \cup {j}, x, i))
  <2>. SUFFICES ASSUME NEW d, NEW n, NEW i, UpAt(v, x, d, n), JobAt(J \cup {j}, x, i)
                PROVE  FALSE
    OBVIOUS
  <2>1. PICK m : UpAt(u, x, d, m) /\ (d = c => m # 1) BY <1>3
  <2>. QED BY <1>4, <2>1 DEF OnePlace
<1>8. \A d, m, n : ~(UpAt(v, x, d, m) /\ LogAt(l, x, n)) BY <1>3 DEF OnePlace
<1>9. \A i, n : ~(JobAt(J \cup {j}, x, i) /\ LogAt(l, x, n)) BY <1>4 DEF OnePlace
<1>. QED BY <1>5, <1>6, <1>7, <1>8, <1>9 DEF OnePlace

\* A request goes on with another copy of the session.
LEMMA TurnedPlace ==
    ASSUME NEW u, NEW J, NEW l, NEW j \in J, NEW i, NEW x, OnePlace(u, J, l, x),
           j.at # "saved", i.req = j.req
    PROVE  OnePlace(u, (J \ {j}) \cup {i}, l, x)
<1>1. \A k : JobAt((J \ {j}) \cup {i}, x, k) =>
                (JobAt(J, x, k) /\ k # j) \/ (k = i /\ JobAt(J, x, j))
  BY DEF JobAt
<1>. QED BY <1>1 DEF OnePlace

\* A request is saved: its op is in the log.
LEMMA SavedPlace ==
    ASSUME NEW u, NEW J, NEW l, NEW j \in J, NEW i, NEW k, NEW x, OnePlace(u, J, l, x),
           j.at # "saved", i.at = "saved", j.req.kind = "op", IsSeq(l),
           k = Append(l, k[Len(l) + 1]), k[Len(l) + 1].cid = j.req.cid
    PROVE  OnePlace(u, (J \ {j}) \cup {i}, k, x)
<1>1. /\ Len(l) \in Nat /\ DOMAIN k = 1..(Len(l) + 1)
      /\ \A n \in 1..Len(l) : k[n] = l[n]
  BY AppendIsSeq, IsSeqDom
<1>2. DOMAIN l = 1..Len(l) BY IsSeqDom
<1>3. \A h : JobAt((J \ {j}) \cup {i}, x, h) => JobAt(J, x, h) /\ h # j BY DEF JobAt
<1>4. ASSUME NEW n, LogAt(k, x, n)
      PROVE  LogAt(l, x, n) \/ (n = Len(l) + 1 /\ JobAt(J, x, j))
  <2>1. n \in 1..(Len(l) + 1) /\ k[n].cid = x BY <1>1, <1>4 DEF LogAt
  <2>2. CASE n \in 1..Len(l) BY <1>1, <1>2, <2>1, <2>2 DEF LogAt
  <2>3. CASE n = Len(l) + 1 BY <2>1, <2>3 DEF JobAt, Carries
  <2>. QED BY <1>1, <2>1, <2>2, <2>3
<1>5. \A m, n : LogAt(k, x, m) /\ LogAt(k, x, n) => m = n BY <1>4 DEF OnePlace
<1>6. \A c, m, n : ~(UpAt(u, x, c, m) /\ LogAt(k, x, n)) BY <1>4 DEF OnePlace
<1>7. \A h, n : ~(JobAt((J \ {j}) \cup {i}, x, h) /\ LogAt(k, x, n)) BY <1>3, <1>4 DEF OnePlace
<1>8. \A c, n, h : ~(UpAt(u, x, c, n) /\ JobAt((J \ {j}) \cup {i}, x, h)) BY <1>3 DEF OnePlace
<1>9. \A g, h : JobAt((J \ {j}) \cup {i}, x, g) /\ JobAt((J \ {j}) \cup {i}, x, h) => g = h
  BY <1>3 DEF OnePlace
<1>. QED BY <1>5, <1>6, <1>7, <1>8, <1>9 DEF OnePlace

LEMMA InitTraffic == Init => Traffic
<1>. SUFFICES ASSUME Init PROVE Traffic OBVIOUS
<1>0. /\ session.log = <<>> /\ jobs = {} /\ made = 0
      /\ up = [c \in Tabs |-> <<>>] /\ pending = [c \in Tabs |-> <<>>]
  BY DEF Init, MkSession
<1>1. LogCidsOK BY <1>0, PairIsSeq DEF LogCidsOK
<1>2. UpOK BY <1>0, PairIsSeq DEF UpOK
<1>3. JobReqsOK BY <1>0 DEF JobReqsOK
<1>4. PendingOK BY <1>0, PairIsSeq DEF PendingOK
<1>5. PlacesOK
  <2>1. \A x, c, n : ~UpAt(up, x, c, n) BY <1>0, PairIsSeq DEF UpAt
  <2>2. \A x, j : ~JobAt(jobs, x, j) BY <1>0 DEF JobAt
  <2>3. \A x, n : ~LogAt(session.log, x, n) BY <1>0, PairIsSeq DEF LogAt
  <2>. QED BY <2>1, <2>2, <2>3 DEF PlacesOK, OnePlace
<1>. QED BY <1>1, <1>2, <1>3, <1>4, <1>5 DEF Traffic

\* What only grows.
Grows == /\ Len(session.log) \in Nat /\ Len(session'.log) \in Nat
         /\ Len(session.log) <= Len(session'.log)
         /\ made \in Nat /\ made' \in Nat /\ made <= made' /\ failed \subseteq failed'

LEMMA ReqMono ==
    ASSUME Grows, NEW req, GoodReq(Len(session.log), made, req)
    PROVE  GoodReq(Len(session'.log), made', req)
<1>1. 0..Len(session.log) \subseteq 0..Len(session'.log) /\ 1..made \subseteq 1..made'
  BY DEF Grows
<1>. QED BY <1>1 DEF GoodReq

LEMMA PendingMono ==
    ASSUME Grows, NEW p, GoodPending(Len(session.log), made, failed, p)
    PROVE  GoodPending(Len(session'.log), made', failed', p)
<1>1. 0..Len(session.log) \subseteq 0..Len(session'.log) /\ 1..made \subseteq 1..made'
  BY DEF Grows
<1>2. failed \subseteq failed' BY DEF Grows
<1>. QED BY <1>1, <1>2 DEF GoodPending

LEMMA UpSame ==
    ASSUME Grows, UpOK, up' = up
    PROVE  UpOK'
BY ReqMono DEF UpOK

LEMMA UpSet ==
    ASSUME Grows, UpOK, NEW c \in Tabs, NEW q, IsSeq(q), up' = [up EXCEPT ![c] = q],
           \A n \in DOMAIN q : GoodReq(Len(session'.log), made', q[n])
    PROVE  UpOK' /\ up'[c] = q /\ \A d \in Tabs \ {c} : up'[d] = up[d]
<1>1. up' = [d \in Tabs |-> IF d = c THEN q ELSE up[d]] BY DEF UpOK
<1>2. up'[c] = q /\ \A d \in Tabs \ {c} : up'[d] = up[d] BY <1>1
<1>3. ASSUME NEW d \in Tabs
      PROVE  /\ IsSeq(up'[d])
             /\ \A n \in DOMAIN up'[d] : GoodReq(Len(session'.log), made', up'[d][n])
  <2>1. CASE d = c BY <1>2, <2>1
  <2>2. CASE d # c BY <1>2, <2>2, ReqMono DEF UpOK
  <2>. QED BY <2>1, <2>2
<1>4. up' = [d \in Tabs |-> up'[d]] BY <1>1
<1>. QED BY <1>2, <1>3, <1>4 DEF UpOK

LEMMA PendingSame ==
    ASSUME Grows, PendingOK, pending' = pending
    PROVE  PendingOK'
BY PendingMono DEF PendingOK

LEMMA PendingSet ==
    ASSUME Grows, PendingOK, NEW c \in Tabs, NEW q, IsSeq(q), pending' = [pending EXCEPT ![c] = q],
           \A n \in DOMAIN q : GoodPending(Len(session'.log), made', failed', q[n])
    PROVE  PendingOK'
<1>1. pending' = [d \in Tabs |-> IF d = c THEN q ELSE pending[d]] BY DEF PendingOK
<1>3. ASSUME NEW d \in Tabs
      PROVE  /\ IsSeq(pending'[d])
             /\ \A n \in DOMAIN pending'[d] :
                  GoodPending(Len(session'.log), made', failed', pending'[d][n])
  <2>1. CASE d = c
    <3>1. pending'[d] = q BY <1>1, <2>1
    <3>. QED BY <3>1
  <2>2. CASE d # c
    <3>1. pending'[d] = pending[d] BY <1>1, <2>2
    <3>. QED BY <3>1, PendingMono DEF PendingOK
  <2>. QED BY <2>1, <2>2
<1>4. pending' = [d \in Tabs |-> pending'[d]] BY <1>1
<1>. QED BY <1>3, <1>4 DEF PendingOK

LEMMA JobReqsStep ==
    ASSUME Grows, JobReqsOK,
           \A j \in jobs' : \/ GoodReq(Len(session'.log), made', j.req)
                            \/ \E i \in jobs : j.req = i.req
    PROVE  JobReqsOK'
BY ReqMono DEF JobReqsOK

LEMMA SameLogGrows ==
    ASSUME Inv, Traffic, session'.log = session.log, made' \in {made, made + 1},
           failed \subseteq failed'
    PROVE  Grows
<1>1. Len(session.log) \in Nat BY IsSeqDom DEF Inv, LogOK
<1>2. made \in Nat BY DEF Traffic, LogCidsOK
<1>. QED BY <1>1, <1>2 DEF Grows

\* No op is sent, and none is saved.
UpCalm ==
    \/ up' = up
    \/ \E c \in Tabs : up' = [up EXCEPT ![c] = <<>>]
    \/ \E c \in Tabs : \E req : req.kind # "op" /\ up' = [up EXCEPT ![c] = Append(@, req)]

LEMMA CalmUp ==
    ASSUME Grows, UpOK, UpCalm
    PROVE  UpOK' /\ \A x, c, n : UpAt(up', x, c, n) => UpAt(up, x, c, n)
<1>1. CASE up' = up BY <1>1, UpSame
<1>2. ASSUME NEW c \in Tabs, up' = [up EXCEPT ![c] = <<>>]
      PROVE  UpOK' /\ \A x, d, n : UpAt(up', x, d, n) => UpAt(up, x, d, n)
  <2>1. IsSeq(<<>>) /\ DOMAIN <<>> = {} BY PairIsSeq
  <2>2. UpOK' /\ up'[c] = <<>> /\ \A d \in Tabs \ {c} : up'[d] = up[d] BY <1>2, <2>1, UpSet
  <2>. QED BY <2>1, <2>2 DEF UpAt
<1>3. ASSUME NEW c \in Tabs, NEW req, req.kind # "op", up' = [up EXCEPT ![c] = Append(@, req)]
      PROVE  UpOK' /\ \A x, d, n : UpAt(up', x, d, n) => UpAt(up, x, d, n)
  <2>. DEFINE q == Append(up[c], req)
  <2>0. /\ IsSeq(up[c])
        /\ \A n \in DOMAIN up[c] : GoodReq(Len(session'.log), made', up[c][n])
    BY ReqMono DEF UpOK
  <2>1. /\ IsSeq(q) /\ DOMAIN q = 1..(Len(up[c]) + 1)
        /\ \A i \in 1..Len(up[c]) : q[i] = up[c][i]
        /\ q[Len(up[c]) + 1] = req
    BY <2>0, AppendIsSeq
  <2>2. Len(up[c]) \in Nat /\ DOMAIN up[c] = 1..Len(up[c]) BY <2>0, IsSeqDom
  <2>3. up' = [up EXCEPT ![c] = q] BY <1>3
  <2>. HIDE DEF q
  <2>4. \A n \in DOMAIN q : \/ n \in DOMAIN up[c] /\ q[n] = up[c][n]
                            \/ q[n] = req
    BY <2>1, <2>2
  <2>5. \A n \in DOMAIN q : GoodReq(Len(session'.log), made', q[n])
    BY <1>3, <2>0, <2>4 DEF GoodReq
  <2>6. UpOK' /\ up'[c] = q /\ \A d \in Tabs \ {c} : up'[d] = up[d] BY <2>1, <2>3, <2>5, UpSet
  <2>7. ASSUME NEW x, NEW d, NEW n, UpAt(up', x, d, n) PROVE UpAt(up, x, d, n)
    <3>1. CASE d = c BY <1>3, <2>4, <2>6, <2>7, <3>1 DEF UpAt, Carries
    <3>2. CASE d # c BY <2>6, <2>7, <3>2 DEF UpAt
    <3>. QED BY <3>1, <3>2
  <2>. QED BY <2>6, <2>7
<1>. QED BY <1>1, <1>2, <1>3 DEF UpCalm

LEMMA CalmStep ==
    ASSUME Inv, Traffic, session'.log = session.log, made' = made, failed \subseteq failed',
           UpCalm, \A j \in jobs' : j \in jobs \/ j.req.kind # "op",
           pending' = pending \/ PendingOK'
    PROVE  Traffic'
<1>1. Grows BY SameLogGrows
<1>2. LogCidsOK' BY DEF Traffic, LogCidsOK
<1>3. UpOK' /\ \A x, c, n : UpAt(up', x, c, n) => UpAt(up, x, c, n) BY <1>1, CalmUp DEF Traffic
<1>4. JobReqsOK' BY <1>1, JobReqsStep DEF Traffic, GoodReq
<1>5. PendingOK' BY <1>1, PendingSame DEF Traffic
<1>6. ASSUME NEW x, x \notin failed' PROVE OnePlace(up', jobs', session'.log, x)
  <2>1. OnePlace(up, jobs, session.log, x) BY <1>6 DEF Traffic, PlacesOK
  <2>2. \A j : JobAt(jobs', x, j) => JobAt(jobs, x, j) BY DEF JobAt, Carries
  <2>3. \A n : LogAt(session'.log, x, n) => LogAt(session.log, x, n) OBVIOUS
  <2>4. \A c, n : UpAt(up', x, c, n) => UpAt(up, x, c, n) BY <1>3
  <2>. QED BY <2>1, <2>2, <2>3, <2>4, FewerPlaces
<1>7. PlacesOK' BY <1>6 DEF PlacesOK
<1>. QED BY <1>2, <1>3, <1>4, <1>5, <1>7 DEF Traffic
-----------------------------------------------------------------------------
(* A tab submits an op *)

LEMMA SubmittedGood ==
    ASSUME Inv, Traffic, session'.log = session.log, made' = made + 1, failed' = failed,
           NEW c \in Tabs, NEW type, NEW body
    PROVE  LET p == Submitted(c, type, body) IN
           /\ GoodPending(Len(session'.log), made', failed', p)
           /\ GoodReq(Len(session'.log), made', OpFrame(p))
           /\ OpFrame(p).kind = "op" /\ OpFrame(p).cid = made + 1
<1>1. latest[c] \in 0..Len(session.log) /\ Len(session.log) \in Nat
  <2>1. latest[c] \in Nat /\ latest[c] <= Len(session.log) BY DEF Inv, SeenOK
  <2>2. Len(session.log) \in Nat BY IsSeqDom DEF Inv, LogOK
  <2>. QED BY <2>1, <2>2
<1>2. made + 1 \in 1..(made + 1) BY DEF Traffic, LogCidsOK
<1>. QED BY <1>1, <1>2 DEF Submitted, MkPending, GoodPending, OpFrame, GoodReq

LEMMA PendingAppended ==
    ASSUME Grows, PendingOK, NEW c \in Tabs, NEW p, pending' = [pending EXCEPT ![c] = Append(@, p)],
           GoodPending(Len(session'.log), made', failed', p)
    PROVE  PendingOK'
<1>. DEFINE q == Append(pending[c], p)
<1>0. /\ IsSeq(pending[c])
      /\ \A n \in DOMAIN pending[c] :
           GoodPending(Len(session'.log), made', failed', pending[c][n])
  BY PendingMono DEF PendingOK
<1>1. /\ IsSeq(q) /\ DOMAIN q = 1..(Len(pending[c]) + 1)
      /\ \A i \in 1..Len(pending[c]) : q[i] = pending[c][i]
      /\ q[Len(pending[c]) + 1] = p
  BY <1>0, AppendIsSeq
<1>2. Len(pending[c]) \in Nat /\ DOMAIN pending[c] = 1..Len(pending[c]) BY <1>0, IsSeqDom
<1>3. pending' = [pending EXCEPT ![c] = q] OBVIOUS
<1>. HIDE DEF q
<1>4. \A n \in DOMAIN q : (n \in DOMAIN pending[c] /\ q[n] = pending[c][n]) \/ q[n] = p
  BY <1>1, <1>2
<1>5. \A n \in DOMAIN q : GoodPending(Len(session'.log), made', failed', q[n]) BY <1>0, <1>4
<1>. QED BY <1>1, <1>3, <1>5, PendingSet

\* Before the op is made, no place holds its id.
LEMMA FreshId ==
    ASSUME Traffic
    PROVE  /\ \A c, n : ~UpAt(up, made + 1, c, n)
           /\ \A j : ~JobAt(jobs, made + 1, j)
           /\ \A n : ~LogAt(session.log, made + 1, n)
<1>1. made \in Nat /\ made + 1 \notin 1..made BY DEF Traffic, LogCidsOK
<1>2. \A c, n : ~UpAt(up, made + 1, c, n) BY <1>1 DEF Traffic, UpOK, UpAt, GoodReq, Carries
<1>3. \A j : ~JobAt(jobs, made + 1, j) BY <1>1 DEF Traffic, JobReqsOK, JobAt, GoodReq, Carries
<1>4. \A n : ~LogAt(session.log, made + 1, n) BY <1>1 DEF Traffic, LogCidsOK, LogAt
<1>. QED BY <1>2, <1>3, <1>4

\* The op goes out over the socket, possibly followed by a presence.
LEMMA SubmitUp ==
    ASSUME Inv, Traffic, session'.log = session.log, made' = made + 1, failed' = failed,
           NEW c \in Tabs, NEW type, NEW body, NEW q, IsSeq(q), jobs' = jobs,
           pending' = [pending EXCEPT ![c] = Append(@, Submitted(c, type, body))],
           up' = [up EXCEPT ![c] = q],
           \A n \in DOMAIN q :
               \/ n \in DOMAIN up[c] /\ q[n] = up[c][n]
               \/ n = Len(up[c]) + 1 /\ q[n] = OpFrame(Submitted(c, type, body))
               \/ q[n].kind # "op"
    PROVE  Traffic'
<1>. DEFINE p == Submitted(c, type, body)
<1>1. Grows BY SameLogGrows
<1>2. /\ GoodPending(Len(session'.log), made', failed', p)
      /\ GoodReq(Len(session'.log), made', OpFrame(p))
      /\ OpFrame(p).kind = "op" /\ OpFrame(p).cid = made + 1
  BY SubmittedGood
<1>. HIDE DEF p
<1>3. PendingOK' BY <1>1, <1>2, PendingAppended DEF Traffic, p
<1>4. LogCidsOK' BY DEF Traffic, LogCidsOK
<1>5. \A n \in DOMAIN q : GoodReq(Len(session'.log), made', q[n])
  <2>1. \A n \in DOMAIN up[c] : GoodReq(Len(session'.log), made', up[c][n])
    BY <1>1, ReqMono DEF Traffic, UpOK
  <2>2. \A n \in DOMAIN q : q[n].kind # "op" => GoodReq(Len(session'.log), made', q[n])
    BY DEF GoodReq
  <2>. QED BY <1>2, <2>1, <2>2 DEF p
<1>6. UpOK' /\ up'[c] = q /\ \A d \in Tabs \ {c} : up'[d] = up[d]
  BY <1>1, <1>5, UpSet DEF Traffic
<1>7. JobReqsOK' BY <1>1, JobReqsStep DEF Traffic
<1>8. ASSUME NEW x, NEW d, NEW n, UpAt(up', x, d, n)
      PROVE  UpAt(up, x, d, n) \/ (d = c /\ n = Len(up[c]) + 1 /\ x = made + 1)
  <2>1. CASE d # c BY <1>6, <1>8, <2>1 DEF UpAt
  <2>2. CASE d = c
    <3>1. n \in DOMAIN q /\ q[n].kind = "op" /\ q[n].cid = x
      BY <1>6, <1>8, <2>2 DEF UpAt, Carries
    <3>2. CASE n \in DOMAIN up[c] /\ q[n] = up[c][n]
      BY <1>8, <2>2, <3>1, <3>2 DEF UpAt, Carries
    <3>3. CASE n = Len(up[c]) + 1 /\ q[n] = OpFrame(p) BY <1>2, <2>2, <3>1, <3>3
    <3>. QED BY <3>1, <3>2, <3>3 DEF p
  <2>. QED BY <2>1, <2>2
<1>9. ASSUME NEW x, x \notin failed' PROVE OnePlace(up', jobs', session'.log, x)
  <2>1. CASE x = made + 1
    <3>1. \A j : ~JobAt(jobs', x, j) BY <2>1, FreshId
    <3>2. \A d, n : UpAt(up', x, d, n) => d = c /\ n = Len(up[c]) + 1 BY <1>8, <2>1, FreshId
    <3>3. \A n : ~LogAt(session'.log, x, n) BY <2>1, FreshId
    <3>. DEFINE v == up'
                J == jobs'
                l == session'.log
                N == Len(up[c]) + 1
    <3>4. /\ \A d, n : UpAt(v, x, d, n) => d = c /\ n = N
          /\ \A j : ~JobAt(J, x, j)
          /\ \A n : ~LogAt(l, x, n)
      BY <3>1, <3>2, <3>3
    <3>. HIDE DEF v, J, l, N
    <3>5. OnePlace(v, J, l, x) BY <3>4 DEF OnePlace
    <3>. QED BY <3>5 DEF v, J, l
  <2>2. CASE x # made + 1
    <3>1. OnePlace(up, jobs, session.log, x) BY <1>9 DEF Traffic, PlacesOK
    <3>2. \A d, n : UpAt(up', x, d, n) => UpAt(up, x, d, n) BY <1>8, <2>2
    <3>3. OnePlace(up', jobs, session.log, x) BY <3>1, <3>2, FewerPlaces
    <3>. QED BY <3>3
  <2>. QED BY <2>1, <2>2
<1>. QED BY <1>3, <1>4, <1>6, <1>7, <1>9 DEF Traffic, PlacesOK

\* The op goes out by POST, or stays with the tab.
LEMMA SubmitHttp ==
    ASSUME Inv, Traffic, session'.log = session.log, made' = made + 1, failed' = failed,
           NEW c \in Tabs, NEW type, NEW body, up' = up,
           pending' = [pending EXCEPT ![c] = Append(@, Submitted(c, type, body))],
           jobs' \subseteq jobs \cup {Http(c, OpFrame(Submitted(c, type, body)))}
    PROVE  Traffic'
<1>. DEFINE p == Submitted(c, type, body)
            h == Http(c, OpFrame(p))
<1>1. Grows BY SameLogGrows
<1>2. /\ GoodPending(Len(session'.log), made', failed', p)
      /\ GoodReq(Len(session'.log), made', OpFrame(p))
      /\ OpFrame(p).kind = "op" /\ OpFrame(p).cid = made + 1
  BY SubmittedGood
<1>. HIDE DEF p
<1>0. h.req = OpFrame(p) BY DEF Http, Job, MkJob
<1>. HIDE DEF h
<1>3. PendingOK' BY <1>1, <1>2, PendingAppended DEF Traffic, p
<1>4. LogCidsOK' BY DEF Traffic, LogCidsOK
<1>5. jobs' \subseteq jobs \cup {h} BY DEF p, h
<1>6. UpOK' BY <1>1, UpSame DEF Traffic
<1>7. JobReqsOK' BY <1>0, <1>1, <1>2, <1>5, JobReqsStep DEF Traffic
<1>8. \A x, j : JobAt(jobs', x, j) => JobAt(jobs, x, j) \/ (j = h /\ x = made + 1)
  BY <1>0, <1>2, <1>5 DEF JobAt, Carries
<1>9. ASSUME NEW x, x \notin failed' PROVE OnePlace(up', jobs', session'.log, x)
  <2>1. CASE x = made + 1
    <3>1. \A d, n : ~UpAt(up, x, d, n) BY <2>1, FreshId
    <3>2. \A j : JobAt(jobs', x, j) => j = h BY <1>8, <2>1, FreshId
    <3>3. \A n : ~LogAt(session'.log, x, n) BY <2>1, FreshId
    <3>. QED BY <3>1, <3>2, <3>3 DEF OnePlace
  <2>2. CASE x # made + 1
    <3>1. OnePlace(up, jobs, session.log, x) BY <1>9 DEF Traffic, PlacesOK
    <3>2. \A j : JobAt(jobs', x, j) => JobAt(jobs, x, j) BY <1>8, <2>2
    <3>3. OnePlace(up, jobs', session.log, x) BY <3>1, <3>2, FewerPlaces
    <3>. QED BY <3>3
  <2>. QED BY <2>1, <2>2
<1>. QED BY <1>3, <1>4, <1>6, <1>7, <1>9 DEF Traffic, PlacesOK

\* One frame behind the ones already in the socket.
LEMMA OneMore ==
    ASSUME NEW u, IsSeq(u), NEW f
    PROVE  /\ IsSeq(u \o <<f>>)
           /\ \A n \in DOMAIN (u \o <<f>>) :
                \/ n \in DOMAIN u /\ (u \o <<f>>)[n] = u[n]
                \/ n = Len(u) + 1 /\ (u \o <<f>>)[n] = f
<1>. DEFINE q == u \o <<f>>
<1>0. IsSeq(<<f>>) /\ Len(<<f>>) = 1 /\ <<f>>[1] = f BY PairIsSeq
<1>1. Len(u) \in Nat /\ DOMAIN u = 1..Len(u) BY IsSeqDom
<1>2. /\ IsSeq(q) /\ Len(q) = Len(u) + 1 /\ DOMAIN q = 1..(Len(u) + 1)
      /\ \A i \in 1..Len(u) : q[i] = u[i]
      /\ \A i \in (Len(u) + 1)..(Len(u) + 1) : q[i] = <<f>>[i - Len(u)]
  BY <1>0, ConcatIsSeq
<1>3. q[Len(u) + 1] = f
  <2>1. q[Len(u) + 1] = <<f>>[(Len(u) + 1) - Len(u)] BY <1>1, <1>2
  <2>2. (Len(u) + 1) - Len(u) = 1 BY <1>1
  <2>. QED BY <1>0, <2>1, <2>2
<1>. HIDE DEF q
<1>6. ASSUME NEW n \in DOMAIN q
      PROVE  (n \in DOMAIN u /\ q[n] = u[n]) \/ (n = Len(u) + 1 /\ q[n] = f)
  BY <1>1, <1>2, <1>3
<1>. QED BY <1>2, <1>6 DEF q

\* The set of requests of a one-element sequence.
LEMMA OneHttp ==
    ASSUME NEW c, NEW f
    PROVE  {Http(c, <<f>>[n]) : n \in DOMAIN <<f>>} = {Http(c, f)}
<1>1. DOMAIN <<f>> = {1} /\ <<f>>[1] = f BY PairIsSeq
<1>. QED BY <1>1

LEMMA SubmitStep ==
    ASSUME Inv, Traffic, session' = session, failed' = failed, NEW c \in Tabs,
           NEW type, NEW body, SubmitOp(c, type, body)
    PROVE  Traffic'
<1>. DEFINE p == Submitted(c, type, body)
            f == OpFrame(p)
<1>1. /\ made' = made + 1 /\ pending' = [pending EXCEPT ![c] = Append(@, p)]
      /\ Sends(c, <<f>>)
  BY DEF SubmitOp
<1>2. CASE conn[c] = "open"
  <2>1. up' = [up EXCEPT ![c] = up[c] \o <<f>>] /\ jobs' = jobs BY <1>1, <1>2 DEF Sends
  <2>2. IsSeq(up[c]) BY DEF Traffic, UpOK
  <2>. DEFINE q == up[c] \o <<f>>
  <2>3. /\ IsSeq(q)
        /\ \A n \in DOMAIN q : \/ n \in DOMAIN up[c] /\ q[n] = up[c][n]
                               \/ n = Len(up[c]) + 1 /\ q[n] = f
    BY <2>2, OneMore
  <2>4. up' = [up EXCEPT ![c] = q] BY <2>1
  <2>. HIDE DEF q
  <2>. QED BY <1>1, <2>1, <2>3, <2>4, SubmitUp
<1>3. CASE conn[c] # "open"
  <2>1. up' = up /\ jobs' \subseteq jobs \cup {Http(c, f)} BY <1>1, <1>3, OneHttp DEF Sends
  <2>. QED BY <1>1, <2>1, SubmitHttp
<1>. QED BY <1>2, <1>3

\* updatePresence behind the op of the same handler.
LEMMA PresentOpStep ==
    ASSUME Inv, Traffic, session' = session, failed' = failed, made' = made + 1, NEW c \in Tabs,
           NEW type, NEW body, NEW lk, Presents(c, lk, <<OpFrame(Submitted(c, type, body))>>),
           pending' = [pending EXCEPT ![c] = Append(@, Submitted(c, type, body))]
    PROVE  Traffic'
<1>. DEFINE f == OpFrame(Submitted(c, type, body))
            b == Beat(Merged(c, lk))
<1>2. CASE conn[c] = "open"
  <2>1. up' = [up EXCEPT ![c] = up[c] \o <<f>> \o <<b>>] /\ jobs' = jobs
    BY <1>2 DEF Presents
  <2>2. IsSeq(up[c]) BY DEF Traffic, UpOK
  <2>3. b.kind # "op" BY DEF Beat
  <2>. DEFINE q == up[c] \o <<f>> \o <<b>>
  <2>. HIDE DEF f, b
  <2>4. /\ IsSeq(q)
        /\ \A n \in DOMAIN q : \/ n \in DOMAIN up[c] /\ q[n] = up[c][n]
                               \/ n = Len(up[c]) + 1 /\ q[n] = f
                               \/ q[n].kind # "op"
    <3>. DEFINE r == up[c] \o <<f>>
    <3>1. /\ IsSeq(r)
          /\ \A n \in DOMAIN r : \/ n \in DOMAIN up[c] /\ r[n] = up[c][n]
                                 \/ n = Len(up[c]) + 1 /\ r[n] = f
      BY <2>2, OneMore
    <3>. HIDE DEF r
    <3>2. /\ IsSeq(r \o <<b>>)
          /\ \A n \in DOMAIN (r \o <<b>>) :
               \/ n \in DOMAIN r /\ (r \o <<b>>)[n] = r[n]
               \/ n = Len(r) + 1 /\ (r \o <<b>>)[n] = b
      BY <3>1, OneMore
    <3>3. q = r \o <<b>> BY DEF r
    <3>. HIDE DEF q
    <3>4. /\ IsSeq(q)
          /\ \A n \in DOMAIN q : (n \in DOMAIN r /\ q[n] = r[n]) \/ q[n] = b
      BY <3>2, <3>3
    <3>. QED BY <2>3, <3>1, <3>4
  <2>5. up' = [up EXCEPT ![c] = q] BY <2>1
  <2>. HIDE DEF q
  <2>. QED BY <2>1, <2>4, <2>5, SubmitUp DEF f
<1>3. CASE conn[c] # "open"
  <2>1. up' = up /\ jobs' \subseteq jobs \cup {Http(c, f)} BY <1>3, OneHttp DEF Presents
  <2>. QED BY <2>1, SubmitHttp
<1>. QED BY <1>2, <1>3
-----------------------------------------------------------------------------
(* What a handler does to the pending ops *)

\* Good entries only, whatever the bounds.
GoodQueue(len, ids, lost, ps) ==
    IsSeq(ps) /\ \A n \in DOMAIN ps : GoodPending(len, ids, lost, ps[n])

LEMMA WithoutGood ==
    ASSUME NEW len, NEW ids, NEW lost, NEW ps, GoodQueue(len, ids, lost, ps), NEW cid
    PROVE  GoodQueue(len, ids, lost, Without(ps, cid))
<1>. DEFINE T == {n \in DOMAIN ps : ps[n].cid # cid}
<1>1. Without(ps, cid) = Kept(ps, T) BY DEF Without
<1>. HIDE DEF T
<1>2. /\ IsSeq(Kept(ps, T))
      /\ \A k \in DOMAIN Kept(ps, T) : \E n \in DOMAIN ps : n \in T /\ Kept(ps, T)[k] = ps[n]
  BY KeptOf DEF GoodQueue
<1>. QED BY <1>1, <1>2 DEF GoodQueue

LEMMA ThroughGood ==
    ASSUME NEW len \in Nat, NEW ids, NEW lost, NEW ps, GoodQueue(len, ids, lost, ps),
           NEW op, op.seq \in 1..len
    PROVE  GoodQueue(len, ids, lost, Through(ps, op))
<1>. DEFINE q == Through(ps, op)
<1>1. Len(ps) \in Nat /\ DOMAIN ps = 1..Len(ps) BY IsSeqDom DEF GoodQueue
<1>2. q = [i \in 1..Len(ps) |-> q[i]] BY <1>1 DEF Through
<1>3. IsSeq(q) /\ DOMAIN q = DOMAIN ps BY <1>1, <1>2, FunIsSeq
<1>4. ASSUME NEW n \in DOMAIN ps PROVE GoodPending(len, ids, lost, q[n])
  <2>0. GoodPending(len, ids, lost, ps[n]) BY DEF GoodQueue
  <2>. DEFINE b == TransformReplace(ps[n].body, op.body)
              a == IF ps[n].inFlight THEN ps[n].base ELSE Larger(ps[n].base, op.seq)
  <2>1. q[n] = ps[n] \/ q[n] = MkPending(ps[n].cid, a, ps[n].type, b, ps[n].inFlight)
    BY DEF Through
  <2>. HIDE DEF b
  <2>2. a \in 0..len
    <3>1. ps[n].base \in Nat /\ ps[n].base <= len /\ op.seq \in Nat /\ op.seq <= len
      BY <2>0 DEF GoodPending
    <3>. QED BY <3>1 DEF Larger
  <2>. HIDE DEF a
  <2>. QED BY <2>0, <2>1, <2>2 DEF GoodPending, MkPending
<1>. QED BY <1>3, <1>4 DEF GoodQueue

LEMMA UnsentGood ==
    ASSUME NEW len, NEW ids, NEW lost, NEW ps, GoodQueue(len, ids, lost, ps),
           NEW cid, NEW gone, lost \subseteq gone, cid \in gone
    PROVE  GoodQueue(len, ids, gone, Unsent(ps, cid))
<1>. DEFINE q == Unsent(ps, cid)
<1>1. Len(ps) \in Nat /\ DOMAIN ps = 1..Len(ps) BY IsSeqDom DEF GoodQueue
<1>2. q = [i \in 1..Len(ps) |-> q[i]] BY <1>1 DEF Unsent
<1>3. IsSeq(q) /\ DOMAIN q = DOMAIN ps BY <1>1, <1>2, FunIsSeq
<1>4. ASSUME NEW n \in DOMAIN ps PROVE GoodPending(len, ids, gone, q[n])
  <2>0. GoodPending(len, ids, gone, ps[n]) BY DEF GoodQueue, GoodPending
  <2>1. \/ q[n] = ps[n]
        \/ q[n] = MkPending(cid, ps[n].base, ps[n].type, ps[n].body, FALSE) /\ ps[n].cid = cid
    BY DEF Unsent
  <2>. HIDE DEF q
  <2>2. CASE q[n] = ps[n] BY <2>0, <2>2
  <2>3. CASE q[n] # ps[n]
    <3>1. /\ q[n].base = ps[n].base /\ q[n].cid = cid /\ ps[n].cid = cid
          /\ q[n].inFlight = FALSE
      BY <2>1, <2>3 DEF MkPending
    <3>. QED BY <2>0, <3>1 DEF GoodPending
  <2>. QED BY <2>2, <2>3
<1>. QED BY <1>3, <1>4 DEF GoodQueue

LEMMA QueueOf ==
    ASSUME PendingOK, NEW c \in Tabs
    PROVE  GoodQueue(Len(session.log), made, failed, pending[c])
BY DEF PendingOK, GoodQueue

\* A queue that stays good under the same bounds.
LEMMA QueueSet ==
    ASSUME Inv, Traffic, session'.log = session.log, made' = made, failed \subseteq failed',
           NEW c \in Tabs, NEW q, GoodQueue(Len(session.log), made, failed', q),
           pending' = [pending EXCEPT ![c] = q]
    PROVE  PendingOK'
<1>1. Grows BY SameLogGrows
<1>. QED BY <1>1, PendingSet DEF Traffic, GoodQueue

LEMMA IngestTraffic ==
    ASSUME Inv, Traffic, StepOp
    PROVE  Traffic'
<1>. DEFINE c == Head(todo).tab
            it == Head(todo).item
            op == it.op
            rest == Without(pending[c], op.cid)
<1>1. /\ session' = session /\ jobs' = jobs /\ up' = up /\ made' = made /\ failed' = failed
      /\ todo # <<>> /\ it.k = "op"
      /\ IF Fresh(c, it) THEN IngestOp(c, it)
         ELSE UNCHANGED <<latest, pending, seen, lock, dom, refs, clash>>
  BY DEF StepOp, serverVars, wireVars, bounds
<1>2. c \in Tabs /\ GoodItem(session.log, it)
  <2>1. /\ Len(todo) \in Nat \ {0} /\ Head(todo) = todo[1] BY <1>1, TailIsSeq DEF Inv, TodoOK
  <2>2. DOMAIN todo = 1..Len(todo) BY IsSeqDom DEF Inv, TodoOK
  <2>. QED BY <2>1, <2>2 DEF Inv, TodoOK
<1>3. op.seq \in 1..Len(session.log) BY <1>1, <1>2 DEF GoodItem, In
<1>4. UpCalm BY <1>1 DEF UpCalm
<1>5. pending' = pending \/ PendingOK'
  <2>1. CASE ~Fresh(c, it) BY <1>1, <2>1
  <2>2. CASE Fresh(c, it)
    <3>1. \/ pending' = [pending EXCEPT ![c] = Through(rest, op)]
          \/ pending' = [pending EXCEPT ![c] = rest]
      BY <1>1, <2>2 DEF IngestOp
    <3>2. GoodQueue(Len(session.log), made, failed, pending[c]) BY <1>2, QueueOf DEF Traffic
    <3>3. GoodQueue(Len(session.log), made, failed, rest) BY <3>2, WithoutGood
    <3>4. Len(session.log) \in Nat BY IsSeqDom DEF Inv, LogOK
    <3>. HIDE DEF rest, op, it, c
    <3>5. GoodQueue(Len(session.log), made, failed, Through(rest, op))
      BY <1>3, <3>3, <3>4, ThroughGood
    <3>. QED BY <1>1, <1>2, <3>1, <3>3, <3>5, QueueSet
  <2>. QED BY <2>1, <2>2
<1>. QED BY <1>1, <1>4, <1>5, CalmStep

LEMMA ViewTraffic ==
    ASSUME Inv, Traffic, StepSession \/ StepError
    PROVE  Traffic'
<1>1. CASE StepSession
  <2>1. /\ session' = session /\ jobs' = jobs /\ up' = up /\ made' = made /\ failed' = failed
        /\ pending' = pending
    BY <1>1 DEF StepSession, serverVars, wireVars, bounds
  <2>. QED BY <2>1, CalmStep DEF UpCalm
<1>2. CASE StepError
  <2>. DEFINE c == Head(todo).tab
              it == Head(todo).item
              req == [kind |-> "sync", after |-> latest[c]]
              q == Without(pending[c], it.cid)
  <2>1. /\ session' = session /\ jobs' = jobs /\ made' = made /\ failed' = failed
        /\ up' = [up EXCEPT ![c] = Append(@, req)] /\ todo # <<>>
        /\ pending' = [pending EXCEPT ![c] = q]
    BY <1>2 DEF StepError, serverVars, bounds
  <2>2. c \in Tabs
    <3>1. /\ Len(todo) \in Nat \ {0} /\ Head(todo) = todo[1] BY <2>1, TailIsSeq DEF Inv, TodoOK
    <3>2. DOMAIN todo = 1..Len(todo) BY IsSeqDom DEF Inv, TodoOK
    <3>. QED BY <3>1, <3>2 DEF Inv, TodoOK
  <2>3. GoodQueue(Len(session.log), made, failed, q) BY <2>2, QueueOf, WithoutGood DEF Traffic
  <2>4. req.kind # "op" OBVIOUS
  <2>. HIDE DEF q, req, c
  <2>5. PendingOK' BY <2>1, <2>2, <2>3, QueueSet
  <2>6. UpCalm BY <2>1, <2>2, <2>4 DEF UpCalm
  <2>. QED BY <2>1, <2>5, <2>6, CalmStep
<1>. QED BY <1>1, <1>2

LEMMA AnswerTraffic ==
    ASSUME Inv, Traffic, NEW r \in replies, Answer(r) \/ AnswerFailed(r)
    PROVE  Traffic'
<1>0. r.tab \in Tabs BY DEF Inv, RepliesOK, ReplyOK
<1>1. CASE Answer(r)
  <2>1. /\ session' = session /\ jobs' = jobs /\ up' = up /\ made' = made /\ failed' = failed
        /\ pending' = pending
    BY <1>1 DEF Answer, bounds
  <2>. QED BY <2>1, CalmStep DEF UpCalm
<1>2. CASE AnswerFailed(r)
  <2>. DEFINE c == r.tab
              sync == [kind |-> "sync", after |-> latest[c]]
              ops == [kind |-> "ops", after |-> latest[c]]
              f == IF conn[c] = "open" THEN sync ELSE ops
  <2>1. /\ session' = session /\ made' = made
        /\ failed' = IF r.req.kind = "op" THEN failed \cup {r.req.cid} ELSE failed
        /\ pending' = IF r.req.kind = "op" THEN [pending EXCEPT ![c] = Unsent(@, r.req.cid)]
                      ELSE pending
        /\ Sends(c, <<f>>) \/ (up' = up /\ jobs' = jobs)
    BY <1>2 DEF AnswerFailed, bounds
  <2>2. f.kind # "op" OBVIOUS
  <2>3. failed \subseteq failed' BY <2>1
  <2>4. pending' = pending \/ PendingOK'
    <3>1. CASE r.req.kind # "op" BY <2>1, <3>1
    <3>2. CASE r.req.kind = "op"
      <4>. DEFINE q == Unsent(pending[c], r.req.cid)
      <4>1. pending' = [pending EXCEPT ![c] = q] /\ r.req.cid \in failed' BY <2>1, <3>2
      <4>2. GoodQueue(Len(session.log), made, failed', q)
        BY <1>0, <2>3, <4>1, QueueOf, UnsentGood DEF Traffic
      <4>. HIDE DEF q
      <4>. QED BY <1>0, <2>1, <2>3, <4>1, <4>2, QueueSet
    <3>. QED BY <3>1, <3>2
  <2>. HIDE DEF f
  <2>5. UpCalm /\ \A j \in jobs' : j \in jobs \/ j.req.kind # "op"
    <3>1. CASE up' = up /\ jobs' = jobs BY <3>1 DEF UpCalm
    <3>2. CASE Sends(c, <<f>>)
      <4>1. up' = up \/ up' = [up EXCEPT ![c] = up[c] \o <<f>>] BY <3>2 DEF Sends
      <4>2. IsSeq(up[c]) BY <1>0 DEF Traffic, UpOK
      <4>3. up[c] \o <<f>> = Append(up[c], f)
        <5>. DEFINE R == {up[c][i] : i \in DOMAIN up[c]} \cup {f}
        <5>1. Len(up[c]) \in Nat /\ DOMAIN up[c] = 1..Len(up[c]) BY <4>2, IsSeqDom
        <5>2. up[c] \in [1..Len(up[c]) -> R] BY <4>2, <5>1 DEF IsSeq
        <5>3. up[c] \in Seq(R) /\ f \in R BY <5>1, <5>2
        <5>. HIDE DEF R
        <5>. QED BY <5>3
      <4>4. UpCalm BY <1>0, <2>2, <4>1, <4>3 DEF UpCalm
      <4>5. \A j \in jobs' : j \in jobs \/ j = Http(c, f) BY <3>2, OneHttp DEF Sends
      <4>6. Http(c, f).req = f BY DEF Http, Job, MkJob
      <4>. QED BY <2>2, <4>4, <4>5, <4>6
    <3>. QED BY <2>1, <3>1, <3>2
  <2>. QED BY <2>1, <2>3, <2>4, <2>5, CalmStep
<1>. QED BY <1>1, <1>2
-----------------------------------------------------------------------------
(* The other steps of a tab *)

\* onopen sends again what was reported as failed, and nothing else.
LEMMA OpenTraffic ==
    ASSUME Inv, Traffic, NEW c \in Tabs, Open(c)
    PROVE  Traffic'
<1>. DEFINE ps == pending[c]
            raised == [n \in DOMAIN ps |-> IF ps[n].inFlight THEN ps[n]
                                           ELSE Raised(ps[n], latest[c])]
            T == {n \in DOMAIN ps : ~ps[n].inFlight}
            again == Kept(ps, T)
            resent == [n \in DOMAIN again |-> OpFrame(Raised(again[n], latest[c]))]
            sync == [kind |-> "sync", after |-> latest[c]]
            q == <<sync>> \o resent
<1>0. /\ session' = session /\ jobs' = jobs /\ made' = made /\ failed' = failed
      /\ pending' = [pending EXCEPT ![c] = raised] /\ up' = [up EXCEPT ![c] = q]
  BY DEF Open, serverVars, bounds
<1>1. Grows BY <1>0, SameLogGrows
<1>2. latest[c] \in 0..Len(session.log) /\ Len(session.log) \in Nat
  <2>1. latest[c] \in Nat /\ latest[c] <= Len(session.log) BY DEF Inv, SeenOK
  <2>2. Len(session.log) \in Nat BY IsSeqDom DEF Inv, LogOK
  <2>. QED BY <2>1, <2>2
<1>3. GoodQueue(Len(session.log), made, failed, ps) BY QueueOf DEF Traffic
<1>4. Len(ps) \in Nat /\ DOMAIN ps = 1..Len(ps) BY <1>3, IsSeqDom DEF GoodQueue
<1>5. GoodQueue(Len(session.log), made, failed, raised)
  <2>1. raised = [i \in 1..Len(ps) |-> raised[i]] BY <1>4
  <2>2. IsSeq(raised) /\ DOMAIN raised = DOMAIN ps BY <1>4, <2>1, FunIsSeq
  <2>3. ASSUME NEW n \in DOMAIN ps PROVE GoodPending(Len(session.log), made, failed, raised[n])
    <3>1. GoodPending(Len(session.log), made, failed, ps[n]) BY <1>3 DEF GoodQueue
    <3>2. raised[n] = ps[n] \/ raised[n] = Raised(ps[n], latest[c]) OBVIOUS
    <3>. HIDE DEF raised, ps
    <3>3. GoodPending(Len(session.log), made, failed, Raised(ps[n], latest[c]))
      BY <1>2, <3>1 DEF GoodPending, Raised, MkPending
    <3>. QED BY <3>1, <3>2, <3>3
  <2>. QED BY <2>2, <2>3 DEF GoodQueue
<1>. HIDE DEF T
<1>6. /\ IsSeq(again)
      /\ \A k \in DOMAIN again : \E n \in DOMAIN ps : n \in T /\ again[k] = ps[n]
  BY <1>3, KeptOf DEF GoodQueue
<1>. HIDE DEF again
<1>7. ASSUME NEW k \in DOMAIN again
      PROVE  again[k].cid \in 1..made /\ again[k].cid \in failed
  <2>1. PICK n \in DOMAIN ps : n \in T /\ again[k] = ps[n] BY <1>6
  <2>2. ~ps[n].inFlight BY <2>1 DEF T
  <2>3. GoodPending(Len(session.log), made, failed, ps[n]) BY <1>3 DEF GoodQueue
  <2>. QED BY <2>1, <2>2, <2>3 DEF GoodPending
<1>8. Len(again) \in Nat /\ DOMAIN again = 1..Len(again) BY <1>6, IsSeqDom
<1>9. resent = [i \in 1..Len(again) |-> resent[i]] BY <1>8
<1>10. IsSeq(resent) /\ DOMAIN resent = DOMAIN again BY <1>8, <1>9, FunIsSeq
<1>11. ASSUME NEW k \in DOMAIN again
       PROVE  /\ GoodReq(Len(session.log), made, resent[k])
              /\ \A x : Carries(resent[k], x) => x \in failed
  <2>1. resent[k].cid = again[k].cid /\ resent[k].base = latest[c]
    BY DEF OpFrame, Raised, MkPending
  <2>. HIDE DEF resent
  <2>. QED BY <1>2, <1>7, <2>1 DEF GoodReq, Carries
<1>12. sync.kind # "op" OBVIOUS
<1>. HIDE DEF resent, sync, raised
<1>13. IsSeq(<<sync>>) /\ Len(<<sync>>) = 1 /\ <<sync>>[1] = sync BY PairIsSeq
<1>14. /\ IsSeq(q) /\ DOMAIN q = 1..(1 + Len(resent)) /\ Len(resent) \in Nat
       /\ \A i \in 1..1 : q[i] = <<sync>>[i]
       /\ \A i \in (1 + 1)..(1 + Len(resent)) : q[i] = resent[i - 1]
  BY <1>10, <1>13, ConcatIsSeq
<1>15. DOMAIN resent = 1..Len(resent) BY <1>10, IsSeqDom
<1>. HIDE DEF q
<1>16. ASSUME NEW n \in DOMAIN q
       PROVE  /\ GoodReq(Len(session.log), made, q[n])
              /\ \A x : Carries(q[n], x) => x \in failed
  <2>1. CASE n = 1
    <3>1. q[n] = sync BY <1>13, <1>14, <2>1
    <3>. QED BY <1>12, <3>1 DEF GoodReq, Carries
  <2>2. CASE n # 1
    <3>1. n \in (1 + 1)..(1 + Len(resent)) /\ n - 1 \in 1..Len(resent) BY <1>14, <2>2
    <3>2. q[n] = resent[n - 1] BY <1>14, <3>1
    <3>. QED BY <1>10, <1>11, <1>15, <3>1, <3>2
  <2>. QED BY <2>1, <2>2
<1>17. UpOK' /\ up'[c] = q /\ \A d \in Tabs \ {c} : up'[d] = up[d]
  BY <1>0, <1>1, <1>14, <1>16, UpSet DEF Traffic
<1>18. PendingOK' BY <1>0, <1>5, QueueSet
<1>19. LogCidsOK' /\ JobReqsOK' BY <1>0 DEF Traffic, LogCidsOK, JobReqsOK
<1>20. ASSUME NEW x, x \notin failed' PROVE OnePlace(up', jobs', session'.log, x)
  <2>1. OnePlace(up, jobs, session.log, x) BY <1>0, <1>20 DEF Traffic, PlacesOK
  <2>2. ASSUME NEW d, NEW n, UpAt(up', x, d, n) PROVE UpAt(up, x, d, n)
    <3>1. d # c BY <1>0, <1>16, <1>17, <1>20, <2>2 DEF UpAt
    <3>. QED BY <1>17, <2>2, <3>1 DEF UpAt
  <2>3. OnePlace(up', jobs, session.log, x) BY <2>1, <2>2, FewerPlaces
  <2>. QED BY <1>0, <2>3
<1>. QED BY <1>17, <1>18, <1>19, <1>20 DEF Traffic, PlacesOK

\* A lost socket: its frame is in work under another name, the next may be.
LEMMA DropTraffic ==
    ASSUME Inv, Traffic, NEW c \in Tabs, Drop(c)
    PROVE  Traffic'
<1>1. /\ session' = session /\ made' = made /\ failed' = failed
      /\ pending' = pending /\ up' = [up EXCEPT ![c] = <<>>]
  BY DEF Drop, editorVars
<1>2. Grows BY <1>1, SameLogGrows
<1>3. IsSeq(<<>>) /\ DOMAIN <<>> = {} BY PairIsSeq
<1>4. UpOK' /\ up'[c] = <<>> /\ \A d \in Tabs \ {c} : up'[d] = up[d]
  BY <1>1, <1>2, <1>3, UpSet DEF Traffic
<1>5. up[c] # <<>> => Head(up[c]) = up[c][1] /\ 1 \in DOMAIN up[c]
  <2>. DEFINE u == up[c]
  <2>1. IsSeq(u) BY DEF Traffic, UpOK
  <2>. HIDE DEF u
  <2>2. ASSUME u # <<>> PROVE Head(u) = u[1] /\ 1 \in DOMAIN u
    <3>1. Head(u) = u[1] /\ Len(u) \in Nat \ {0} BY <2>1, <2>2, TailIsSeq
    <3>. QED BY <2>1, <3>1, IsSeqDom
  <2>. QED BY <2>2 DEF u
<1>6. GetOps(c).req.kind # "op" BY DEF GetOps, Http, Job, MkJob
<1>7. JobReqsOK'
  <2>1. ASSUME NEW i \in jobs'
        PROVE  GoodReq(Len(session'.log), made', i.req) \/ \E j \in jobs : i.req = j.req
    <3>1. CASE i \in jobs BY <3>1
    <3>2. ASSUME NEW j \in Orphans(c), i = Orphan(j) PROVE \E k \in jobs : i.req = k.req
      BY <3>2, OrphanFields DEF Orphans
    <3>3. CASE i = GetOps(c) BY <1>6, <3>3 DEF GoodReq
    <3>4. CASE up[c] # <<>> /\ i = Orphan(Frame(c))
      <4>1. i.req = up[c][1] /\ 1 \in DOMAIN up[c] BY <1>5, <3>4, ReceivedFields
      <4>. QED BY <1>1, <4>1 DEF Traffic, UpOK
    <3>. QED BY <3>1, <3>2, <3>3, <3>4, DropJobs
  <2>. QED BY <1>2, <2>1, JobReqsStep DEF Traffic
<1>8. PendingOK' /\ LogCidsOK' BY <1>1, <1>2, PendingSame DEF Traffic, LogCidsOK
<1>9. ASSUME NEW x, x \notin failed' PROVE OnePlace(up', jobs', session'.log, x)
  <2>1. OnePlace(up, jobs, session.log, x) BY <1>1, <1>9 DEF Traffic, PlacesOK
  <2>2. ASSUME NEW i, JobAt(jobs', x, i)
        PROVE  \/ i \notin Orphans(c) /\ JobAt(jobs, x, i)
               \/ \E j \in Orphans(c) : JobAt(jobs, x, j) /\ i = Orphan(j)
               \/ UpAt(up, x, c, 1) /\ i = Orphan(Frame(c))
    <3>1. i \in jobs' /\ i.at # "saved" /\ Carries(i.req, x) BY <2>2 DEF JobAt
    <3>2. CASE i \in jobs /\ i \notin Orphans(c) BY <3>1, <3>2 DEF JobAt
    <3>3. ASSUME NEW j \in Orphans(c), i = Orphan(j) PROVE JobAt(jobs, x, j)
      BY <3>1, <3>3, OrphanFields DEF JobAt, Orphans
    <3>4. CASE i = GetOps(c) BY <1>6, <3>1, <3>4 DEF Carries
    <3>5. CASE up[c] # <<>> /\ i = Orphan(Frame(c))
      <4>1. i.req = up[c][1] /\ 1 \in DOMAIN up[c] BY <1>5, <3>5, ReceivedFields
      <4>. QED BY <3>1, <3>5, <4>1 DEF UpAt
    <3>. QED BY <3>1, <3>2, <3>3, <3>4, <3>5, DropJobs
  <2>3. \A d, n : UpAt(up', x, d, n) => UpAt(up, x, d, n) /\ d # c BY <1>3, <1>4 DEF UpAt
  <2>4. \A i : JobAt(jobs', x, i) => UpAt(up, x, c, 1) \/ \E j : JobAt(jobs, x, j) BY <2>2
  <2>5. \A i, j : JobAt(jobs', x, i) /\ JobAt(jobs', x, j) => i = j
    BY <2>1, <2>2 DEF OnePlace
  <2>6. \A d, n, j : ~(UpAt(up', x, d, n) /\ JobAt(jobs', x, j)) BY <2>1, <2>3, <2>4 DEF OnePlace
  <2>7. \A j, n : ~(JobAt(jobs', x, j) /\ LogAt(session'.log, x, n))
    BY <1>1, <2>1, <2>4 DEF OnePlace
  <2>. QED BY <1>1, <2>1, <2>3, <2>5, <2>6, <2>7 DEF OnePlace
<1>. QED BY <1>4, <1>7, <1>8, <1>9 DEF Traffic, PlacesOK

LEMMA TabTraffic ==
    ASSUME Inv, Traffic, NEW c \in Tabs, Client(c)
    PROVE  Traffic'
<1>1. CASE Start(c)
  <2>1. /\ session' = session /\ up' = up /\ made' = made /\ failed' = failed
        /\ pending' = pending /\ jobs' = jobs \cup {Http(c, [kind |-> "join", seed |-> dom[c]])}
    BY <1>1 DEF Start, bounds
  <2>2. \A j \in jobs' : j \in jobs \/ j.req.kind # "op" BY <2>1 DEF Http, Job, MkJob
  <2>. QED BY <2>1, <2>2, CalmStep DEF UpCalm
<1>2. CASE Edit(c)
  <2>1. PICK i \in 0..Len(dom[c]), key \in plan.keys :
           /\ SubmitOp(c, "replace", DiffPlainText(dom[c], dom'[c]))
           /\ UNCHANGED <<session, replies, down, conn, polling, seqVars, refs, lock,
                          peers, presence, todo, failed, plan, beats, faults>>
    BY <1>2 DEF Edit
  <2>. QED BY <2>1, SubmitStep
<1>3. CASE FullSync(c)
  <2>1. \E b : SubmitOp(c, "format_commit", b) BY <1>3 DEF FullSync
  <2>2. session' = session /\ failed' = failed BY <1>3 DEF FullSync
  <2>. QED BY <2>1, <2>2, SubmitStep
<1>4. CASE FormatRetry(c)
  <2>1. SubmitOp(c, "format_commit", refs[c]) /\ session' = session /\ failed' = failed
    BY <1>4 DEF FormatRetry
  <2>. QED BY <2>1, SubmitStep
<1>5. CASE MoveCaret(c)
  <2>1. session' = session /\ failed' = failed BY <1>5 DEF MoveCaret
  <2>2. \/ \E r : /\ pending' = [pending EXCEPT ![c] = Append(@, Submitted(c, "lock", r))]
                  /\ Presents(c, r, <<OpFrame(Submitted(c, "lock", r))>>)
                  /\ made' = made + 1
        \/ Presents(c, Keep, <<>>) /\ pending' = pending /\ made' = made
    BY <1>5 DEF MoveCaret
  <2>3. CASE \E r : /\ pending' = [pending EXCEPT ![c] = Append(@, Submitted(c, "lock", r))]
                    /\ Presents(c, r, <<OpFrame(Submitted(c, "lock", r))>>)
                    /\ made' = made + 1
    BY <2>1, <2>3, PresentOpStep
  <2>4. CASE Presents(c, Keep, <<>>) /\ pending' = pending /\ made' = made
    <3>. DEFINE b == Beat(Merged(c, Keep))
    <3>1. up' = up \/ up' = [up EXCEPT ![c] = up[c] \o <<>> \o <<b>>] BY <2>4 DEF Presents
    <3>2. \A j \in jobs' : j \in jobs BY <2>4, PairIsSeq DEF Presents
    <3>3. b.kind # "op" BY DEF Beat
    <3>. HIDE DEF b
    <3>4. up[c] \o <<>> \o <<b>> = Append(up[c], b)
      <4>. DEFINE R == {up[c][i] : i \in DOMAIN up[c]} \cup {b}
      <4>0. IsSeq(up[c]) BY DEF Traffic, UpOK
      <4>1. Len(up[c]) \in Nat /\ DOMAIN up[c] = 1..Len(up[c]) BY <4>0, IsSeqDom
      <4>2. up[c] \in [1..Len(up[c]) -> R] BY <4>0, <4>1 DEF IsSeq
      <4>3. up[c] \in Seq(R) /\ b \in R BY <4>1, <4>2
      <4>. HIDE DEF R
      <4>4. up[c] \o <<>> = up[c] BY <4>3
      <4>. QED BY <4>3, <4>4
    <3>5. UpCalm BY <3>1, <3>3, <3>4 DEF UpCalm
    <3>. QED BY <2>1, <2>4, <3>2, <3>5, CalmStep
  <2>. QED BY <2>2, <2>3, <2>4
<1>6. CASE ReleaseLock(c)
  <2>1. /\ session' = session /\ failed' = failed /\ made' = made + 1
        /\ pending' = [pending EXCEPT ![c] = Append(@, Submitted(c, "unlock", NoRange))]
        /\ Presents(c, NoRange, <<OpFrame(Submitted(c, "unlock", NoRange))>>)
    BY <1>6 DEF ReleaseLock
  <2>. QED BY <2>1, PresentOpStep
<1>7. CASE FlushPresence(c)
  <2>1. /\ session' = session /\ up' = up /\ made' = made /\ failed' = failed
        /\ pending' = pending /\ jobs' = jobs \cup {Http(c, Beat(presence[c]))}
    BY <1>7 DEF FlushPresence, bounds, wireVars
  <2>2. \A j \in jobs' : j \in jobs \/ j.req.kind # "op" BY <2>1 DEF Http, Job, MkJob, Beat
  <2>. QED BY <2>1, <2>2, CalmStep DEF UpCalm
<1>8. CASE Open(c) BY <1>8, OpenTraffic
<1>9. CASE Drop(c) BY <1>9, DropTraffic
<1>10. CASE Poll(c)
  <2>1. /\ session' = session /\ up' = up /\ made' = made /\ failed' = failed
        /\ pending' = pending /\ jobs' = jobs \cup {GetOps(c), Http(c, [kind |-> "session"])}
    BY <1>10 DEF Poll, bounds, wireVars, editorVars
  <2>2. \A j \in jobs' : j \in jobs \/ j.req.kind # "op" BY <2>1 DEF GetOps, Http, Job, MkJob
  <2>. QED BY <2>1, <2>2, CalmStep DEF UpCalm
<1>11. CASE LoseHttp(c)
  <2>1. /\ session' = session /\ up' = up /\ made' = made /\ failed' = failed
        /\ pending' = pending /\ \A j \in jobs' : j \in jobs
    BY <1>11 DEF LoseHttp, wireVars, editorVars
  <2>. QED BY <2>1, CalmStep DEF UpCalm
<1>12. CASE Stop(c)
  <2>1. /\ session' = session /\ made' = made /\ failed' = failed /\ jobs' = jobs
        /\ up' = [up EXCEPT ![c] = <<>>] /\ pending' = [pending EXCEPT ![c] = <<>>]
    BY <1>12 DEF Stop, serverVars, bounds
  <2>2. GoodQueue(Len(session.log), made, failed', <<>>) BY PairIsSeq DEF GoodQueue
  <2>3. PendingOK' BY <2>1, <2>2, QueueSet
  <2>4. UpCalm BY <2>1 DEF UpCalm
  <2>. QED BY <2>1, <2>3, <2>4, CalmStep
<1>13. CASE Receive(c)
  <2>1. /\ session' = session /\ up' = up /\ made' = made /\ failed' = failed
        /\ pending' = pending /\ jobs' = jobs
    BY <1>13 DEF Receive, serverVars, bounds, editorVars
  <2>. QED BY <2>1, CalmStep DEF UpCalm
<1>. QED BY <1>1, <1>2, <1>3, <1>4, <1>5, <1>6, <1>7, <1>8, <1>9, <1>10, <1>11, <1>12, <1>13
         DEF Client
-----------------------------------------------------------------------------
(* The backend moves ops *)

LEMMA TakeTraffic ==
    ASSUME Inv, Traffic, NEW c \in Tabs, TakeWrite(c) \/ TakeSync(c)
    PROVE  Traffic'
<1>. DEFINE t == Tail(up[c])
<1>1. PICK at, ses, tries :
        /\ session' = session /\ made' = made /\ failed' = failed /\ pending' = pending
        /\ up[c] # <<>> /\ up' = [up EXCEPT ![c] = t]
        /\ jobs' = jobs \cup {Turned(Frame(c), at, ses, tries)}
  BY DEF TakeWrite, TakeSync, CanTake, ReadFor, bounds, editorVars
<1>. DEFINE j == Turned(Frame(c), at, ses, tries)
<1>2. IsSeq(up[c]) /\ \A n \in DOMAIN up[c] : GoodReq(Len(session.log), made, up[c][n])
  BY DEF Traffic, UpOK
<1>3. /\ IsSeq(t) /\ Len(up[c]) \in Nat \ {0} /\ Head(up[c]) = up[c][1]
      /\ DOMAIN t = 1..(Len(up[c]) - 1)
      /\ \A i \in 1..(Len(up[c]) - 1) : t[i] = up[c][i + 1]
  BY <1>1, <1>2, TailIsSeq
<1>4. DOMAIN up[c] = 1..Len(up[c]) BY <1>2, IsSeqDom
<1>5. j.req = up[c][1] BY <1>3 DEF Turned, MkJob, Frame, Job
<1>6. Grows BY <1>1, SameLogGrows
<1>7. \A n \in DOMAIN t : GoodReq(Len(session'.log), made', t[n]) BY <1>1, <1>2, <1>3, <1>4
<1>. HIDE DEF j, t
<1>8. UpOK' /\ up'[c] = t /\ \A d \in Tabs \ {c} : up'[d] = up[d]
  BY <1>1, <1>3, <1>6, <1>7, UpSet DEF Traffic
<1>9. GoodReq(Len(session'.log), made', j.req) BY <1>1, <1>2, <1>3, <1>4, <1>5
<1>10. JobReqsOK'
  <2>1. jobs' = jobs \cup {j} BY <1>1 DEF j
  <2>. QED BY <1>6, <1>9, <2>1, JobReqsStep DEF Traffic
<1>11. PendingOK' BY <1>1, <1>6, PendingSame DEF Traffic
<1>12. LogCidsOK' BY <1>1 DEF Traffic, LogCidsOK
<1>13. ASSUME NEW x, x \notin failed' PROVE OnePlace(up', jobs', session'.log, x)
  <2>. DEFINE v == up'
  <2>1. OnePlace(up, jobs, session.log, x) BY <1>1, <1>13 DEF Traffic, PlacesOK
  <2>2. v[c] = Tail(up[c]) /\ \A d \in Tabs \ {c} : v[d] = up[d] BY <1>8 DEF t
  <2>. HIDE DEF v
  <2>3. OnePlace(v, jobs \cup {j}, session.log, x)
    BY <1>1, <1>2, <1>5, <2>1, <2>2, TakenPlace
  <2>. QED BY <1>1, <2>3 DEF v, j
<1>. QED BY <1>8, <1>10, <1>11, <1>12, <1>13 DEF Traffic, PlacesOK

\* A request goes on and nothing else changes.
LEMMA TurnTraffic ==
    ASSUME Inv, Traffic, NEW j \in jobs, NEW i, i.req = j.req, j.at # "saved",
           session' = session, made' = made, failed' = failed, pending' = pending, up' = up,
           jobs' = (jobs \ {j}) \cup {i}
    PROVE  Traffic'
<1>1. Grows BY SameLogGrows
<1>2. UpOK' BY <1>1, UpSame DEF Traffic
<1>3. JobReqsOK' BY <1>1, JobReqsStep DEF Traffic
<1>4. PendingOK' BY <1>1, PendingSame DEF Traffic
<1>5. LogCidsOK' BY DEF Traffic, LogCidsOK
<1>6. ASSUME NEW x, x \notin failed' PROVE OnePlace(up', jobs', session'.log, x)
  <2>1. OnePlace(up, jobs, session.log, x) BY <1>6 DEF Traffic, PlacesOK
  <2>2. OnePlace(up, (jobs \ {j}) \cup {i}, session.log, x) BY <2>1, TurnedPlace
  <2>. QED BY <2>2
<1>. QED BY <1>2, <1>3, <1>4, <1>5, <1>6 DEF Traffic, PlacesOK

\* An op is saved.
LEMMA CommitTraffic ==
    ASSUME Inv, Traffic, NEW j \in jobs, j.at = "read", j.req.kind = "op",
           session.version = j.ses.version, session' = Outcome(j),
           jobs' = (jobs \ {j}) \cup {Turned(j, "saved", Outcome(j), j.tries)},
           made' = made, failed' = failed, pending' = pending, up' = up
    PROVE  Traffic'
<1>. DEFINE l == session.log
            k == session'.log
            i == Turned(j, "saved", Outcome(j), j.tries)
            e == Op(Len(l) + 1, UserOf[j.tab], j.req.cid, j.req.type, BodyOf(j.ses, j.req))
<1>1. j.ses.log = l BY DEF Inv, JobsOK, JobOK, Writes
<1>2. k = Append(l, e) BY <1>1 DEF Outcome, Applied, MkSession
<1>3. e.cid = j.req.cid BY DEF Op
<1>4. IsSeq(l) BY DEF Inv, LogOK
<1>5. i.at = "saved" /\ i.req = j.req BY DEF Turned, MkJob
<1>. HIDE DEF e
<1>6. /\ Len(Append(l, e)) = Len(l) + 1 /\ DOMAIN Append(l, e) = 1..(Len(l) + 1)
      /\ \A n \in 1..Len(l) : Append(l, e)[n] = l[n]
      /\ Append(l, e)[Len(l) + 1] = e
  BY <1>4, AppendIsSeq
<1>7. Len(l) \in Nat /\ DOMAIN l = 1..Len(l) BY <1>4, IsSeqDom
<1>. HIDE DEF k, l, i
<1>8. /\ Len(k) = Len(l) + 1 /\ DOMAIN k = 1..(Len(l) + 1)
      /\ \A n \in 1..Len(l) : k[n] = l[n]
      /\ k[Len(l) + 1] = e /\ k = Append(l, k[Len(l) + 1])
  BY <1>2, <1>6
<1>9. made \in Nat /\ \A n \in DOMAIN l : l[n].cid \in 1..made BY DEF Traffic, LogCidsOK, l
<1>10. j.req.cid \in 1..made BY DEF Traffic, JobReqsOK, GoodReq
<1>11. Grows BY <1>7, <1>8, <1>9 DEF Grows, k, l
<1>12. LogCidsOK'
  <2>1. ASSUME NEW n \in DOMAIN k PROVE k[n].cid \in 1..made
    <3>1. CASE n \in 1..Len(l) BY <1>7, <1>8, <1>9, <3>1
    <3>2. CASE n = Len(l) + 1 BY <1>3, <1>8, <1>10, <3>2
    <3>. QED BY <1>7, <1>8, <3>1, <3>2
  <2>. QED BY <1>9, <2>1 DEF LogCidsOK, k
<1>13. UpOK' BY <1>11, UpSame DEF Traffic
<1>14. JobReqsOK' BY <1>5, <1>11, JobReqsStep DEF Traffic, i
<1>15. PendingOK' BY <1>11, PendingSame DEF Traffic
<1>16. ASSUME NEW x, x \notin failed' PROVE OnePlace(up', jobs', session'.log, x)
  <2>1. OnePlace(up, jobs, l, x) BY <1>16 DEF Traffic, PlacesOK, l
  <2>2. k[Len(l) + 1].cid = j.req.cid BY <1>3, <1>8
  <2>3. OnePlace(up, (jobs \ {j}) \cup {i}, k, x)
    BY <1>4, <1>5, <1>8, <2>1, <2>2, SavedPlace DEF l
  <2>. QED BY <2>3 DEF k, i
<1>. QED BY <1>12, <1>13, <1>14, <1>15, <1>16 DEF Traffic, PlacesOK

LEMMA SaveTraffic ==
    ASSUME Inv, Traffic, NEW j \in jobs, SaveSession(j)
    PROVE  Traffic'
<1>0. /\ up' = up /\ pending' = pending /\ made' = made /\ failed' = failed
      /\ j.at = "read" /\ j.req.kind \in Writes
  BY DEF SaveSession, wireVars, editorVars, bounds
<1>1. CASE session.version = j.ses.version
  <2>1. /\ session' = Outcome(j)
        /\ jobs' = (jobs \ {j}) \cup {Turned(j, "saved", Outcome(j), j.tries)}
    BY <1>1 DEF SaveSession
  <2>2. CASE j.req.kind = "op" BY <1>0, <1>1, <2>1, <2>2, CommitTraffic
  <2>3. CASE j.req.kind # "op"
    <3>1. j.req.kind \in {"heartbeat", "join"} BY <1>0, <2>3 DEF Writes
    <3>2. j.ses.log = session.log BY <1>0, <1>1 DEF Inv, JobsOK, JobOK
    <3>3. session'.log = session.log
      BY <2>1, <3>1, <3>2 DEF Outcome, Beaten, Joined, MkSession
    <3>4. \A k \in jobs' : k \in jobs \/ k.req.kind # "op" BY <2>1, <2>3 DEF Turned, MkJob
    <3>. QED BY <1>0, <3>3, <3>4, CalmStep DEF UpCalm
  <2>. QED BY <2>2, <2>3
<1>2. CASE session.version # j.ses.version
  <2>1. session' = session BY <1>2 DEF SaveSession
  <2>2. \/ jobs' = (jobs \ {j}) \cup {Turned(j, "new", Copy(<<>>), j.tries + 1)}
        \/ jobs' = jobs \ {j}
    BY <1>2 DEF SaveSession
  <2>. DEFINE i == Turned(j, "new", Copy(<<>>), j.tries + 1)
  <2>3. i.req = j.req BY DEF Turned, MkJob
  <2>. HIDE DEF i
  <2>4. CASE jobs' = (jobs \ {j}) \cup {i} BY <1>0, <2>1, <2>3, <2>4, TurnTraffic
  <2>5. CASE jobs' = jobs \ {j} BY <1>0, <2>1, <2>5, CalmStep DEF UpCalm
  <2>. QED BY <2>2, <2>4, <2>5 DEF i
<1>. QED BY <1>1, <1>2

LEMMA BackendTraffic ==
    ASSUME Inv, Traffic, Backend
    PROVE  Traffic'
<1>1. CASE \E c \in Tabs : TakeWrite(c) \/ TakeSync(c) BY <1>1, TakeTraffic
<1>2. ASSUME NEW j \in jobs, ReadSession(j) PROVE Traffic'
  <2>. DEFINE i == Turned(j, "read", session, j.tries)
  <2>1. /\ session' = session /\ made' = made /\ failed' = failed /\ pending' = pending
        /\ up' = up /\ jobs' = (jobs \ {j}) \cup {i} /\ j.at # "saved"
    BY <1>2 DEF ReadSession, ReadFor, bounds, editorVars
  <2>2. i.req = j.req BY DEF Turned, MkJob
  <2>. HIDE DEF i
  <2>. QED BY <2>1, <2>2, TurnTraffic
<1>3. ASSUME NEW j \in jobs,
             RefuseOp(j) \/ Publish(j) \/ SyncSend(j) \/ AnswerGet(j) \/ AbortFrame(j)
      PROVE  Traffic'
  <2>1. /\ session' = session /\ made' = made /\ failed' = failed /\ pending' = pending
        /\ up' = up /\ jobs' = jobs \ {j}
    BY <1>3 DEF RefuseOp, Publish, SyncSend, AnswerGet, AbortFrame, bounds, editorVars, wireVars
  <2>. QED BY <2>1, CalmStep DEF UpCalm
<1>. QED BY <1>1, <1>2, <1>3, SaveTraffic DEF Backend

LEMMA NextTraffic == Inv /\ Traffic /\ [Next]_vars => Traffic'
<1>. SUFFICES ASSUME Inv, Traffic, [Next]_vars PROVE Traffic' OBVIOUS
<1>1. CASE Backend BY <1>1, BackendTraffic
<1>2. CASE Handler BY <1>2, IngestTraffic, ViewTraffic, AnswerTraffic DEF Handler
<1>3. CASE \E c \in Tabs : Client(c) BY <1>3, TabTraffic
<1>4. CASE UNCHANGED vars
  <2>1. /\ session' = session /\ jobs' = jobs /\ up' = up /\ pending' = pending
        /\ made' = made /\ failed' = failed
    BY <1>4 DEF vars, serverVars, wireVars, editorVars, bounds
  <2>. QED BY <2>1, CalmStep DEF UpCalm
<1>. QED BY <1>1, <1>2, <1>3, <1>4 DEF Next

LEMMA TrafficInvariant == Spec => [](Inv /\ Traffic)
<1>1. Init => Inv /\ Traffic BY InitInv, InitTraffic
<1>2. Inv /\ Traffic /\ [Next]_vars => (Inv /\ Traffic)' BY NextInv, NextTraffic
<1>. QED BY <1>1, <1>2, PTL DEF Spec

\* No tab gets ahead of the log: latestSeq and the base of every op that is
\* pending or at the backend stay within it, however frames, polls, syncs and
\* answers overtake each other, for any tabs, ring length and retries.
THEOREM BasesStayWithinLog == Spec => []BaseWithinLog
<1>1. Inv /\ Traffic => BaseWithinLog
  <2>. SUFFICES ASSUME Inv, Traffic PROVE BaseWithinLog OBVIOUS
  <2>1. \A c \in Tabs : latest[c] <= Len(session.log) BY DEF Inv, SeenOK
  <2>2. \A c \in Tabs : \A n \in DOMAIN pending[c] : pending[c][n].base <= Len(session.log)
    BY DEF Traffic, PendingOK, GoodPending
  <2>3. \A j \in jobs : j.req.kind = "op" => j.req.base <= Len(session.log)
    BY DEF Traffic, JobReqsOK, GoodReq
  <2>. QED BY <2>1, <2>2, <2>3 DEF BaseWithinLog
<1>. QED BY <1>1, TrafficInvariant, PTL

\* Only an op whose POST was reported as failed can be in the log twice: every
\* other op is at any time in at most one place, a socket, a request or the log.
THEOREM AppliedTwiceOnlyAfterFailure == Spec => []ResentOnlyAfterFailure
<1>1. Traffic => ResentOnlyAfterFailure
  <2>. SUFFICES ASSUME Traffic, NEW m \in DOMAIN session.log, NEW n \in DOMAIN session.log,
                       m # n, session.log[m].cid = session.log[n].cid
                PROVE  session.log[m].cid \in failed
    BY DEF ResentOnlyAfterFailure
  <2>. DEFINE x == session.log[m].cid
  <2>1. LogAt(session.log, x, m) /\ LogAt(session.log, x, n) BY DEF LogAt
  <2>2. ~OnePlace(up, jobs, session.log, x) BY <2>1 DEF OnePlace
  <2>. QED BY <2>2 DEF Traffic, PlacesOK
<1>. QED BY <1>1, TrafficInvariant, PTL
-----------------------------------------------------------------------------
(* What the operators on texts return *)

Text  == Seq(Nat)
Edits == [index : Nat, del : Nat, ins : Text]
Docs  == [html : Text, text : Text]

LEMMA SubText ==
    ASSUME NEW t \in Text, NEW m \in Nat \ {0}, NEW n \in Nat, m <= n + 1, n <= Len(t)
    PROVE  /\ SubSeq(t, m, n) \in Text /\ Len(SubSeq(t, m, n)) = n - m + 1
           /\ \A i \in 1..(n - m + 1) : SubSeq(t, m, n)[i] = t[i + m - 1]
BY DEF Text

LEMMA ReplaceTyped ==
    ASSUME NEW i \in Nat, NEW d \in Nat, NEW t \in Text
    PROVE  Replace(i, d, t) \in Edits
BY DEF Replace, Edits

LEMMA EditFields ==
    ASSUME NEW e \in Edits
    PROVE  e.index \in Nat /\ e.del \in Nat /\ e.ins \in Text /\ Len(e.ins) \in Nat
BY DEF Edits, Text

LEMMA TransformTyped ==
    ASSUME NEW a \in Edits, NEW b \in Edits
    PROVE  TransformReplace(a, b) \in Edits
<1>. DEFINE aEnd == a.index + a.del
            bEnd == b.index + b.del
            bIns == Len(b.ins)
<1>0. /\ a.index \in Nat /\ a.del \in Nat /\ a.ins \in Text
      /\ b.index \in Nat /\ b.del \in Nat /\ bIns \in Nat
  BY EditFields
<1>1. CASE bEnd <= a.index
  <2>0. ~(bEnd > a.index) BY <1>0, <1>1
  <2>1. TransformReplace(a, b) = Replace(Larger(0, a.index - b.del + bIns), a.del, a.ins)
    BY <1>1, <2>0, Zenon DEF TransformReplace
  <2>2. Larger(0, a.index - b.del + bIns) \in Nat BY <1>0 DEF Larger
  <2>. QED BY <1>0, <2>1, <2>2, ReplaceTyped
<1>2. CASE bEnd > a.index /\ b.index >= aEnd
  <2>1. ~(bEnd <= a.index) /\ ~(b.index < aEnd) BY <1>0, <1>2
  <2>2. TransformReplace(a, b) = a BY <1>2, <2>1, Zenon DEF TransformReplace
  <2>. QED BY <2>2
<1>3. CASE bEnd > a.index /\ b.index < aEnd /\ b.index <= a.index
  <2>. DEFINE d == Larger(0, a.del - (Smaller(aEnd, bEnd) - a.index))
  <2>1. ~(bEnd <= a.index) /\ ~(b.index >= aEnd) BY <1>0, <1>3
  <2>2. TransformReplace(a, b) = Replace(b.index + bIns, d, a.ins)
    BY <1>3, <2>1 DEF TransformReplace
  <2>3. d \in Nat BY <1>0 DEF Larger, Smaller
  <2>4. b.index + bIns \in Nat BY <1>0
  <2>. QED BY <1>0, <2>2, <2>3, <2>4, ReplaceTyped
<1>4. CASE bEnd > a.index /\ b.index < aEnd /\ b.index > a.index
  <2>. DEFINE d == (b.index - a.index) + Larger(0, aEnd - bEnd)
  <2>1. ~(bEnd <= a.index) /\ ~(b.index >= aEnd) /\ ~(b.index <= a.index) BY <1>0, <1>4
  <2>2. TransformReplace(a, b) = Replace(a.index, d, a.ins)
    BY <2>1 DEF TransformReplace
  <2>3. d \in Nat BY <1>0, <1>4 DEF Larger
  <2>. QED BY <1>0, <2>2, <2>3, ReplaceTyped
<1>. QED BY <1>0, <1>1, <1>2, <1>3, <1>4

\* The steps of an op through a sequence of ops.
ThroughSteps(k, e, s) ==
    /\ k[0] = e /\ \A n \in 0..Len(s) : k[n] \in Edits
    /\ \A n \in 1..Len(s) : k[n] = TransformReplace(k[n - 1], s[n])

LEMMA ThroughRun ==
    ASSUME NEW e \in Edits, NEW s, IsSeq(s), \A n \in DOMAIN s : s[n] \in Edits
    PROVE  \E k : ThroughSteps(k, e, s) /\ TransformReplaceThrough(e, s) = k[Len(s)]
<1>. DEFINE F == [p \in Edits \X DOMAIN s |-> TransformReplace(p[1], s[p[2]])]
            Of(g) == g = [n \in 0..Len(s) |->
                            IF n = 0 THEN e ELSE TransformReplace(g[n - 1], s[n])]
            k == CHOOSE g : Of(g)
<1>0. Len(s) \in Nat /\ DOMAIN s = 1..Len(s) BY IsSeqDom
<1>1. \A x \in Edits, n \in DOMAIN s : F[<<x, n>>] = TransformReplace(x, s[n])
  OBVIOUS
<1>. HIDE DEF F
<1>2. Closed(Edits, Len(s), F) BY <1>0, <1>1, TransformTyped DEF Closed
<1>3. Of(k)
  <2>1. PICK g : RunOf(g, Edits, e, Len(s), F) BY <1>0, <1>2, LoopExists
  <2>2. ASSUME NEW n \in 0..Len(s)
        PROVE  g[n] = IF n = 0 THEN e ELSE TransformReplace(g[n - 1], s[n])
    <3>1. n # 0 => n \in DOMAIN s /\ g[n - 1] \in Edits BY <1>0, <2>1 DEF RunOf
    <3>. QED BY <1>1, <2>1, <3>1 DEF RunOf
  <2>3. g = [n \in 0..Len(s) |-> g[n]] BY <2>1 DEF RunOf
  <2>4. Of(g) BY <2>2, <2>3
  <2>. QED BY <2>4
<1>4. TransformReplaceThrough(e, s) = k[Len(s)] BY DEF TransformReplaceThrough, Each
<1>. HIDE DEF k
<1>5. k[0] = e /\ \A n \in 1..Len(s) : k[n - 1] \in Edits => k[n] = F[<<k[n - 1], n>>]
  BY <1>0, <1>1, <1>3
<1>6. \A n \in 0..Len(s) : k[n] \in Edits BY <1>0, <1>2, <1>5, LoopTyped
<1>7. \A n \in 1..Len(s) : k[n] = TransformReplace(k[n - 1], s[n]) BY <1>0, <1>3
<1>. QED BY <1>4, <1>5, <1>6, <1>7 DEF ThroughSteps

\* An op through a sequence of ops is an op.
LEMMA ThroughTyped ==
    ASSUME NEW e \in Edits, NEW s, IsSeq(s), \A n \in DOMAIN s : s[n] \in Edits
    PROVE  TransformReplaceThrough(e, s) \in Edits
<1>1. PICK k : ThroughSteps(k, e, s) /\ TransformReplaceThrough(e, s) = k[Len(s)]
  BY ThroughRun
<1>2. Len(s) \in 0..Len(s) BY IsSeqDom
<1>. QED BY <1>1, <1>2 DEF ThroughSteps

LEMMA ApplyTyped ==
    ASSUME NEW t \in Text, NEW e \in Edits
    PROVE  ApplyReplace(t, e) \in Text
<1>. DEFINE index == Smaller(e.index, Len(t))
            end == Smaller(index + e.del, Len(t))
<1>0. e.index \in Nat /\ e.del \in Nat /\ e.ins \in Text /\ Len(t) \in Nat
  BY EditFields DEF Text
<1>1. index \in Nat /\ index <= Len(t) BY <1>0 DEF Smaller
<1>2. end \in Nat /\ end <= Len(t) BY <1>0, <1>1 DEF Smaller
<1>. HIDE DEF index, end
<1>3. SubSeq(t, 1, index) \in Text BY <1>0, <1>1, SubText
<1>4. SubSeq(t, end + 1, Len(t)) \in Text BY <1>0, <1>2, SubText
<1>5. SubSeq(t, 1, index) \o e.ins \o SubSeq(t, end + 1, Len(t)) \in Text
  BY <1>0, <1>3, <1>4 DEF Text
<1>. QED BY <1>5 DEF ApplyReplace, index, end

LEMMA DomApplyTyped ==
    ASSUME NEW t \in Text, NEW e \in Edits
    PROVE  DomApply(t, e) \in Text
<1>. DEFINE cut == ApplyReplace(t, Replace(e.index, e.del, <<>>))
<1>0. e.index \in Nat /\ e.del \in Nat /\ e.ins \in Text /\ <<>> \in Text
  BY EditFields DEF Text
<1>1. cut \in Text BY <1>0, ReplaceTyped, ApplyTyped
<1>. HIDE DEF cut
<1>2. ApplyReplace(cut, Replace(e.index, 0, e.ins)) \in Text
  BY <1>0, <1>1, ReplaceTyped, ApplyTyped
<1>3. e.ins \o cut \in Text BY <1>0, <1>1 DEF Text
<1>. QED BY <1>2, <1>3 DEF DomApply, cut

LEMMA RangeTyped ==
    ASSUME NEW r \in Ranges, NEW e \in Edits
    PROVE  TransformRange(r, e) \in Ranges
<1>0. e.index \in Nat /\ e.del \in Nat /\ Len(e.ins) \in Nat /\ r.start \in Nat /\ r.end \in Nat
  BY EditFields DEF Ranges
<1>1. ASSUME NEW o \in Nat PROVE TransformOffset(o, e) \in Nat
  BY <1>0 DEF TransformOffset
<1>2. TransformOffset(r.start, e) \in Nat /\ TransformOffset(r.end, e) \in Nat BY <1>0, <1>1
<1>3. NoRange \in Ranges BY DEF NoRange, Ranges
<1>. QED BY <1>2, <1>3 DEF TransformRange, Ranges

LEMMA PrefixTyped ==
    ASSUME NEW s \in Text, NEW t \in Text
    PROVE  /\ CommonPrefix(s, t) \in 0..Smaller(Len(s), Len(t))
           /\ \A i \in 1..CommonPrefix(s, t) : s[i] = t[i]
<1>. DEFINE N == Smaller(Len(s), Len(t))
            P(n) == SubSeq(s, 1, n) = SubSeq(t, 1, n)
            Q(n) == P(n) /\ (n < N => s[n + 1] # t[n + 1])
            A == {n \in Nat : n <= N => P(n)}
<1>0. N \in Nat /\ N <= Len(s) /\ N <= Len(t) BY DEF Smaller, Text
<1>. HIDE DEF N
<1>1. \E n \in 0..N : Q(n)
  <2>. SUFFICES ASSUME \A n \in 0..N : ~Q(n) PROVE FALSE OBVIOUS
  <2>1. 0 \in A
    <3>1. SubSeq(s, 1, 0) = <<>> /\ SubSeq(t, 1, 0) = <<>> BY DEF Text
    <3>. QED BY <3>1
  <2>2. ASSUME NEW n \in A PROVE n + 1 \in A
    <3>. SUFFICES ASSUME n + 1 <= N PROVE P(n + 1) BY <1>0
    <3>1. n \in Nat /\ n + 1 \in Nat /\ n < N /\ n \in 0..N BY <1>0
    <3>2. P(n) /\ s[n + 1] = t[n + 1] BY <3>1
    <3>. DEFINE a == SubSeq(s, 1, n + 1)
                b == SubSeq(t, 1, n + 1)
    <3>3. /\ a \in Text /\ Len(a) = n + 1 /\ \A i \in 1..(n + 1) : a[i] = s[i]
          /\ b \in Text /\ Len(b) = n + 1 /\ \A i \in 1..(n + 1) : b[i] = t[i]
      BY <1>0, <3>1 DEF Text
    <3>4. \A i \in 1..n : s[i] = t[i]
      <4>1. /\ Len(SubSeq(s, 1, n)) = n /\ \A i \in 1..n : SubSeq(s, 1, n)[i] = s[i]
            /\ Len(SubSeq(t, 1, n)) = n /\ \A i \in 1..n : SubSeq(t, 1, n)[i] = t[i]
        BY <1>0, <3>1 DEF Text
      <4>. QED BY <3>2, <4>1
    <3>5. \A i \in 1..(n + 1) : s[i] = t[i]
      <4>1. \A i \in 1..(n + 1) : i \in 1..n \/ i = n + 1 BY <3>1
      <4>. QED BY <3>2, <3>4, <4>1
    <3>. HIDE DEF a, b
    <3>6. a = b
      <4>1. a = [i \in 1..(n + 1) |-> a[i]] BY <3>3 DEF Text
      <4>2. b = [i \in 1..(n + 1) |-> b[i]] BY <3>3 DEF Text
      <4>3. \A i \in 1..(n + 1) : a[i] = b[i] BY <3>3, <3>5
      <4>. QED BY <4>1, <4>2, <4>3, Zenon
    <3>. QED BY <3>6 DEF a, b
  <2>3. A = Nat
    <3>1. A \in SUBSET Nat OBVIOUS
    <3>. HIDE DEF A
    <3>. QED BY <2>1, <2>2, <3>1, SetInduction
  <2>4. N \in A /\ N \in 0..N /\ ~(N < N) BY <1>0, <2>3
  <2>5. Q(N) BY <1>0, <2>4
  <2>. QED BY <2>4, <2>5
<1>2. CommonPrefix(s, t) = CHOOSE n \in 0..N : Q(n) BY DEF CommonPrefix, N
<1>. DEFINE p == CHOOSE n \in 0..N : Q(n)
<1>3. p \in 0..N /\ P(p)
  <2>1. p \in 0..N /\ Q(p)
    <3>. HIDE DEF Q
    <3>. QED BY <1>1
  <2>. HIDE DEF p
  <2>2. Q(p) => P(p) OBVIOUS
  <2>. QED BY <2>1, <2>2
<1>. HIDE DEF p
<1>4. p \in Nat /\ p <= Len(s) /\ p <= Len(t) BY <1>0, <1>3
<1>5. \A i \in 1..p : s[i] = t[i]
  <2>1. /\ \A i \in 1..p : SubSeq(s, 1, p)[i] = s[i]
        /\ \A i \in 1..p : SubSeq(t, 1, p)[i] = t[i]
    BY <1>4 DEF Text
  <2>2. SubSeq(s, 1, p) = SubSeq(t, 1, p) BY <1>3
  <2>. QED BY <2>1, <2>2
<1>6. CommonPrefix(s, t) = p BY <1>2 DEF p
<1>. QED BY <1>3, <1>5, <1>6 DEF N

LEMMA ReverseTyped ==
    ASSUME NEW s \in Text
    PROVE  Reverse(s) \in Text /\ Len(Reverse(s)) = Len(s)
<1>1. Len(s) \in Nat BY DEF Text
<1>2. \A i \in 1..Len(s) : s[(Len(s) - i) + 1] \in Nat
  <2>1. \A i \in 1..Len(s) : (Len(s) - i) + 1 \in 1..Len(s) BY <1>1
  <2>. QED BY <2>1 DEF Text
<1>3. Reverse(s) \in [1..Len(s) -> Nat] BY <1>2 DEF Reverse
<1>. QED BY <1>1, <1>3 DEF Text

\* diffPlainText finds an op of the first text.
LEMMA DiffTyped ==
    ASSUME NEW s \in Text, NEW t \in Text
    PROVE  DiffPlainText(s, t) \in Edits
<1>. DEFINE start == CommonPrefix(s, t)
            a == SubSeq(s, start + 1, Len(s))
            b == SubSeq(t, start + 1, Len(t))
            tail == CommonPrefix(Reverse(a), Reverse(b))
<1>0. Len(s) \in Nat /\ Len(t) \in Nat BY DEF Text
<1>1. start \in Nat /\ start <= Len(s) /\ start <= Len(t)
  BY <1>0, PrefixTyped DEF Smaller
<1>. HIDE DEF start
<1>2. a \in Text /\ Len(a) = Len(s) - start /\ b \in Text /\ Len(b) = Len(t) - start
  <2>1. a \in Text /\ Len(a) = Len(s) - (start + 1) + 1 BY <1>0, <1>1, SubText
  <2>2. b \in Text /\ Len(b) = Len(t) - (start + 1) + 1 BY <1>0, <1>1, SubText
  <2>. QED BY <1>0, <1>1, <2>1, <2>2
<1>. HIDE DEF a, b
<1>3. tail \in Nat /\ tail <= Len(s) - start /\ tail <= Len(t) - start
  <2>1. Reverse(a) \in Text /\ Len(Reverse(a)) = Len(a) BY <1>2, ReverseTyped
  <2>2. Reverse(b) \in Text /\ Len(Reverse(b)) = Len(b) BY <1>2, ReverseTyped
  <2>3. tail \in 0..Smaller(Len(a), Len(b)) BY <2>1, <2>2, PrefixTyped
  <2>. HIDE DEF tail
  <2>. QED BY <1>0, <1>1, <1>2, <2>3 DEF Smaller
<1>. HIDE DEF tail
<1>4. Len(s) - tail - start \in Nat BY <1>0, <1>1, <1>3
<1>5. SubSeq(t, start + 1, Len(t) - tail) \in Text BY <1>0, <1>1, <1>3, SubText
<1>6. Replace(start, Len(s) - tail - start, SubSeq(t, start + 1, Len(t) - tail)) \in Edits
  BY <1>1, <1>4, <1>5, ReplaceTyped
<1>. QED BY <1>6 DEF DiffPlainText, start, tail, a, b
-----------------------------------------------------------------------------
(* Types: what the room, its requests and its editors hold *)

BodyTyped(type, body) ==
    /\ type = "replace" => body \in Edits
    /\ type = "format_commit" => body \in Docs
    /\ type = "lock" => body \in Ranges

ReqTyped(req) ==
    /\ req.kind = "op" => req.cid \in Nat /\ BodyTyped(req.type, req.body)
    /\ req.kind = "heartbeat" => req.lock \in Ranges
    /\ req.kind = "join" => req.seed \in Text

FramesTyped(q) == IsSeq(q) /\ \A n \in DOMAIN q : ReqTyped(q[n])

LogTyped(log) == IsSeq(log) /\ \A n \in DOMAIN log : BodyTyped(log[n].type, log[n].body)

\* A copy of the session.
CopyTyped(s) ==
    /\ s.text \in Text /\ s.html \in Text /\ s.locks \in [Users -> Ranges]
    /\ LogTyped(s.log)

JobTyped(j) ==
    /\ ReqTyped(j.req)
    /\ j.at = "saved" \/ (j.at = "read" /\ j.req.kind \in Writes) => CopyTyped(j.ses)

ViewTyped(v) == v.text \in Text /\ v.html \in Text

ItemTyped(it)  == it.k = "session" => ViewTyped(it.view)
ItemsTyped(is) == IsSeq(is) /\ \A n \in DOMAIN is : ItemTyped(is[n])

ReplyTyped(r) ==
    /\ ReqTyped(r.req) /\ ItemsTyped(r.items)
    /\ r.ok /\ r.req.kind = "join" => ViewTyped(r.items[1].view)

OpsTyped(ps) ==
    IsSeq(ps) /\ \A n \in DOMAIN ps : ps[n].cid \in Nat /\ BodyTyped(ps[n].type, ps[n].body)

SessionTyped == CopyTyped(session)
JobsTyped    == \A j \in jobs : JobTyped(j)
RepliesTyped == \A r \in replies : ReplyTyped(r)
UpTyped      == up = [c \in Tabs |-> up[c]] /\ \A c \in Tabs : FramesTyped(up[c])
PendingTyped == pending = [c \in Tabs |-> pending[c]] /\ \A c \in Tabs : OpsTyped(pending[c])
TodoTyped    == \A n \in DOMAIN todo : ItemTyped(todo[n].item)
DownTyped    == \A c \in Tabs : \A n \in DOMAIN down[c] : ItemsTyped(down[c][n])
EditorTyped  == /\ dom \in [Tabs -> Text] /\ refs \in [Tabs -> Docs]
                /\ lock \in [Tabs -> Ranges] /\ presence \in [Tabs -> Ranges]
WireTyped    == /\ conn \in [Tabs -> {"out", "joining", "connecting", "open", "closed"}]
                /\ polling \in [Tabs -> BOOLEAN]
                /\ timers \in [Tabs -> SUBSET {"fullSync", "formatRetry"}]
HistoryTyped == /\ clash \subseteq Tabs /\ failed \subseteq Nat
                /\ plan \in Plans /\ beats \in Nat /\ faults \in Nat

Typed == /\ SessionTyped /\ JobsTyped /\ RepliesTyped /\ UpTyped /\ PendingTyped
         /\ TodoTyped /\ DownTyped /\ EditorTyped /\ WireTyped /\ HistoryTyped

LEMMA RangesOf == NoRange \in Ranges /\ Keep \in Ranges /\ NoPresence \in Ranges
BY DEF NoRange, Keep, NoPresence, Ranges

LEMMA InitTyped == Init => Typed
<1>. SUFFICES ASSUME Init PROVE Typed OBVIOUS
<1>0. /\ session.text = Seed /\ session.html = Seed /\ session.locks = NoLocks
      /\ session.log = <<>> /\ jobs = {} /\ replies = {} /\ todo = <<>> /\ plan \in Plans
      /\ up = [c \in Tabs |-> <<>>] /\ down = [c \in Tabs |-> <<>>]
      /\ pending = [c \in Tabs |-> <<>>] /\ dom = [c \in Tabs |-> Seed]
      /\ refs = [c \in Tabs |-> [html |-> Seed, text |-> Seed]]
      /\ lock = [c \in Tabs |-> NoRange] /\ presence = [c \in Tabs |-> NoPresence]
      /\ polling = [c \in Tabs |-> FALSE] /\ timers = [c \in Tabs |-> {}]
      /\ clash = {} /\ failed = {} /\ beats = 0 /\ faults = 0
  BY DEF Init, MkSession
<1>1. SessionTyped
  <2>1. NoLocks \in [Users -> Ranges] BY RangesOf DEF NoLocks
  <2>2. LogTyped(<<>>) BY PairIsSeq DEF LogTyped
  <2>. QED BY <1>0, <2>1, <2>2, SeedAssumption DEF SessionTyped, CopyTyped, Text
<1>2. JobsTyped /\ RepliesTyped BY <1>0 DEF JobsTyped, RepliesTyped
<1>3. UpTyped BY <1>0, PairIsSeq DEF UpTyped, FramesTyped
<1>4. PendingTyped BY <1>0, PairIsSeq DEF PendingTyped, OpsTyped
<1>5. TodoTyped /\ DownTyped BY <1>0, PairIsSeq DEF TodoTyped, DownTyped
<1>6. EditorTyped
  <2>1. Seed \in Text /\ [html |-> Seed, text |-> Seed] \in Docs
    BY SeedAssumption DEF Text, Docs
  <2>. QED BY <1>0, <2>1, RangesOf DEF EditorTyped
<1>7. WireTyped
  <2>1. conn \in [Tabs -> {"out", "joining", "connecting", "open", "closed"}]
    <3>1. conn = [c \in Tabs |-> CASE c \in plan.late -> "out"
                                   [] c \in plan.away -> "closed"
                                   [] OTHER -> "open"] BY DEF Init
    <3>. QED BY <3>1
  <2>. QED BY <1>0, <2>1 DEF WireTyped
<1>8. HistoryTyped BY <1>0 DEF HistoryTyped
<1>. QED BY <1>1, <1>2, <1>3, <1>4, <1>5, <1>6, <1>7, <1>8 DEF Typed

LEMMA TypedTypeOK == Inv /\ LogCidsOK /\ Typed => TypeOK
<1>. SUFFICES ASSUME Inv, LogCidsOK, Typed PROVE TypeOK OBVIOUS
<1>1. session.version \in Nat /\ session.locks \in [Users -> Ranges]
  BY DEF Inv, LogOK, Typed, SessionTyped, CopyTyped
<1>2. ASSUME NEW n \in DOMAIN session.log, session.log[n].type = "replace"
      PROVE  session.log[n].body.index \in Nat /\ session.log[n].body.del \in Nat
  <2>1. session.log[n].body \in Edits
    BY <1>2 DEF Typed, SessionTyped, CopyTyped, LogTyped, BodyTyped
  <2>. QED BY <2>1, EditFields
<1>3. WireTyped /\ HistoryTyped /\ EditorTyped BY DEF Typed
<1>4. latest \in [Tabs -> Nat] /\ seen \in [Tabs -> Seq(Nat)] BY DEF Inv, SeenOK
<1>5. made \in Nat BY DEF LogCidsOK
<1>. QED BY <1>1, <1>2, <1>3, <1>4, <1>5 DEF TypeOK, WireTyped, HistoryTyped, EditorTyped
-----------------------------------------------------------------------------
(* What the backend makes of a request *)

\* The replaces of a log, as ops.
LEMMA ReplacesTyped ==
    ASSUME NEW ops, LogTyped(ops)
    PROVE  IsSeq(Replaces(ops)) /\ \A n \in DOMAIN Replaces(ops) : Replaces(ops)[n] \in Edits
<1>. DEFINE T == {n \in DOMAIN ops : ops[n].type = "replace"}
            k == Kept(ops, T)
<1>0. \A n \in T : ops[n].body \in Edits BY DEF LogTyped, BodyTyped
<1>2. Replaces(ops) = [n \in DOMAIN k |-> k[n].body] BY DEF Replaces
<1>. HIDE DEF T
<1>1. IsSeq(k) /\ \A i \in DOMAIN k : \E n \in DOMAIN ops : n \in T /\ k[i] = ops[n]
  BY KeptOf DEF LogTyped
<1>3. \A i \in DOMAIN k : k[i].body \in Edits BY <1>0, <1>1
<1>. HIDE DEF k
<1>4. Len(k) \in Nat /\ DOMAIN k = 1..Len(k) BY <1>1, IsSeqDom
<1>5. Replaces(ops) = [i \in 1..Len(k) |-> Replaces(ops)[i]] BY <1>2, <1>4
<1>6. IsSeq(Replaces(ops)) /\ DOMAIN Replaces(ops) = 1..Len(k) BY <1>4, <1>5, FunIsSeq
<1>. QED BY <1>2, <1>3, <1>4, <1>6

\* A rebased op lies within the text.
LEMMA RebasedTyped ==
    ASSUME NEW s, CopyTyped(s), NEW req, req.body \in Edits
    PROVE  Rebased(s, req) \in Edits
<1>. DEFINE ops == OpsAfter(s, req.base)
            r == TransformReplaceThrough(req.body, Replaces(ops))
            index == Smaller(r.index, Len(s.text))
<1>1. LogTyped(ops)
  <2>1. /\ IsSeq(ops)
        /\ \A n \in DOMAIN ops : \E m \in DOMAIN s.log : ops[n] = s.log[m]
    BY OpsAfterOf DEF CopyTyped, LogTyped
  <2>. HIDE DEF ops
  <2>. QED BY <2>1 DEF CopyTyped, LogTyped
<1>. HIDE DEF ops
<1>2. r \in Edits BY <1>1, ReplacesTyped, ThroughTyped
<1>3. Rebased(s, req) = Replace(index, Smaller(r.del, Len(s.text) - index), r.ins)
  BY DEF Rebased, ops
<1>. HIDE DEF r
<1>4. r.index \in Nat /\ r.del \in Nat /\ r.ins \in Text BY <1>2, EditFields
<1>5. Len(s.text) \in Nat BY DEF CopyTyped, Text
<1>6. index \in Nat /\ index <= Len(s.text) BY <1>4, <1>5 DEF Smaller
<1>. HIDE DEF index
<1>7. Smaller(r.del, Len(s.text) - index) \in Nat BY <1>4, <1>5, <1>6 DEF Smaller
<1>. QED BY <1>3, <1>4, <1>6, <1>7, ReplaceTyped

\* What a writer saves.
LEMMA OutcomeTyped ==
    ASSUME NEW j, j.tab \in Tabs, CopyTyped(j.ses), ReqTyped(j.req), j.req.kind \in Writes
    PROVE  CopyTyped(Outcome(j))
<1>. DEFINE u == UserOf[j.tab]
            s == j.ses
<1>0. /\ u \in Users /\ s.text \in Text /\ s.html \in Text
      /\ s.locks \in [Users -> Ranges] /\ LogTyped(s.log)
  BY DEF Users, CopyTyped
<1>1. CASE j.req.kind = "heartbeat"
  <2>1. /\ Outcome(j).log = s.log /\ Outcome(j).text = s.text /\ Outcome(j).html = s.html
        /\ Outcome(j).locks = IF j.req.lock = Keep THEN s.locks
                                 ELSE [s.locks EXCEPT ![u] = j.req.lock]
    BY <1>1 DEF Outcome, Beaten, MkSession
  <2>2. j.req.lock \in Ranges BY <1>1 DEF ReqTyped
  <2>3. Outcome(j).locks \in [Users -> Ranges] BY <1>0, <2>1, <2>2
  <2>. QED BY <1>0, <2>1, <2>3 DEF CopyTyped
<1>2. CASE j.req.kind = "join"
  <2>1. /\ Outcome(j).log = s.log
        /\ Outcome(j).text = IF s.text = <<>> THEN j.req.seed ELSE s.text
        /\ Outcome(j).html = IF s.text = <<>> THEN j.req.seed ELSE s.html
        /\ Outcome(j).locks = [s.locks EXCEPT ![u] = NoRange]
    BY <1>2 DEF Outcome, Joined, MkSession
  <2>2. j.req.seed \in Text BY <1>2 DEF ReqTyped
  <2>3. Outcome(j).locks \in [Users -> Ranges] BY <1>0, <2>1, RangesOf
  <2>. QED BY <1>0, <2>1, <2>2, <2>3 DEF CopyTyped
<1>3. CASE j.req.kind = "op"
  <2>. DEFINE b == BodyOf(s, j.req)
              t == j.req.type
              e == Op(Len(s.log) + 1, u, j.req.cid, t, b)
  <2>1. BodyTyped(t, j.req.body) BY <1>3 DEF ReqTyped
  <2>2. BodyTyped(t, b)
    <3>1. CASE t = "replace"
      <4>1. b = Rebased(s, j.req) BY <3>1 DEF BodyOf
      <4>2. b \in Edits BY <2>1, <3>1, <4>1, RebasedTyped DEF BodyTyped
      <4>. HIDE DEF b
      <4>. QED BY <3>1, <4>2 DEF BodyTyped
    <3>2. CASE t # "replace" BY <2>1, <3>2 DEF BodyOf
    <3>. QED BY <3>1, <3>2
  <2>3. /\ Outcome(j).log = Append(s.log, e) /\ Outcome(j).text = TextAfter(s, t, b)
        /\ Outcome(j).html = HtmlAfter(s, t, b) /\ Outcome(j).locks = LocksAfter(s, u, t, b)
    BY <1>3 DEF Outcome, Applied, MkSession
  <2>4. e.type = t /\ e.body = b BY DEF Op
  <2>. HIDE DEF b, e, t
  <2>5. LogTyped(Append(s.log, e))
    <3>1. /\ IsSeq(Append(s.log, e)) /\ DOMAIN Append(s.log, e) = 1..(Len(s.log) + 1)
          /\ \A i \in 1..Len(s.log) : Append(s.log, e)[i] = s.log[i]
          /\ Append(s.log, e)[Len(s.log) + 1] = e
      BY <1>0, AppendIsSeq DEF LogTyped
    <3>2. Len(s.log) \in Nat /\ DOMAIN s.log = 1..Len(s.log) BY <1>0, IsSeqDom DEF LogTyped
    <3>3. ASSUME NEW n \in 1..(Len(s.log) + 1)
          PROVE  BodyTyped(Append(s.log, e)[n].type, Append(s.log, e)[n].body)
      <4>1. CASE n \in 1..Len(s.log) BY <1>0, <3>1, <3>2, <4>1 DEF LogTyped
      <4>2. CASE n = Len(s.log) + 1 BY <2>2, <2>4, <3>1, <4>2
      <4>. QED BY <3>2, <4>1, <4>2
    <3>. QED BY <3>1, <3>3 DEF LogTyped
  <2>6. TextAfter(s, t, b) \in Text
    <3>1. CASE t = "replace"
      <4>1. b \in Edits BY <2>2, <3>1 DEF BodyTyped
      <4>. QED BY <1>0, <3>1, <4>1, ApplyTyped DEF TextAfter
    <3>2. CASE t = "format_commit"
      <4>1. b \in Docs BY <2>2, <3>2 DEF BodyTyped
      <4>. QED BY <3>2, <4>1 DEF TextAfter, Docs
    <3>3. CASE t \notin {"replace", "format_commit"} BY <1>0, <3>3 DEF TextAfter
    <3>. QED BY <3>1, <3>2, <3>3
  <2>7. HtmlAfter(s, t, b) \in Text
    <3>1. CASE t = "format_commit"
      <4>1. b \in Docs BY <2>2, <3>1 DEF BodyTyped
      <4>. QED BY <3>1, <4>1 DEF HtmlAfter, Docs
    <3>. QED BY <1>0, <3>1 DEF HtmlAfter
  <2>8. LocksAfter(s, u, t, b) \in [Users -> Ranges]
    <3>1. CASE t = "lock"
      <4>1. b \in Ranges BY <2>2, <3>1 DEF BodyTyped
      <4>2. LocksAfter(s, u, t, b) = [s.locks EXCEPT ![u] = b] BY <3>1 DEF LocksAfter
      <4>. QED BY <1>0, <4>1, <4>2
    <3>2. CASE t = "unlock"
      <4>1. LocksAfter(s, u, t, b) = [s.locks EXCEPT ![u] = NoRange] BY <3>2 DEF LocksAfter
      <4>. QED BY <1>0, <4>1, RangesOf
    <3>3. CASE t = "replace"
      <4>1. b \in Edits BY <2>2, <3>3 DEF BodyTyped
      <4>2. LocksAfter(s, u, t, b) = [v \in Users |-> TransformRange(s.locks[v], b)]
        BY <3>3 DEF LocksAfter
      <4>3. \A v \in Users : TransformRange(s.locks[v], b) \in Ranges
        BY <1>0, <4>1, RangeTyped
      <4>. QED BY <4>2, <4>3
    <3>4. CASE t \notin {"lock", "unlock", "replace"}
      <4>1. LocksAfter(s, u, t, b) = s.locks BY <3>4 DEF LocksAfter
      <4>. QED BY <1>0, <4>1
    <3>. QED BY <3>1, <3>2, <3>3, <3>4
  <2>. QED BY <2>3, <2>5, <2>6, <2>7, <2>8 DEF CopyTyped
<1>. QED BY <1>1, <1>2, <1>3 DEF Writes
-----------------------------------------------------------------------------
(* What a step adds to the typed state *)

LEMMA SameTyped ==
    ASSUME Typed,
           session' = session \/ SessionTyped',
           \A j \in jobs' : j \in jobs \/ JobTyped(j),
           \A r \in replies' : r \in replies \/ ReplyTyped(r),
           up' = up \/ UpTyped', pending' = pending \/ PendingTyped',
           todo' = todo \/ TodoTyped', down' = down \/ DownTyped',
           (dom' = dom /\ refs' = refs /\ lock' = lock /\ presence' = presence) \/ EditorTyped',
           (conn' = conn /\ polling' = polling /\ timers' = timers) \/ WireTyped',
           clash' \subseteq Tabs, failed' \subseteq Nat, plan' = plan, beats' \in Nat, faults' \in Nat
    PROVE  Typed'
<1>1. SessionTyped' BY DEF Typed, SessionTyped
<1>2. JobsTyped' BY DEF Typed, JobsTyped
<1>3. RepliesTyped' BY DEF Typed, RepliesTyped
<1>4. UpTyped' BY DEF Typed, UpTyped
<1>5. PendingTyped' BY DEF Typed, PendingTyped
<1>6. TodoTyped' BY DEF Typed, TodoTyped
<1>7. DownTyped' BY DEF Typed, DownTyped
<1>8. EditorTyped' BY DEF Typed, EditorTyped
<1>9. WireTyped' BY DEF Typed, WireTyped
<1>10. HistoryTyped' BY DEF Typed, HistoryTyped
<1>. QED BY <1>1, <1>2, <1>3, <1>4, <1>5, <1>6, <1>7, <1>8, <1>9, <1>10 DEF Typed

LEMMA NewJobTyped ==
    ASSUME NEW c, NEW via, NEW req, ReqTyped(req)
    PROVE  JobTyped(Job(c, via, req)) /\ JobTyped(Http(c, req))
BY DEF JobTyped, Job, MkJob, Http

LEMMA PlainReqs ==
    ASSUME NEW n
    PROVE  /\ ReqTyped([kind |-> "sync", after |-> n]) /\ ReqTyped([kind |-> "ops", after |-> n])
           /\ ReqTyped([kind |-> "session"])
BY DEF ReqTyped

LEMMA BeatTyped ==
    ASSUME NEW lk \in Ranges
    PROVE  ReqTyped(Beat(lk))
BY DEF ReqTyped, Beat

LEMMA OpFrameTyped ==
    ASSUME NEW p, p.cid \in Nat, BodyTyped(p.type, p.body)
    PROVE  ReqTyped(OpFrame(p))
<1>1. /\ OpFrame(p).kind = "op" /\ OpFrame(p).cid = p.cid
      /\ OpFrame(p).type = p.type /\ OpFrame(p).body = p.body
  BY DEF OpFrame
<1>. QED BY <1>1 DEF ReqTyped

LEMMA OneFrameTyped ==
    ASSUME NEW req, ReqTyped(req)
    PROVE  FramesTyped(<<req>>)
BY PairIsSeq DEF FramesTyped

LEMMA ConcatTyped ==
    ASSUME NEW s, NEW t, FramesTyped(s), FramesTyped(t)
    PROVE  FramesTyped(s \o t)
<1>1. /\ IsSeq(s \o t) /\ Len(s) \in Nat /\ Len(t) \in Nat
      /\ DOMAIN (s \o t) = 1..(Len(s) + Len(t))
      /\ \A i \in 1..Len(s) : (s \o t)[i] = s[i]
      /\ \A i \in (Len(s) + 1)..(Len(s) + Len(t)) : (s \o t)[i] = t[i - Len(s)]
  BY ConcatIsSeq DEF FramesTyped
<1>2. DOMAIN s = 1..Len(s) /\ DOMAIN t = 1..Len(t) BY IsSeqDom DEF FramesTyped
<1>3. ASSUME NEW n \in 1..(Len(s) + Len(t)) PROVE ReqTyped((s \o t)[n])
  <2>1. CASE n \in 1..Len(s) BY <1>1, <1>2, <2>1 DEF FramesTyped
  <2>2. CASE n \in (Len(s) + 1)..(Len(s) + Len(t))
    <3>1. n - Len(s) \in 1..Len(t) /\ (s \o t)[n] = t[n - Len(s)] BY <1>1, <2>2
    <3>. QED BY <1>2, <3>1 DEF FramesTyped
  <2>. QED BY <1>1, <2>1, <2>2
<1>. QED BY <1>1, <1>3 DEF FramesTyped

LEMMA UpPut ==
    ASSUME UpTyped, NEW c \in Tabs, NEW q, FramesTyped(q), up' = [up EXCEPT ![c] = q]
    PROVE  UpTyped'
<1>1. up' = [d \in Tabs |-> IF d = c THEN q ELSE up[d]] BY DEF UpTyped
<1>. QED BY <1>1 DEF UpTyped

LEMMA HeadTyped ==
    ASSUME UpTyped, NEW c \in Tabs, up[c] # <<>>
    PROVE  ReqTyped(Head(up[c]))
<1>0. FramesTyped(up[c]) BY DEF UpTyped
<1>1. Len(up[c]) \in Nat \ {0} /\ Head(up[c]) = up[c][1] BY <1>0, TailIsSeq DEF FramesTyped
<1>2. DOMAIN up[c] = 1..Len(up[c]) BY <1>0, IsSeqDom DEF FramesTyped
<1>. QED BY <1>0, <1>1, <1>2 DEF FramesTyped

LEMMA UpTaken ==
    ASSUME UpTyped, NEW c \in Tabs, up[c] # <<>>, up' = [up EXCEPT ![c] = Tail(@)]
    PROVE  UpTyped' /\ ReqTyped(Head(up[c]))
<1>0. FramesTyped(up[c]) BY DEF UpTyped
<1>1. /\ IsSeq(Tail(up[c])) /\ Len(up[c]) \in Nat \ {0} /\ Head(up[c]) = up[c][1]
      /\ DOMAIN Tail(up[c]) = 1..(Len(up[c]) - 1)
      /\ \A i \in 1..(Len(up[c]) - 1) : Tail(up[c])[i] = up[c][i + 1]
  BY <1>0, TailIsSeq DEF FramesTyped
<1>2. DOMAIN up[c] = 1..Len(up[c]) BY <1>0, IsSeqDom DEF FramesTyped
<1>3. FramesTyped(Tail(up[c])) /\ ReqTyped(Head(up[c])) BY <1>0, <1>1, <1>2 DEF FramesTyped
<1>. QED BY <1>3, UpPut

LEMMA PendingPut ==
    ASSUME PendingTyped, NEW c \in Tabs, NEW ps, OpsTyped(ps),
           pending' = [pending EXCEPT ![c] = ps]
    PROVE  PendingTyped'
<1>1. pending' = [d \in Tabs |-> IF d = c THEN ps ELSE pending[d]] BY DEF PendingTyped
<1>. QED BY <1>1 DEF PendingTyped

LEMMA OpAppended ==
    ASSUME NEW ps, OpsTyped(ps), NEW p, p.cid \in Nat, BodyTyped(p.type, p.body)
    PROVE  OpsTyped(Append(ps, p))
<1>1. /\ IsSeq(Append(ps, p)) /\ DOMAIN Append(ps, p) = 1..(Len(ps) + 1)
      /\ \A i \in 1..Len(ps) : Append(ps, p)[i] = ps[i]
      /\ Append(ps, p)[Len(ps) + 1] = p
  BY AppendIsSeq DEF OpsTyped
<1>2. Len(ps) \in Nat /\ DOMAIN ps = 1..Len(ps) BY IsSeqDom DEF OpsTyped
<1>3. ASSUME NEW n \in 1..(Len(ps) + 1)
      PROVE  Append(ps, p)[n].cid \in Nat /\ BodyTyped(Append(ps, p)[n].type, Append(ps, p)[n].body)
  <2>1. CASE n \in 1..Len(ps) BY <1>1, <1>2, <2>1 DEF OpsTyped
  <2>2. CASE n = Len(ps) + 1 BY <1>1, <2>2
  <2>. QED BY <1>2, <2>1, <2>2
<1>. QED BY <1>1, <1>3 DEF OpsTyped

LEMMA SendsTyped ==
    ASSUME UpTyped, NEW c \in Tabs, NEW frames, FramesTyped(frames), Sends(c, frames)
    PROVE  (up' = up \/ UpTyped') /\ \A j \in jobs' : j \in jobs \/ JobTyped(j)
<1>1. CASE conn[c] = "open"
  <2>1. up' = [up EXCEPT ![c] = up[c] \o frames] /\ jobs' = jobs BY <1>1 DEF Sends
  <2>2. FramesTyped(up[c] \o frames) BY ConcatTyped DEF UpTyped
  <2>. QED BY <2>1, <2>2, UpPut
<1>2. CASE conn[c] # "open"
  <2>1. up' = up BY <1>2 DEF Sends
  <2>2. \A n \in DOMAIN frames : JobTyped(Http(c, frames[n])) BY NewJobTyped DEF FramesTyped
  <2>. QED BY <2>1, <2>2 DEF Sends
<1>. QED BY <1>1, <1>2

LEMMA SubmittedTyped ==
    ASSUME LogCidsOK, PendingTyped, NEW c \in Tabs, NEW type, NEW body, BodyTyped(type, body)
    PROVE  LET p == Submitted(c, type, body) IN
           OpsTyped(Append(pending[c], p)) /\ FramesTyped(<<OpFrame(p)>>)
<1>. DEFINE p == Submitted(c, type, body)
<1>1. p.cid = made + 1 /\ p.type = type /\ p.body = body BY DEF Submitted, MkPending
<1>2. made + 1 \in Nat BY DEF LogCidsOK
<1>. HIDE DEF p
<1>3. p.cid \in Nat /\ BodyTyped(p.type, p.body) BY <1>1, <1>2
<1>4. OpsTyped(Append(pending[c], p)) BY <1>3, OpAppended DEF PendingTyped
<1>5. FramesTyped(<<OpFrame(p)>>) BY <1>3, OpFrameTyped, OneFrameTyped
<1>. QED BY <1>4, <1>5 DEF p

LEMMA SubmitTyped ==
    ASSUME LogCidsOK, UpTyped, PendingTyped, NEW c \in Tabs, NEW type, NEW body,
           BodyTyped(type, body), SubmitOp(c, type, body)
    PROVE  /\ up' = up \/ UpTyped'
           /\ PendingTyped' /\ \A j \in jobs' : j \in jobs \/ JobTyped(j)
<1>. DEFINE p == Submitted(c, type, body)
<1>1. pending' = [pending EXCEPT ![c] = Append(pending[c], p)] /\ Sends(c, <<OpFrame(p)>>)
  BY DEF SubmitOp
<1>2. OpsTyped(Append(pending[c], p)) /\ FramesTyped(<<OpFrame(p)>>) BY SubmittedTyped
<1>. HIDE DEF p
<1>. QED BY <1>1, <1>2, PendingPut, SendsTyped

LEMMA PresentsTyped ==
    ASSUME UpTyped, EditorTyped, NEW c \in Tabs, NEW lk \in Ranges, NEW ops, FramesTyped(ops),
           Presents(c, lk, ops)
    PROVE  /\ up' = up \/ UpTyped'
           /\ presence' \in [Tabs -> Ranges] /\ \A j \in jobs' : j \in jobs \/ JobTyped(j)
<1>1. presence[c] \in Ranges BY DEF EditorTyped
<1>2. Merged(c, lk) \in Ranges BY <1>1 DEF Merged
<1>3. presence' \in [Tabs -> Ranges] BY <1>2, RangesOf DEF Presents, EditorTyped
<1>4. CASE conn[c] = "open"
  <2>. DEFINE q == (up[c] \o ops) \o <<Beat(Merged(c, lk))>>
  <2>1. up' = [up EXCEPT ![c] = q] /\ jobs' = jobs BY <1>4 DEF Presents
  <2>2. FramesTyped(q)
    <3>1. FramesTyped(up[c] \o ops) BY ConcatTyped DEF UpTyped
    <3>2. FramesTyped(<<Beat(Merged(c, lk))>>) BY <1>2, BeatTyped, OneFrameTyped
    <3>. QED BY <3>1, <3>2, ConcatTyped
  <2>. HIDE DEF q
  <2>. QED BY <1>3, <2>1, <2>2, UpPut
<1>5. CASE conn[c] # "open"
  <2>1. up' = up BY <1>5 DEF Presents
  <2>2. \A n \in DOMAIN ops : JobTyped(Http(c, ops[n])) BY NewJobTyped DEF FramesTyped
  <2>. QED BY <1>3, <2>1, <2>2 DEF Presents
<1>. QED BY <1>4, <1>5
-----------------------------------------------------------------------------
(* Every step keeps the types *)

\* A tab sends.
LEMMA EditTyped ==
    ASSUME LogCidsOK, Typed, NEW c \in Tabs, Edit(c)
    PROVE  Typed'
<1>0. /\ dom \in [Tabs -> Text] /\ EditorTyped /\ WireTyped /\ HistoryTyped /\ UpTyped
      /\ PendingTyped
  BY DEF Typed, EditorTyped
<1>. PICK i \in 0..Len(dom[c]), key \in plan.keys :
        LET op == Replace(i, key[1], SubSeq(<<made + 1>>, 1, key[2])) IN
        /\ dom' = [dom EXCEPT ![c] = ApplyReplace(@, op)]
        /\ SubmitOp(c, "replace", DiffPlainText(dom[c], dom'[c]))
        /\ timers' = [timers EXCEPT ![c] = @ \cup {"fullSync"}]
        /\ clash' \subseteq clash \cup {c}
        /\ UNCHANGED <<session, replies, down, conn, polling, seqVars, refs, lock,
                       peers, presence, todo, failed, plan, beats, faults>>
  BY DEF Edit
<1>. DEFINE ins == SubSeq(<<made + 1>>, 1, key[2])
            op == Replace(i, key[1], ins)
<1>1. key \in Nat \X {0, 1} BY <1>0, PlanAssumption DEF HistoryTyped
<1>2. ins \in Text
  <2>1. made + 1 \in Nat BY DEF LogCidsOK
  <2>2. <<made + 1>> \in Text /\ Len(<<made + 1>>) = 1 BY <2>1 DEF Text
  <2>3. key[2] \in Nat /\ 1 <= key[2] + 1 /\ key[2] <= 1 BY <1>1
  <2>4. key[2] <= Len(<<made + 1>>) /\ 1 \in Nat \ {0} BY <2>2, <2>3
  <2>. QED BY <2>2, <2>3, <2>4, SubText
<1>3. i \in Nat /\ key[1] \in Nat
  <2>1. dom[c] \in Text BY <1>0
  <2>2. Len(dom[c]) \in Nat BY <2>1 DEF Text
  <2>. QED BY <1>1, <2>2
<1>. HIDE DEF ins
<1>4. op \in Edits BY <1>2, <1>3, ReplaceTyped
<1>5. dom' = [dom EXCEPT ![c] = ApplyReplace(dom[c], op)] BY DEF op, ins
<1>. HIDE DEF op
<1>6. dom' \in [Tabs -> Text]
  <2>1. ApplyReplace(dom[c], op) \in Text BY <1>0, <1>4, ApplyTyped
  <2>. QED BY <1>0, <1>5, <2>1
<1>7. BodyTyped("replace", DiffPlainText(dom[c], dom'[c]))
  <2>1. DiffPlainText(dom[c], dom'[c]) \in Edits BY <1>0, <1>6, DiffTyped
  <2>. QED BY <2>1 DEF BodyTyped
<1>8. /\ up' = up \/ UpTyped'
      /\ PendingTyped' /\ \A j \in jobs' : j \in jobs \/ JobTyped(j)
  BY <1>0, <1>7, SubmitTyped
<1>9. EditorTyped' BY <1>0, <1>6 DEF EditorTyped
<1>10. WireTyped' BY <1>0 DEF WireTyped
<1>11. /\ clash' \subseteq Tabs /\ failed' \subseteq Nat /\ plan' = plan
       /\ beats' \in Nat /\ faults' \in Nat
  BY <1>0 DEF HistoryTyped
<1>. QED BY <1>8, <1>9, <1>10, <1>11, SameTyped

LEMMA CommitsTyped ==
    ASSUME LogCidsOK, Typed, NEW c \in Tabs, FullSync(c) \/ FormatRetry(c)
    PROVE  Typed'
<1>. DEFINE now == [html |-> dom[c], text |-> dom[c]]
<1>0. EditorTyped /\ WireTyped /\ HistoryTyped /\ UpTyped /\ PendingTyped BY DEF Typed
<1>1. now \in Docs /\ refs[c] \in Docs BY <1>0 DEF EditorTyped, Docs
<1>2. /\ session' = session /\ replies' = replies /\ down' = down /\ conn' = conn
      /\ polling' = polling /\ dom' = dom /\ lock' = lock /\ presence' = presence
      /\ todo' = todo /\ clash' = clash /\ failed' = failed /\ plan' = plan
      /\ beats' = beats /\ faults' = faults
  BY DEF FullSync, FormatRetry
<1>3. refs' = refs \/ refs' = [refs EXCEPT ![c] = now] BY DEF FullSync, FormatRetry
<1>4. \E d \in Docs : SubmitOp(c, "format_commit", d)
  BY <1>1 DEF FullSync, FormatRetry
<1>5. \A d \in Docs : BodyTyped("format_commit", d) BY DEF BodyTyped
<1>. HIDE DEF now
<1>6. /\ up' = up \/ UpTyped'
      /\ PendingTyped' /\ \A j \in jobs' : j \in jobs \/ JobTyped(j)
  BY <1>0, <1>4, <1>5, SubmitTyped
<1>7. EditorTyped' BY <1>0, <1>1, <1>2, <1>3 DEF EditorTyped
<1>8. \E t : timers' = [timers EXCEPT ![c] = @ \ {t}] BY DEF FullSync, FormatRetry
<1>9. WireTyped' BY <1>0, <1>2, <1>8 DEF WireTyped
<1>10. clash \subseteq Tabs /\ failed \subseteq Nat /\ beats \in Nat /\ faults \in Nat
  BY <1>0 DEF HistoryTyped
<1>. QED BY <1>2, <1>6, <1>7, <1>9, <1>10, SameTyped

LEMMA CaretTyped ==
    ASSUME LogCidsOK, Typed, NEW c \in Tabs, MoveCaret(c) \/ ReleaseLock(c)
    PROVE  Typed'
<1>0. EditorTyped /\ WireTyped /\ HistoryTyped /\ UpTyped /\ PendingTyped BY DEF Typed
<1>1. /\ session' = session /\ replies' = replies /\ down' = down /\ conn' = conn
      /\ polling' = polling /\ dom' = dom /\ refs' = refs /\ timers' = timers
      /\ todo' = todo /\ clash' = clash /\ failed' = failed /\ plan' = plan
      /\ faults' = faults
  BY DEF MoveCaret, ReleaseLock
<1>2. ASSUME NEW r \in Ranges, NEW type \in {"lock", "unlock"},
             lock' = [lock EXCEPT ![c] = r],
             pending' = [pending EXCEPT ![c] = Append(@, Submitted(c, type, r))],
             Presents(c, r, <<OpFrame(Submitted(c, type, r))>>)
      PROVE  /\ up' = up \/ UpTyped'
             /\ PendingTyped' /\ EditorTyped' /\ \A j \in jobs' : j \in jobs \/ JobTyped(j)
  <2>. DEFINE p == Submitted(c, type, r)
  <2>1. BodyTyped(type, r) BY DEF BodyTyped
  <2>2. OpsTyped(Append(pending[c], p)) /\ FramesTyped(<<OpFrame(p)>>)
    BY <1>0, <2>1, SubmittedTyped
  <2>3. pending' = [pending EXCEPT ![c] = Append(pending[c], p)] BY <1>2
  <2>4. Presents(c, r, <<OpFrame(p)>>) BY <1>2
  <2>. HIDE DEF p
  <2>5. PendingTyped' BY <1>0, <2>2, <2>3, PendingPut
  <2>6. /\ up' = up \/ UpTyped'
        /\ presence' \in [Tabs -> Ranges] /\ \A j \in jobs' : j \in jobs \/ JobTyped(j)
    BY <1>0, <2>2, <2>4, PresentsTyped
  <2>7. EditorTyped' BY <1>0, <1>1, <1>2, <2>6 DEF EditorTyped
  <2>. QED BY <2>5, <2>6, <2>7
<1>3. clash \subseteq Tabs /\ failed \subseteq Nat /\ beats \in Nat /\ faults \in Nat
  BY <1>0 DEF HistoryTyped
<1>4. CASE MoveCaret(c)
  <2>1. CASE \E s \in 0..Len(dom[c]), e \in 0..Len(dom[c]) :
               LET r == [start |-> s, end |-> e]
                   p == Submitted(c, "lock", r)
               IN  /\ lock' = [lock EXCEPT ![c] = r]
                   /\ pending' = [pending EXCEPT ![c] = Append(@, p)]
                   /\ Presents(c, r, <<OpFrame(p)>>) /\ beats' = beats
    <3>. PICK s \in 0..Len(dom[c]), e \in 0..Len(dom[c]) :
               LET r == [start |-> s, end |-> e]
                   p == Submitted(c, "lock", r)
               IN  /\ lock' = [lock EXCEPT ![c] = r]
                   /\ pending' = [pending EXCEPT ![c] = Append(@, p)]
                   /\ Presents(c, r, <<OpFrame(p)>>) /\ beats' = beats
      BY <2>1
    <3>. DEFINE r == [start |-> s, end |-> e]
    <3>1. r \in Ranges
      <4>1. dom[c] \in Text BY <1>0 DEF EditorTyped
      <4>2. Len(dom[c]) \in Nat BY <4>1 DEF Text
      <4>. QED BY <4>2 DEF Ranges
    <3>2. /\ lock' = [lock EXCEPT ![c] = r]
          /\ pending' = [pending EXCEPT ![c] = Append(@, Submitted(c, "lock", r))]
          /\ Presents(c, r, <<OpFrame(Submitted(c, "lock", r))>>) /\ beats' = beats
      OBVIOUS
    <3>. HIDE DEF r
    <3>3. /\ up' = up \/ UpTyped'
          /\ PendingTyped' /\ EditorTyped' /\ \A j \in jobs' : j \in jobs \/ JobTyped(j)
      BY <1>2, <3>1, <3>2
    <3>. QED BY <1>1, <1>3, <3>2, <3>3, SameTyped
  <2>2. CASE beats' = beats + 1 /\ Presents(c, Keep, <<>>) /\ UNCHANGED <<lock, pending>>
    <3>1. FramesTyped(<<>>) BY PairIsSeq DEF FramesTyped
    <3>2. /\ up' = up \/ UpTyped'
          /\ presence' \in [Tabs -> Ranges] /\ \A j \in jobs' : j \in jobs \/ JobTyped(j)
      BY <1>0, <2>2, <3>1, RangesOf, PresentsTyped
    <3>3. EditorTyped' BY <1>0, <1>1, <2>2, <3>2 DEF EditorTyped
    <3>4. beats' \in Nat BY <1>3, <2>2
    <3>. QED BY <1>1, <1>3, <2>2, <3>2, <3>3, <3>4, SameTyped
  <2>. QED BY <1>4, <2>1, <2>2 DEF MoveCaret
<1>5. CASE ReleaseLock(c)
  <2>1. /\ lock' = [lock EXCEPT ![c] = NoRange]
        /\ pending' = [pending EXCEPT ![c] = Append(@, Submitted(c, "unlock", NoRange))]
        /\ Presents(c, NoRange, <<OpFrame(Submitted(c, "unlock", NoRange))>>) /\ beats' = beats
    BY <1>5 DEF ReleaseLock
  <2>2. /\ up' = up \/ UpTyped'
        /\ PendingTyped' /\ EditorTyped' /\ \A j \in jobs' : j \in jobs \/ JobTyped(j)
    BY <1>2, <2>1, RangesOf
  <2>. QED BY <1>1, <1>3, <2>1, <2>2, SameTyped
<1>. QED BY <1>4, <1>5
-----------------------------------------------------------------------------
LEMMA SocketTyped ==
    ASSUME Inv, Typed, NEW c \in Tabs,
           Start(c) \/ FlushPresence(c) \/ Open(c) \/ Drop(c) \/ Poll(c) \/ Stop(c)
    PROVE  Typed'
<1>0. EditorTyped /\ WireTyped /\ HistoryTyped /\ UpTyped /\ PendingTyped /\ DownTyped
  BY DEF Typed
<1>. DEFINE h == clash' \subseteq Tabs /\ failed' \subseteq Nat /\ plan' = plan
                   /\ beats' \in Nat /\ faults' \in Nat
<1>1. clash \subseteq Tabs /\ failed \subseteq Nat /\ beats \in Nat /\ faults \in Nat
  BY <1>0 DEF HistoryTyped
<1>e. FramesTyped(<<>>) /\ OpsTyped(<<>>) BY PairIsSeq DEF FramesTyped, OpsTyped
<1>d. ASSUME down' = [down EXCEPT ![c] = <<>>] PROVE DownTyped'
  <2>1. down' = [d \in Tabs |-> IF d = c THEN <<>> ELSE down[d]] BY <1>d DEF Inv, DownOK
  <2>2. DOMAIN <<>> = {} OBVIOUS
  <2>. QED BY <1>0, <2>1, <2>2 DEF DownTyped
<1>2. CASE Start(c)
  <2>1. dom[c] \in Text BY <1>0 DEF EditorTyped
  <2>2. JobTyped(Http(c, [kind |-> "join", seed |-> dom[c]]))
    <3>1. ReqTyped([kind |-> "join", seed |-> dom[c]]) BY <2>1 DEF ReqTyped
    <3>. QED BY <3>1, NewJobTyped
  <2>3. \A j \in jobs' : j \in jobs \/ JobTyped(j) BY <1>2, <2>2 DEF Start
  <2>4. EditorTyped'
    <3>1. [html |-> dom[c], text |-> dom[c]] \in Docs BY <2>1 DEF Docs
    <3>. QED BY <1>0, <1>2, <3>1 DEF Start, EditorTyped
  <2>5. WireTyped' BY <1>0, <1>2 DEF Start, WireTyped
  <2>6. h BY <1>1, <1>2 DEF Start, bounds
  <2>7. /\ session' = session /\ replies' = replies /\ up' = up /\ pending' = pending
        /\ todo' = todo /\ down' = down
    BY <1>2 DEF Start
  <2>. QED BY <2>3, <2>4, <2>5, <2>6, <2>7, SameTyped
<1>3. CASE FlushPresence(c)
  <2>1. presence[c] \in Ranges BY <1>0 DEF EditorTyped
  <2>2. JobTyped(Http(c, Beat(presence[c]))) BY <2>1, BeatTyped, NewJobTyped
  <2>3. \A j \in jobs' : j \in jobs \/ JobTyped(j) BY <1>3, <2>2 DEF FlushPresence
  <2>4. EditorTyped' BY <1>0, <1>3, RangesOf DEF FlushPresence, EditorTyped
  <2>6. h BY <1>1, <1>3 DEF FlushPresence, bounds
  <2>7. /\ session' = session /\ replies' = replies /\ up' = up /\ pending' = pending
        /\ todo' = todo /\ down' = down /\ conn' = conn /\ polling' = polling
        /\ timers' = timers
    BY <1>3 DEF FlushPresence, wireVars
  <2>. QED BY <2>3, <2>4, <2>6, <2>7, SameTyped
<1>4. CASE Open(c)
  <2>. DEFINE ps == pending[c]
              raised == [n \in DOMAIN ps |->
                           IF ps[n].inFlight THEN ps[n] ELSE Raised(ps[n], latest[c])]
              T == {n \in DOMAIN ps : ~ps[n].inFlight}
              again == Kept(ps, T)
              sent == [n \in DOMAIN again |-> OpFrame(Raised(again[n], latest[c]))]
  <2>0. OpsTyped(ps) BY <1>0 DEF PendingTyped
  <2>1. /\ pending' = [pending EXCEPT ![c] = raised]
        /\ up' = [up EXCEPT ![c] = <<[kind |-> "sync", after |-> latest[c]]>> \o sent]
    BY <1>4 DEF Open
  <2>2. Len(ps) \in Nat /\ DOMAIN ps = 1..Len(ps) BY <2>0, IsSeqDom DEF OpsTyped
  <2>. HIDE DEF ps
  <2>3. \A p : /\ Raised(p, latest[c]).cid = p.cid /\ Raised(p, latest[c]).type = p.type
               /\ Raised(p, latest[c]).body = p.body
    BY DEF Raised, MkPending
  <2>4. OpsTyped(raised)
    <3>1. raised = [n \in 1..Len(ps) |-> raised[n]] BY <2>2
    <3>2. \A n \in DOMAIN ps : raised[n] = ps[n] \/ raised[n] = Raised(ps[n], latest[c])
      OBVIOUS
    <3>. HIDE DEF raised
    <3>3. IsSeq(raised) /\ DOMAIN raised = DOMAIN ps BY <2>2, <3>1, FunIsSeq
    <3>4. ASSUME NEW n \in DOMAIN ps
          PROVE  raised[n].cid \in Nat /\ BodyTyped(raised[n].type, raised[n].body)
      <4>1. /\ raised[n].cid = ps[n].cid /\ raised[n].type = ps[n].type
            /\ raised[n].body = ps[n].body
        BY <2>3, <3>2
      <4>. QED BY <2>0, <4>1 DEF OpsTyped
    <3>. QED BY <3>3, <3>4 DEF OpsTyped
  <2>5. FramesTyped(sent)
    <3>. HIDE DEF T
    <3>1. IsSeq(again) /\ \A k \in DOMAIN again : \E n \in DOMAIN ps : n \in T /\ again[k] = ps[n]
      BY <2>0, KeptOf DEF OpsTyped
    <3>. HIDE DEF again
    <3>2. Len(again) \in Nat /\ DOMAIN again = 1..Len(again) BY <3>1, IsSeqDom
    <3>3. sent = [n \in 1..Len(again) |-> sent[n]] BY <3>2
    <3>4. IsSeq(sent) /\ DOMAIN sent = DOMAIN again BY <3>2, <3>3, FunIsSeq
    <3>5. ASSUME NEW n \in DOMAIN again PROVE ReqTyped(sent[n])
      <4>1. again[n].cid \in Nat /\ BodyTyped(again[n].type, again[n].body)
        BY <2>0, <3>1 DEF OpsTyped
      <4>. DEFINE p == Raised(again[n], latest[c])
      <4>2. p.cid \in Nat /\ BodyTyped(p.type, p.body) BY <2>3, <4>1
      <4>3. sent[n] = OpFrame(p) OBVIOUS
      <4>. HIDE DEF p
      <4>. QED BY <4>2, <4>3, OpFrameTyped
    <3>. QED BY <3>4, <3>5 DEF FramesTyped
  <2>. HIDE DEF sent, raised
  <2>6. UpTyped'
    <3>1. FramesTyped(<<[kind |-> "sync", after |-> latest[c]]>>) BY PlainReqs, OneFrameTyped
    <3>2. FramesTyped(<<[kind |-> "sync", after |-> latest[c]]>> \o sent)
      BY <2>5, <3>1, ConcatTyped
    <3>. QED BY <1>0, <2>1, <3>2, UpPut
  <2>7. PendingTyped' BY <1>0, <2>1, <2>4, PendingPut
  <2>8. WireTyped' BY <1>0, <1>4 DEF Open, WireTyped
  <2>9. h BY <1>1, <1>4 DEF Open, bounds
  <2>10. /\ session' = session /\ replies' = replies /\ jobs' = jobs /\ todo' = todo
         /\ down' = down /\ dom' = dom /\ refs' = refs /\ lock' = lock /\ presence' = presence
    BY <1>4 DEF Open, serverVars
  <2>. QED BY <2>6, <2>7, <2>8, <2>9, <2>10, SameTyped
<1>5. CASE Drop(c)
  <2>1. up' = [up EXCEPT ![c] = <<>>] /\ down' = [down EXCEPT ![c] = <<>>]
    BY <1>5 DEF Drop
  <2>2. UpTyped' BY <1>0, <1>e, <2>1, UpPut
  <2>3. DownTyped' BY <1>d, <2>1
  <2>4. ASSUME NEW i \in jobs' PROVE i \in jobs \/ JobTyped(i)
    <3>1. ASSUME NEW j \in Orphans(c), i = Orphan(j) PROVE JobTyped(i)
      <4>1. JobTyped(j) BY DEF Orphans, Typed, JobsTyped
      <4>. QED BY <3>1, <4>1, OrphanFields DEF JobTyped
    <3>2. JobTyped(GetOps(c)) BY PlainReqs, NewJobTyped DEF GetOps
    <3>3. CASE up[c] # <<>> /\ i = Orphan(Frame(c))
      <4>1. ReqTyped(Head(up[c])) BY <1>0, <3>3, HeadTyped
      <4>. QED BY <3>3, <4>1, ReceivedFields DEF JobTyped
    <3>. QED BY <1>5, <3>1, <3>2, <3>3, DropJobs
  <2>5. /\ WireTyped' /\ h
    BY <1>0, <1>1, <1>5 DEF Drop, WireTyped, editorVars
  <2>6. /\ session' = session /\ replies' = replies /\ pending' = pending /\ todo' = todo
        /\ dom' = dom /\ refs' = refs /\ lock' = lock /\ presence' = presence
    BY <1>5 DEF Drop, editorVars
  <2>. QED BY <2>2, <2>3, <2>4, <2>5, <2>6, SameTyped
<1>6. CASE Poll(c)
  <2>1. \A j \in jobs' : j \in jobs \/ JobTyped(j)
    BY <1>6, PlainReqs, NewJobTyped DEF Poll, GetOps
  <2>2. h BY <1>1, <1>6 DEF Poll, bounds
  <2>3. /\ session' = session /\ replies' = replies /\ up' = up /\ pending' = pending
        /\ todo' = todo /\ down' = down /\ conn' = conn /\ polling' = polling
        /\ timers' = timers /\ dom' = dom /\ refs' = refs /\ lock' = lock /\ presence' = presence
    BY <1>6 DEF Poll, wireVars, editorVars
  <2>. QED BY <2>1, <2>2, <2>3, SameTyped
<1>7. CASE Stop(c)
  <2>1. /\ up' = [up EXCEPT ![c] = <<>>] /\ down' = [down EXCEPT ![c] = <<>>]
        /\ pending' = [pending EXCEPT ![c] = <<>>]
    BY <1>7 DEF Stop
  <2>2. UpTyped' /\ PendingTyped' BY <1>0, <1>e, <2>1, UpPut, PendingPut
  <2>3. DownTyped' BY <1>d, <2>1
  <2>4. WireTyped' /\ EditorTyped' BY <1>0, <1>7, RangesOf DEF Stop, WireTyped, EditorTyped
  <2>5. h BY <1>1, <1>7 DEF Stop, bounds
  <2>6. session' = session /\ replies' = replies /\ jobs' = jobs /\ todo' = todo
    BY <1>7 DEF Stop, serverVars
  <2>. QED BY <2>2, <2>3, <2>4, <2>5, <2>6, SameTyped
<1>. QED BY <1>2, <1>3, <1>4, <1>5, <1>6, <1>7

LEMMA FailureTyped ==
    ASSUME NEW c, NEW req, ReqTyped(req), NEW code
    PROVE  ReplyTyped(MkReply(c, req, FALSE, <<ErrorItem(code, 0)>>))
<1>1. ItemTyped(ErrorItem(code, 0)) BY DEF ItemTyped, ErrorItem
<1>2. ItemsTyped(<<ErrorItem(code, 0)>>) BY <1>1, PairIsSeq DEF ItemsTyped
<1>. QED BY <1>2 DEF ReplyTyped, MkReply

LEMMA LoseTyped ==
    ASSUME Typed, NEW c \in Tabs, LoseHttp(c)
    PROVE  Typed'
<1>0. JobsTyped /\ RepliesTyped /\ HistoryTyped BY DEF Typed
<1>1. \A j \in jobs' : j \in jobs BY DEF LoseHttp
<1>2. \A r \in replies' : r \in replies \/ ReplyTyped(r)
  <2>1. \E x \in jobs \cup replies : \A r \in replies' :
          r \in replies \/ r = MkReply(c, x.req, FALSE, <<ErrorItem("network", 0)>>)
    BY DEF LoseHttp
  <2>2. \A x \in jobs \cup replies : ReqTyped(x.req)
    BY <1>0 DEF JobsTyped, RepliesTyped, JobTyped, ReplyTyped
  <2>. QED BY <2>1, <2>2, FailureTyped
<1>3. /\ clash' \subseteq Tabs /\ failed' \subseteq Nat
      /\ plan' = plan /\ beats' \in Nat /\ faults' \in Nat
  BY <1>0 DEF LoseHttp, HistoryTyped
<1>4. /\ session' = session /\ up' = up /\ pending' = pending
      /\ todo' = todo /\ down' = down /\ conn' = conn /\ polling' = polling
      /\ timers' = timers /\ dom' = dom /\ refs' = refs /\ lock' = lock /\ presence' = presence
  BY DEF LoseHttp, wireVars, editorVars
<1>. QED BY <1>1, <1>2, <1>3, <1>4, SameTyped

LEMMA TodoPut ==
    ASSUME NEW c, NEW items, ItemsTyped(items), todo' = At(c, items)
    PROVE  TodoTyped'
<1>1. DOMAIN todo' = DOMAIN items /\ \A n \in DOMAIN items : todo'[n].item = items[n]
  BY DEF At
<1>. QED BY <1>1 DEF TodoTyped, ItemsTyped

LEMMA ReceiveTyped ==
    ASSUME Inv, Typed, NEW c \in Tabs, Receive(c)
    PROVE  Typed'
<1>0. /\ down[c] # <<>> /\ todo' = At(c, Head(down[c])) /\ down' = [down EXCEPT ![c] = Tail(@)]
      /\ DownTyped /\ HistoryTyped
  BY DEF Receive, Typed
<1>1. IsSeq(down[c]) BY DEF Inv, DownOK, GoodFrames
<1>2. /\ Len(down[c]) \in Nat \ {0} /\ Head(down[c]) = down[c][1]
      /\ DOMAIN Tail(down[c]) = 1..(Len(down[c]) - 1)
      /\ \A i \in 1..(Len(down[c]) - 1) : Tail(down[c])[i] = down[c][i + 1]
  BY <1>0, <1>1, TailIsSeq
<1>3. DOMAIN down[c] = 1..Len(down[c]) BY <1>1, IsSeqDom
<1>4. ItemsTyped(Head(down[c])) BY <1>0, <1>2, <1>3 DEF DownTyped
<1>5. TodoTyped' BY <1>0, <1>4, TodoPut
<1>6. DownTyped'
  <2>1. down' = [d \in Tabs |-> IF d = c THEN Tail(down[c]) ELSE down[d]]
    BY <1>0 DEF Inv, DownOK
  <2>2. \A n \in DOMAIN Tail(down[c]) : ItemsTyped(Tail(down[c])[n])
    BY <1>0, <1>2, <1>3 DEF DownTyped
  <2>. QED BY <1>0, <2>1, <2>2 DEF DownTyped
<1>7. /\ clash' \subseteq Tabs /\ failed' \subseteq Nat
      /\ plan' = plan /\ beats' \in Nat /\ faults' \in Nat
  BY <1>0 DEF Receive, HistoryTyped, bounds
<1>8. /\ session' = session /\ jobs' = jobs /\ replies' = replies /\ up' = up
      /\ pending' = pending /\ conn' = conn /\ polling' = polling
      /\ timers' = timers /\ dom' = dom /\ refs' = refs /\ lock' = lock /\ presence' = presence
  BY DEF Receive, serverVars, editorVars
<1>. QED BY <1>5, <1>6, <1>7, <1>8, SameTyped
-----------------------------------------------------------------------------
LEMMA UnsentTyped ==
    ASSUME NEW ps, OpsTyped(ps), NEW cid
    PROVE  OpsTyped(Unsent(ps, cid))
<1>. DEFINE q == Unsent(ps, cid)
<1>1. Len(ps) \in Nat /\ DOMAIN ps = 1..Len(ps) BY IsSeqDom DEF OpsTyped
<1>2. q = [i \in 1..Len(ps) |-> q[i]] BY <1>1 DEF Unsent
<1>3. IsSeq(q) /\ DOMAIN q = DOMAIN ps BY <1>1, <1>2, FunIsSeq
<1>4. ASSUME NEW n \in DOMAIN ps PROVE q[n].cid \in Nat /\ BodyTyped(q[n].type, q[n].body)
  <2>1. \/ q[n] = ps[n]
        \/ q[n] = MkPending(cid, ps[n].base, ps[n].type, ps[n].body, FALSE) /\ ps[n].cid = cid
    BY DEF Unsent
  <2>. HIDE DEF q
  <2>2. q[n].cid = ps[n].cid /\ q[n].type = ps[n].type /\ q[n].body = ps[n].body
    BY <2>1 DEF MkPending
  <2>. QED BY <2>2 DEF OpsTyped
<1>. QED BY <1>3, <1>4 DEF OpsTyped

LEMMA AnswerTyped ==
    ASSUME Inv, Typed, NEW r \in replies, Answer(r)
    PROVE  Typed'
<1>0. /\ r.tab \in Tabs /\ ReplyTyped(r) /\ HistoryTyped /\ WireTyped /\ EditorTyped
  BY DEF Inv, RepliesOK, ReplyOK, Typed, RepliesTyped
<1>. DEFINE c == r.tab
            html == r.items[1].view.html
<1>. PICK show \in {FALSE, r.ok /\ r.req.kind = "join" /\ html # r.req.seed} :
        /\ replies' = replies \ {r} /\ todo' = At(c, r.items)
        /\ conn' = IF r.req.kind = "join" THEN [conn EXCEPT ![c] = "connecting"] ELSE conn
        /\ dom' = IF show THEN [dom EXCEPT ![c] = html] ELSE dom
        /\ clash' \subseteq clash \cup {c}
        /\ UNCHANGED <<session, jobs, up, down, polling, seqVars, pending, refs, lock,
                       peers, presence, timers, failed, bounds>>
  BY DEF Answer
<1>1. TodoTyped' BY <1>0, TodoPut DEF ReplyTyped
<1>2. show => html \in Text BY <1>0 DEF ReplyTyped, ViewTyped
<1>. HIDE DEF html
<1>3. EditorTyped' BY <1>0, <1>2 DEF EditorTyped
<1>4. WireTyped' BY <1>0 DEF WireTyped
<1>5. /\ clash' \subseteq Tabs /\ failed' \subseteq Nat
      /\ plan' = plan /\ beats' \in Nat /\ faults' \in Nat
  BY <1>0 DEF HistoryTyped, bounds
<1>. QED BY <1>1, <1>3, <1>4, <1>5, SameTyped

LEMMA FailedTyped ==
    ASSUME Inv, Typed, NEW r \in replies, AnswerFailed(r)
    PROVE  Typed'
<1>0. /\ r.tab \in Tabs /\ ReplyTyped(r) /\ HistoryTyped /\ WireTyped /\ PendingTyped /\ UpTyped
  BY DEF Inv, RepliesOK, ReplyOK, Typed, RepliesTyped
<1>. DEFINE c == r.tab
<1>1. /\ session' = session /\ replies' = replies \ {r} /\ down' = down /\ conn' = conn
      /\ polling' = polling /\ dom' = dom /\ refs' = refs /\ lock' = lock
      /\ presence' = presence /\ todo' = todo /\ clash' = clash /\ plan' = plan
      /\ beats' = beats /\ faults' = faults
  BY DEF AnswerFailed, bounds
<1>2. pending' = pending \/ PendingTyped'
  <2>1. pending' = pending \/ pending' = [pending EXCEPT ![c] = Unsent(pending[c], r.req.cid)]
    BY DEF AnswerFailed
  <2>2. OpsTyped(Unsent(pending[c], r.req.cid)) BY <1>0, UnsentTyped DEF PendingTyped
  <2>. QED BY <1>0, <2>1, <2>2, PendingPut
<1>3. failed' \subseteq Nat
  <2>1. r.req.kind = "op" => r.req.cid \in Nat BY <1>0 DEF ReplyTyped, ReqTyped
  <2>. QED BY <1>0, <2>1 DEF AnswerFailed, HistoryTyped
<1>4. (up' = up \/ UpTyped') /\ \A j \in jobs' : j \in jobs \/ JobTyped(j)
  <2>1. \/ up' = up /\ jobs' = jobs
        \/ \E k \in {"sync", "ops"} : Sends(c, <<[kind |-> k, after |-> latest[c]]>>)
    BY DEF AnswerFailed
  <2>2. \A k \in {"sync", "ops"} : FramesTyped(<<[kind |-> k, after |-> latest[c]]>>)
    BY PlainReqs, OneFrameTyped
  <2>. QED BY <1>0, <2>1, <2>2, SendsTyped
<1>5. WireTyped'
  <2>1. timers' = timers \/ timers' = [timers EXCEPT ![c] = @ \cup {"formatRetry"}]
    BY DEF AnswerFailed
  <2>. QED BY <1>0, <1>1, <2>1 DEF WireTyped
<1>6. clash' \subseteq Tabs /\ beats' \in Nat /\ faults' \in Nat BY <1>0, <1>1 DEF HistoryTyped
<1>. QED BY <1>1, <1>2, <1>3, <1>4, <1>5, <1>6, SameTyped

LEMMA WithoutTyped ==
    ASSUME NEW ps, OpsTyped(ps), NEW cid
    PROVE  OpsTyped(Without(ps, cid))
<1>. DEFINE T == {n \in DOMAIN ps : ps[n].cid # cid}
<1>1. Without(ps, cid) = Kept(ps, T) BY DEF Without
<1>. HIDE DEF T
<1>2. /\ IsSeq(Kept(ps, T))
      /\ \A k \in DOMAIN Kept(ps, T) : \E n \in DOMAIN ps : n \in T /\ Kept(ps, T)[k] = ps[n]
  BY KeptOf DEF OpsTyped
<1>. QED BY <1>1, <1>2 DEF OpsTyped

\* A remote op against the pending ones, and they against it.
LEMMA AgainstTyped ==
    ASSUME NEW op, op.body \in Edits, NEW ps, OpsTyped(ps)
    PROVE  Against(op, ps) \in Edits
<1>. DEFINE T == {n \in DOMAIN ps : LivePayload(ps[n])}
            k == Kept(ps, T)
            s == [n \in DOMAIN k |-> k[n].body]
<1>0. \A n \in T : ps[n].body \in Edits BY DEF OpsTyped, BodyTyped, LivePayload
<1>1. Against(op, ps) = TransformReplaceThrough(op.body, s) BY DEF Against
<1>. HIDE DEF T
<1>2. IsSeq(k) /\ \A i \in DOMAIN k : \E n \in DOMAIN ps : n \in T /\ k[i] = ps[n]
  BY KeptOf DEF OpsTyped
<1>3. \A i \in DOMAIN k : k[i].body \in Edits BY <1>0, <1>2
<1>. HIDE DEF k
<1>4. Len(k) \in Nat /\ DOMAIN k = 1..Len(k) BY <1>2, IsSeqDom
<1>5. s = [i \in 1..Len(k) |-> s[i]] BY <1>4
<1>6. IsSeq(s) /\ DOMAIN s = 1..Len(k) BY <1>4, <1>5, FunIsSeq
<1>7. \A n \in DOMAIN s : s[n] \in Edits BY <1>3, <1>4
<1>. HIDE DEF s
<1>. QED BY <1>1, <1>6, <1>7, ThroughTyped

LEMMA RebasedPending ==
    ASSUME NEW op, op.type = "replace" => op.body \in Edits, NEW ps, OpsTyped(ps)
    PROVE  OpsTyped(Through(ps, op))
<1>. DEFINE q == Through(ps, op)
<1>1. Len(ps) \in Nat /\ DOMAIN ps = 1..Len(ps) BY IsSeqDom DEF OpsTyped
<1>2. q = [i \in 1..Len(ps) |-> q[i]] BY <1>1 DEF Through
<1>3. IsSeq(q) /\ DOMAIN q = DOMAIN ps BY <1>1, <1>2, FunIsSeq
<1>4. ASSUME NEW n \in DOMAIN ps PROVE q[n].cid \in Nat /\ BodyTyped(q[n].type, q[n].body)
  <2>0. ps[n].cid \in Nat /\ BodyTyped(ps[n].type, ps[n].body) BY DEF OpsTyped
  <2>. DEFINE b == TransformReplace(ps[n].body, op.body)
              a == IF ps[n].inFlight THEN ps[n].base ELSE Larger(ps[n].base, op.seq)
  <2>1. CASE op.type # "replace" \/ ~LivePayload(ps[n])
    <3>1. q[n] = ps[n] BY <2>1 DEF Through
    <3>. HIDE DEF q
    <3>. QED BY <2>0, <3>1
  <2>2. CASE ~(op.type # "replace" \/ ~LivePayload(ps[n]))
    <3>1. q[n] = MkPending(ps[n].cid, a, ps[n].type, b, ps[n].inFlight) BY <2>2 DEF Through
    <3>2. ps[n].type = "replace" /\ op.body \in Edits BY <2>2 DEF LivePayload
    <3>3. ps[n].body \in Edits BY <2>0, <3>2 DEF BodyTyped
    <3>4. b \in Edits BY <3>2, <3>3, TransformTyped
    <3>. HIDE DEF q, a, b
    <3>5. q[n].cid = ps[n].cid /\ q[n].type = "replace" /\ q[n].body = b
      BY <3>1, <3>2 DEF MkPending
    <3>. QED BY <2>0, <3>4, <3>5 DEF BodyTyped
  <2>. QED BY <2>1, <2>2
<1>. QED BY <1>3, <1>4 DEF OpsTyped

LEMMA TodoCut ==
    ASSUME Inv, Typed, todo # <<>>, todo' = Tail(todo)
    PROVE  TodoTyped' /\ Head(todo).tab \in Tabs /\ ItemTyped(Head(todo).item)
           /\ GoodItem(session.log, Head(todo).item)
<1>1. /\ IsSeq(Tail(todo)) /\ Len(todo) \in Nat \ {0} /\ Head(todo) = todo[1]
      /\ DOMAIN Tail(todo) = 1..(Len(todo) - 1)
      /\ \A i \in 1..(Len(todo) - 1) : Tail(todo)[i] = todo[i + 1]
  BY TailIsSeq DEF Inv, TodoOK
<1>2. DOMAIN todo = 1..Len(todo) BY IsSeqDom DEF Inv, TodoOK
<1>3. TodoTyped' /\ ItemTyped(Head(todo).item) BY <1>1, <1>2 DEF Typed, TodoTyped
<1>4. Head(todo).tab \in Tabs /\ GoodItem(session.log, Head(todo).item)
  BY <1>1, <1>2 DEF Inv, TodoOK
<1>. QED BY <1>3, <1>4

\* ingestOp.
LEMMA StepOpTyped ==
    ASSUME Inv, Typed, StepOp
    PROVE  Typed'
<1>. DEFINE c == Head(todo).tab
            it == Head(todo).item
            op == it.op
            rest == Without(pending[c], op.cid)
            body == IF op.type = "replace" /\ ~IsNoop(op.body) THEN Against(op, rest) ELSE op.body
<1>0. /\ todo # <<>> /\ todo' = Tail(todo) /\ it.k = "op"
      /\ IngestOp(c, it) \/ UNCHANGED <<latest, pending, seen, lock, dom, refs, clash>>
      /\ session' = session /\ jobs' = jobs /\ replies' = replies /\ up' = up /\ down' = down
      /\ conn' = conn /\ polling' = polling /\ presence' = presence /\ timers' = timers
      /\ failed' = failed /\ plan' = plan /\ beats' = beats /\ faults' = faults
  BY DEF StepOp, serverVars, wireVars, bounds
<1>1. TodoTyped' /\ c \in Tabs /\ GoodItem(session.log, it) BY <1>0, TodoCut
<1>2. EditorTyped /\ HistoryTyped /\ PendingTyped BY DEF Typed
<1>3. BodyTyped(op.type, op.body)
  <2>1. op.seq \in 1..Len(session.log) /\ op = session.log[op.seq]
    BY <1>0, <1>1 DEF GoodItem, In
  <2>2. LogTyped(session.log) BY DEF Typed, SessionTyped, CopyTyped
  <2>3. DOMAIN session.log = 1..Len(session.log) BY <2>2, IsSeqDom DEF LogTyped
  <2>. QED BY <2>1, <2>2, <2>3 DEF LogTyped
<1>4. /\ clash \subseteq Tabs /\ failed' \subseteq Nat
      /\ plan' = plan /\ beats' \in Nat /\ faults' \in Nat
  BY <1>0, <1>2 DEF HistoryTyped
<1>5. CASE UNCHANGED <<latest, pending, seen, lock, dom, refs, clash>>
  BY <1>0, <1>1, <1>4, <1>5, SameTyped
<1>6. CASE IngestOp(c, it)
  <2>1. \/ pending' = [pending EXCEPT ![c] = rest]
        \/ pending' = [pending EXCEPT ![c] = Through(rest, op)]
    BY <1>6 DEF IngestOp
  <2>2. clash' \subseteq Tabs
    <3>1. clash' \subseteq clash \cup {c} BY <1>6 DEF IngestOp
    <3>. QED BY <1>1, <1>4, <3>1
  <2>3. /\ \/ lock' = lock
           \/ op.type = "replace" /\ lock' = [lock EXCEPT ![c] = TransformRange(@, body)]
        /\ dom' = dom \/ dom' = [dom EXCEPT ![c] = Shown(@, op.type, body)]
        /\ refs' = refs \/ (op.type = "format_commit" /\ refs' = [refs EXCEPT ![c] = body])
    BY <1>6 DEF IngestOp
  <2>4. OpsTyped(rest) BY <1>1, <1>2, WithoutTyped DEF PendingTyped
  <2>5. BodyTyped(op.type, body)
    <3>1. CASE op.type = "replace" /\ ~IsNoop(op.body)
      <4>1. op.body \in Edits BY <1>3, <3>1 DEF BodyTyped
      <4>. HIDE DEF rest, op
      <4>2. Against(op, rest) \in Edits BY <2>4, <4>1, AgainstTyped
      <4>. QED BY <3>1, <4>2 DEF BodyTyped
    <3>2. CASE ~(op.type = "replace" /\ ~IsNoop(op.body)) BY <1>3, <3>2
    <3>. QED BY <3>1, <3>2
  <2>6. PendingTyped'
    <3>. HIDE DEF rest, op, c
    <3>1. OpsTyped(Through(rest, op)) BY <1>3, <2>4, RebasedPending DEF BodyTyped
    <3>. QED BY <1>1, <1>2, <2>1, <2>4, <3>1, PendingPut
  <2>. HIDE DEF body, rest, op, c
  <2>7. EditorTyped'
    <3>1. op.type = "replace" => TransformRange(lock[c], body) \in Ranges
      BY <1>1, <1>2, <2>5, RangeTyped DEF EditorTyped, BodyTyped
    <3>2. Shown(dom[c], op.type, body) \in Text
      <4>0. dom[c] \in Text BY <1>1, <1>2 DEF EditorTyped
      <4>1. CASE op.type = "replace"
        <5>1. body \in Edits BY <2>5, <4>1 DEF BodyTyped
        <5>2. DomApply(dom[c], body) \in Text BY <4>0, <5>1, DomApplyTyped
        <5>. QED BY <4>1, <5>2 DEF Shown
      <4>2. CASE op.type = "format_commit"
        <5>1. body \in Docs BY <2>5, <4>2 DEF BodyTyped
        <5>. QED BY <4>2, <5>1 DEF Shown, Docs
      <4>3. CASE op.type \notin {"replace", "format_commit"} BY <4>0, <4>3 DEF Shown
      <4>. QED BY <4>1, <4>2, <4>3
    <3>3. op.type = "format_commit" => body \in Docs BY <2>5 DEF BodyTyped
    <3>4. lock' \in [Tabs -> Ranges] BY <1>1, <1>2, <2>3, <3>1 DEF EditorTyped
    <3>5. dom' \in [Tabs -> Text] BY <1>1, <1>2, <2>3, <3>2 DEF EditorTyped
    <3>6. refs' \in [Tabs -> Docs] BY <1>1, <1>2, <2>3, <3>3 DEF EditorTyped
    <3>. QED BY <1>0, <1>2, <3>4, <3>5, <3>6 DEF EditorTyped
  <2>. QED BY <1>0, <1>1, <1>4, <2>2, <2>6, <2>7, SameTyped
<1>. QED BY <1>0, <1>5, <1>6

\* applySession and the error branch.
LEMMA StepRestTyped ==
    ASSUME Inv, Typed, StepSession \/ StepError
    PROVE  Typed'
<1>. DEFINE c == Head(todo).tab
            it == Head(todo).item
<1>0. /\ todo # <<>> /\ todo' = Tail(todo)
      /\ session' = session /\ jobs' = jobs /\ replies' = replies /\ down' = down
      /\ conn' = conn /\ polling' = polling /\ presence' = presence
      /\ lock' = lock /\ dom' = dom /\ clash' = clash
      /\ failed' = failed /\ plan' = plan /\ beats' = beats /\ faults' = faults
  BY DEF StepSession, StepError, serverVars, wireVars, bounds
<1>1. TodoTyped' /\ c \in Tabs /\ ItemTyped(it) BY <1>0, TodoCut
<1>2. EditorTyped /\ HistoryTyped /\ PendingTyped /\ WireTyped /\ UpTyped BY DEF Typed
<1>3. /\ clash' \subseteq Tabs /\ failed' \subseteq Nat /\ plan' = plan /\ beats' \in Nat
      /\ faults' \in Nat
  BY <1>0, <1>2 DEF HistoryTyped
<1>4. CASE StepSession
  <2>1. /\ refs' = [refs EXCEPT ![c] = [html |-> it.view.html, text |-> it.view.text]]
        /\ it.k = "session" /\ up' = up /\ pending' = pending /\ timers' = timers
    BY <1>4 DEF StepSession, wireVars
  <2>2. [html |-> it.view.html, text |-> it.view.text] \in Docs
    BY <1>1, <2>1 DEF ItemTyped, ViewTyped, Docs
  <2>. HIDE DEF c, it
  <2>3. EditorTyped' BY <1>0, <1>1, <1>2, <2>1, <2>2 DEF EditorTyped
  <2>. QED BY <1>0, <1>1, <1>3, <2>1, <2>3, SameTyped
<1>5. CASE StepError
  <2>1. /\ pending' = [pending EXCEPT ![c] = Without(pending[c], it.cid)]
        /\ timers' = timers \/ timers' = [timers EXCEPT ![c] = @ \cup {"formatRetry"}]
        /\ up' = [up EXCEPT ![c] = Append(up[c], [kind |-> "sync", after |-> latest[c]])]
        /\ refs' = refs
    BY <1>5 DEF StepError
  <2>. HIDE DEF c, it
  <2>2. PendingTyped'
    <3>1. OpsTyped(Without(pending[c], it.cid)) BY <1>1, <1>2, WithoutTyped DEF PendingTyped
    <3>. QED BY <1>1, <1>2, <2>1, <3>1, PendingPut
  <2>3. WireTyped' BY <1>0, <1>1, <1>2, <2>1 DEF WireTyped
  <2>4. UpTyped'
    <3>. DEFINE e == [kind |-> "sync", after |-> latest[c]]
                q == up[c]
    <3>1. FramesTyped(q) /\ ReqTyped(e) BY <1>1, <1>2, PlainReqs DEF UpTyped
    <3>. HIDE DEF e, q
    <3>2. FramesTyped(Append(q, e))
      <4>1. /\ IsSeq(Append(q, e)) /\ DOMAIN Append(q, e) = 1..(Len(q) + 1)
            /\ \A i \in 1..Len(q) : Append(q, e)[i] = q[i]
            /\ Append(q, e)[Len(q) + 1] = e
        BY <3>1, AppendIsSeq DEF FramesTyped
      <4>2. Len(q) \in Nat /\ DOMAIN q = 1..Len(q) BY <3>1, IsSeqDom DEF FramesTyped
      <4>3. ASSUME NEW n \in 1..(Len(q) + 1) PROVE ReqTyped(Append(q, e)[n])
        <5>1. CASE n \in 1..Len(q) BY <3>1, <4>1, <4>2, <5>1 DEF FramesTyped
        <5>2. CASE n = Len(q) + 1 BY <3>1, <4>1, <5>2
        <5>. QED BY <4>2, <5>1, <5>2
      <4>. QED BY <4>1, <4>3 DEF FramesTyped
    <3>3. up' = [up EXCEPT ![c] = Append(q, e)] BY <2>1 DEF e, q
    <3>. QED BY <1>1, <1>2, <3>2, <3>3, UpPut
  <2>. QED BY <1>0, <1>1, <1>3, <2>1, <2>2, <2>3, <2>4, SameTyped
<1>. QED BY <1>4, <1>5
-----------------------------------------------------------------------------
\* What the backend sends.
LEMMA ItemsSent ==
    ASSUME NEW s, CopyTyped(s), NEW op, NEW ack
    PROVE  /\ ViewTyped(View(s)) /\ SessionItem(s).view = View(s)
           /\ ItemsTyped(<<SessionItem(s)>>) /\ ItemsTyped(<<OpItem(op, ack)>>)
           /\ ItemsTyped(<<OpItem(op, ack), SessionItem(s)>>)
<1>1. ViewTyped(View(s)) BY DEF View, ViewTyped, CopyTyped
<1>2. SessionItem(s).view = View(s) BY DEF SessionItem
<1>3. ItemTyped(SessionItem(s)) BY <1>1, <1>2 DEF ItemTyped
<1>4. ItemTyped(OpItem(op, ack)) BY DEF ItemTyped, OpItem
<1>. DEFINE a == OpItem(op, ack)
            b == SessionItem(s)
<1>. HIDE DEF a, b
<1>5. /\ IsSeq(<<a>>) /\ DOMAIN <<a>> = {1} /\ <<a>>[1] = a
      /\ IsSeq(<<b>>) /\ DOMAIN <<b>> = {1} /\ <<b>>[1] = b
      /\ IsSeq(<<a, b>>) /\ DOMAIN <<a, b>> = {1, 2} /\ <<a, b>>[1] = a /\ <<a, b>>[2] = b
  BY PairIsSeq
<1>6. ItemTyped(a) /\ ItemTyped(b) BY <1>3, <1>4 DEF a, b
<1>7. ItemsTyped(<<a>>) /\ ItemsTyped(<<b>>) /\ ItemsTyped(<<a, b>>)
  BY <1>5, <1>6 DEF ItemsTyped
<1>. QED BY <1>1, <1>2, <1>7 DEF a, b

LEMMA OpItemsTyped ==
    ASSUME NEW ops, IsSeq(ops)
    PROVE  ItemsTyped(OpItems(ops))
<1>1. Len(ops) \in Nat /\ DOMAIN ops = 1..Len(ops) BY IsSeqDom
<1>2. OpItems(ops) = [i \in 1..Len(ops) |-> OpItems(ops)[i]] BY <1>1 DEF OpItems
<1>3. IsSeq(OpItems(ops)) /\ DOMAIN OpItems(ops) = 1..Len(ops) BY <1>1, <1>2, FunIsSeq
<1>4. \A n \in 1..Len(ops) : OpItems(ops)[n] = OpItem(ops[n], FALSE) BY <1>1 DEF OpItems
<1>5. \A n \in 1..Len(ops) : ItemTyped(OpItem(ops[n], FALSE)) BY DEF ItemTyped, OpItem
<1>. QED BY <1>3, <1>4, <1>5 DEF ItemsTyped

LEMMA ItemsAppended ==
    ASSUME NEW q, ItemsTyped(q), NEW e, ItemTyped(e)
    PROVE  ItemsTyped(Append(q, e))
<1>1. /\ IsSeq(Append(q, e)) /\ DOMAIN Append(q, e) = 1..(Len(q) + 1)
      /\ \A i \in 1..Len(q) : Append(q, e)[i] = q[i]
      /\ Append(q, e)[Len(q) + 1] = e
  BY AppendIsSeq DEF ItemsTyped
<1>2. Len(q) \in Nat /\ DOMAIN q = 1..Len(q) BY IsSeqDom DEF ItemsTyped
<1>3. ASSUME NEW n \in 1..(Len(q) + 1) PROVE ItemTyped(Append(q, e)[n])
  <2>1. CASE n \in 1..Len(q) BY <1>1, <1>2, <2>1 DEF ItemsTyped
  <2>2. CASE n = Len(q) + 1 BY <1>1, <2>2
  <2>. QED BY <1>2, <2>1, <2>2
<1>. QED BY <1>1, <1>3 DEF ItemsTyped

LEMMA DownSent ==
    ASSUME Inv, DownTyped, NEW frame, ItemsTyped(frame), down' = Broadcast(frame)
    PROVE  DownTyped'
<1>1. ASSUME NEW c \in Tabs, NEW n \in DOMAIN down'[c] PROVE ItemsTyped(down'[c][n])
  <2>. DEFINE q == down[c]
  <2>1. IsSeq(q) /\ \A i \in DOMAIN q : ItemsTyped(q[i]) BY DEF Inv, DownOK, GoodFrames, DownTyped
  <2>2. down'[c] = q \/ down'[c] = Append(q, frame) BY DEF Broadcast
  <2>. HIDE DEF q
  <2>3. /\ DOMAIN Append(q, frame) = 1..(Len(q) + 1)
        /\ \A i \in 1..Len(q) : Append(q, frame)[i] = q[i]
        /\ Append(q, frame)[Len(q) + 1] = frame
    BY <2>1, AppendIsSeq
  <2>4. Len(q) \in Nat /\ DOMAIN q = 1..Len(q) BY <2>1, IsSeqDom
  <2>5. CASE down'[c] = q BY <2>1, <2>5
  <2>6. CASE down'[c] = Append(q, frame)
    <3>1. n \in 1..(Len(q) + 1) BY <2>3, <2>6
    <3>2. CASE n \in 1..Len(q) BY <2>1, <2>3, <2>4, <2>6, <3>2
    <3>3. CASE n = Len(q) + 1 BY <2>3, <2>6, <3>3
    <3>. QED BY <2>4, <3>1, <3>2, <3>3
  <2>. QED BY <2>2, <2>5, <2>6
<1>. QED BY <1>1 DEF DownTyped

\* A request is taken up or read.
LEMMA TakenTyped ==
    ASSUME Typed, NEW c \in Tabs, TakeWrite(c) \/ TakeSync(c)
    PROVE  Typed'
<1>. DEFINE j == Frame(c)
<1>0. HistoryTyped /\ UpTyped /\ SessionTyped BY DEF Typed
<1>1. up[c] # <<>> /\ up' = [up EXCEPT ![c] = Tail(@)] BY DEF TakeWrite, TakeSync, CanTake
<1>2. UpTyped' /\ ReqTyped(Head(up[c])) BY <1>0, <1>1, UpTaken
<1>3. j.req = Head(up[c]) BY DEF Frame, Job, MkJob
<1>4. /\ session' = session /\ replies' = replies /\ pending' = pending
      /\ todo' = todo /\ down' = down /\ conn' = conn /\ polling' = polling
      /\ timers' = timers /\ dom' = dom /\ refs' = refs /\ lock' = lock /\ presence' = presence
  BY DEF TakeWrite, TakeSync, ReadFor, editorVars
<1>5. /\ clash' \subseteq Tabs /\ failed' \subseteq Nat /\ plan' = plan /\ beats' \in Nat
      /\ faults' \in Nat
  BY <1>0 DEF TakeWrite, TakeSync, ReadFor, HistoryTyped, bounds
<1>6. CASE TakeWrite(c)
  <2>1. jobs' = jobs \cup {Turned(j, "read", session, j.tries)} BY <1>6 DEF TakeWrite, ReadFor
  <2>. HIDE DEF j
  <2>2. JobTyped(Turned(j, "read", session, j.tries))
    BY <1>0, <1>2, <1>3 DEF JobTyped, Turned, MkJob, SessionTyped
  <2>. QED BY <1>2, <1>4, <1>5, <2>1, <2>2, SameTyped
<1>7. CASE TakeSync(c)
  <2>. DEFINE k == Turned(j, "read", Copy(OpsAfter(session, j.req.after)), 0)
  <2>1. jobs' = jobs \cup {k} /\ j.req.kind = "sync" BY <1>7 DEF TakeSync
  <2>. HIDE DEF j
  <2>2. k.req = j.req /\ k.at = "read" BY DEF Turned, MkJob
  <2>. HIDE DEF k
  <2>3. JobTyped(k) BY <1>2, <1>3, <2>1, <2>2 DEF JobTyped, Writes
  <2>. QED BY <1>2, <1>4, <1>5, <2>1, <2>3, SameTyped
<1>. QED BY <1>6, <1>7

LEMMA ReadTyped ==
    ASSUME Typed, NEW j \in jobs, ReadSession(j)
    PROVE  Typed'
<1>0. HistoryTyped /\ SessionTyped /\ JobTyped(j) BY DEF Typed, JobsTyped
<1>1. jobs' = (jobs \ {j}) \cup {Turned(j, "read", session, j.tries)}
  BY DEF ReadSession, ReadFor
<1>2. JobTyped(Turned(j, "read", session, j.tries))
  BY <1>0 DEF JobTyped, Turned, MkJob, SessionTyped
<1>3. /\ session' = session /\ replies' = replies /\ pending' = pending /\ up' = up
      /\ todo' = todo /\ down' = down /\ conn' = conn /\ polling' = polling
      /\ timers' = timers /\ dom' = dom /\ refs' = refs /\ lock' = lock /\ presence' = presence
  BY DEF ReadSession, ReadFor, editorVars
<1>4. /\ clash' \subseteq Tabs /\ failed' \subseteq Nat /\ plan' = plan /\ beats' \in Nat
      /\ faults' \in Nat
  BY <1>0 DEF ReadSession, ReadFor, HistoryTyped, bounds
<1>. QED BY <1>1, <1>2, <1>3, <1>4, SameTyped

LEMMA RefusalTyped ==
    ASSUME NEW j, ReqTyped(j.req), NEW code, Refuse(j, code)
    PROVE  \A r \in replies' : r \in replies \/ ReplyTyped(r)
<1>1. \A r \in replies' : r \in replies \/ r = MkReply(j.tab, j.req, FALSE, <<ErrorItem(code, 0)>>)
  BY DEF Refuse
<1>. QED BY <1>1, FailureTyped

LEMMA SavedTyped ==
    ASSUME Inv, Typed, NEW j \in jobs, SaveSession(j)
    PROVE  Typed'
<1>0. HistoryTyped /\ JobTyped(j) /\ j.tab \in Tabs BY DEF Typed, JobsTyped, Inv, JobsOK, JobOK
<1>1. /\ pending' = pending /\ up' = up /\ j.at = "read" /\ j.req.kind \in Writes
      /\ todo' = todo /\ down' = down /\ conn' = conn /\ polling' = polling
      /\ timers' = timers /\ dom' = dom /\ refs' = refs /\ lock' = lock /\ presence' = presence
  BY DEF SaveSession, wireVars, editorVars
<1>2. /\ clash' \subseteq Tabs /\ failed' \subseteq Nat /\ plan' = plan /\ beats' \in Nat
      /\ faults' \in Nat
  <2>1. AstrayBySave(j) \subseteq Tabs BY <1>0 DEF AstrayBySave
  <2>2. clash \subseteq Tabs /\ failed \subseteq Nat /\ beats \in Nat /\ faults \in Nat
    BY <1>0 DEF HistoryTyped
  <2>3. failed' = failed /\ plan' = plan /\ beats' = beats /\ faults' = faults
    BY DEF SaveSession, bounds
  <2>4. clash' = clash \/ clash' = clash \cup AstrayBySave(j) BY DEF SaveSession
  <2>. QED BY <2>1, <2>2, <2>3, <2>4
<1>3. CopyTyped(j.ses) /\ ReqTyped(j.req) BY <1>0, <1>1 DEF JobTyped
<1>4. CASE session.version = j.ses.version
  <2>1. /\ session' = Outcome(j) /\ replies' = replies
        /\ jobs' = (jobs \ {j}) \cup {Turned(j, "saved", Outcome(j), j.tries)}
    BY <1>4 DEF SaveSession
  <2>2. CopyTyped(Outcome(j)) BY <1>0, <1>1, <1>3, OutcomeTyped
  <2>3. SessionTyped' BY <2>1, <2>2 DEF SessionTyped
  <2>4. JobTyped(Turned(j, "saved", Outcome(j), j.tries))
    BY <1>3, <2>2 DEF JobTyped, Turned, MkJob
  <2>. QED BY <1>1, <1>2, <2>1, <2>3, <2>4, SameTyped
<1>5. CASE session.version # j.ses.version
  <2>1. session' = session BY <1>5 DEF SaveSession
  <2>2. \/ jobs' = (jobs \ {j}) \cup {Turned(j, "new", Copy(<<>>), j.tries + 1)}
             /\ replies' = replies
        \/ jobs' = jobs \ {j} /\ Refuse(j, "conflict")
    BY <1>5 DEF SaveSession
  <2>3. JobTyped(Turned(j, "new", Copy(<<>>), j.tries + 1))
    BY <1>3 DEF JobTyped, Turned, MkJob
  <2>4. \A k \in jobs' : k \in jobs \/ JobTyped(k) BY <2>2, <2>3
  <2>5. \A r \in replies' : r \in replies \/ ReplyTyped(r) BY <1>3, <2>2, RefusalTyped
  <2>. QED BY <1>1, <1>2, <2>1, <2>4, <2>5, SameTyped
<1>. QED BY <1>4, <1>5

LEMMA RefusedTyped ==
    ASSUME Inv, Typed, NEW j \in jobs, RefuseOp(j)
    PROVE  Typed'
<1>. DEFINE v == Verdict(j.ses, UserOf[j.tab], j.req)
<1>0. HistoryTyped /\ JobTyped(j) /\ DownTyped BY DEF Typed, JobsTyped
<1>1. /\ jobs' = jobs \ {j} /\ Refuse(j, v)
      /\ down' = down \/ down' = Broadcast(<<ErrorItem(v, j.req.cid)>>)
  BY DEF RefuseOp
<1>2. /\ session' = session /\ pending' = pending /\ up' = up
      /\ todo' = todo /\ conn' = conn /\ polling' = polling
      /\ timers' = timers /\ dom' = dom /\ refs' = refs /\ lock' = lock /\ presence' = presence
  BY DEF RefuseOp, editorVars
<1>3. /\ clash' \subseteq Tabs /\ failed' \subseteq Nat /\ plan' = plan /\ beats' \in Nat
      /\ faults' \in Nat
  <2>1. j.tab \in Tabs BY DEF Inv, JobsOK, JobOK
  <2>2. clash' = clash \/ clash' = clash \cup {c \in {j.tab} : j.req.type = "replace"}
    BY DEF RefuseOp
  <2>. QED BY <1>0, <2>1, <2>2 DEF RefuseOp, HistoryTyped, bounds
<1>. HIDE DEF v
<1>4. \A r \in replies' : r \in replies \/ ReplyTyped(r)
  BY <1>0, <1>1, RefusalTyped DEF JobTyped
<1>5. down' = down \/ DownTyped'
  <2>1. ItemTyped(ErrorItem(v, j.req.cid)) BY DEF ItemTyped, ErrorItem
  <2>2. ItemsTyped(<<ErrorItem(v, j.req.cid)>>) BY <2>1, PairIsSeq DEF ItemsTyped
  <2>. QED BY <1>0, <1>1, <2>2, DownSent
<1>. QED BY <1>1, <1>2, <1>3, <1>4, <1>5, SameTyped

LEMMA PublishedTyped ==
    ASSUME Inv, Typed, NEW j \in jobs, Publish(j)
    PROVE  Typed'
<1>. DEFINE op == Last(j.ses.log)
<1>0. HistoryTyped /\ JobTyped(j) /\ DownTyped /\ j.at = "saved"
  BY DEF Typed, JobsTyped, Publish
<1>1. CopyTyped(j.ses) /\ ReqTyped(j.req) BY <1>0 DEF JobTyped
<1>2. /\ jobs' = jobs \ {j}
      /\ \/ down' = Broadcast(<<OpItem(op, FALSE), SessionItem(j.ses)>>)
         \/ down' = Broadcast(<<SessionItem(j.ses)>>)
         \/ down' = down
      /\ \A r \in replies' :
           \/ r \in replies
           \/ j.req.kind = "op" /\ r = MkReply(j.tab, j.req, TRUE, <<OpItem(op, TRUE)>>)
           \/ j.req.kind # "op" /\ r = MkReply(j.tab, j.req, TRUE, <<SessionItem(j.ses)>>)
  BY DEF Publish, Reply
<1>3. /\ session' = session /\ pending' = pending /\ up' = up
      /\ todo' = todo /\ conn' = conn /\ polling' = polling
      /\ timers' = timers /\ dom' = dom /\ refs' = refs /\ lock' = lock /\ presence' = presence
  BY DEF Publish, editorVars
<1>4. /\ clash' \subseteq Tabs /\ failed' \subseteq Nat /\ plan' = plan /\ beats' \in Nat
      /\ faults' \in Nat
  BY <1>0 DEF Publish, HistoryTyped, bounds
<1>. HIDE DEF op
<1>5. down' = down \/ DownTyped'
  <2>1. /\ ItemsTyped(<<OpItem(op, FALSE), SessionItem(j.ses)>>)
        /\ ItemsTyped(<<SessionItem(j.ses)>>)
    BY <1>1, ItemsSent
  <2>. QED BY <1>0, <1>2, <2>1, DownSent
<1>6. \A r \in replies' : r \in replies \/ ReplyTyped(r)
  <2>1. j.req.kind = "op" => ReplyTyped(MkReply(j.tab, j.req, TRUE, <<OpItem(op, TRUE)>>))
    <3>1. ItemsTyped(<<OpItem(op, TRUE)>>) BY <1>1, ItemsSent
    <3>. QED BY <1>1, <3>1 DEF ReplyTyped, MkReply
  <2>2. ReplyTyped(MkReply(j.tab, j.req, TRUE, <<SessionItem(j.ses)>>))
    <3>. DEFINE e == SessionItem(j.ses)
    <3>1. ItemsTyped(<<e>>) /\ ViewTyped(e.view) BY <1>1, ItemsSent
    <3>. HIDE DEF e
    <3>2. <<e>>[1] = e OBVIOUS
    <3>. QED BY <1>1, <3>1, <3>2 DEF ReplyTyped, MkReply, e
  <2>. QED BY <1>2, <2>1, <2>2
<1>. QED BY <1>2, <1>3, <1>4, <1>5, <1>6, SameTyped

LEMMA SyncTyped ==
    ASSUME Inv, Typed, NEW j \in jobs, SyncSend(j) \/ AnswerGet(j)
    PROVE  Typed'
<1>0. HistoryTyped /\ JobTyped(j) /\ DownTyped /\ CopyTyped(session)
  BY DEF Typed, JobsTyped, SessionTyped
<1>1. /\ session' = session /\ pending' = pending /\ up' = up /\ jobs' = jobs \ {j}
      /\ todo' = todo /\ conn' = conn /\ polling' = polling
      /\ timers' = timers /\ dom' = dom /\ refs' = refs /\ lock' = lock /\ presence' = presence
  BY DEF SyncSend, AnswerGet, editorVars, wireVars
<1>2. /\ clash' \subseteq Tabs /\ failed' \subseteq Nat /\ plan' = plan /\ beats' \in Nat
      /\ faults' \in Nat
  BY <1>0 DEF SyncSend, AnswerGet, HistoryTyped, bounds
<1>3. CASE SyncSend(j)
  <2>1. /\ down' = Broadcast(Append(OpItems(j.ses.log), SessionItem(session)))
        /\ j.at = "read" /\ j.req.kind = "sync" /\ replies' = replies
    BY <1>3 DEF SyncSend
  <2>2. IsSeq(j.ses.log) BY <2>1 DEF Inv, JobsOK, JobOK
  <2>3. ItemTyped(SessionItem(session)) BY <1>0, ItemsSent DEF ItemTyped
  <2>4. ItemsTyped(Append(OpItems(j.ses.log), SessionItem(session)))
    BY <2>2, <2>3, OpItemsTyped, ItemsAppended
  <2>5. DownTyped' BY <1>0, <2>1, <2>4, DownSent
  <2>. QED BY <1>1, <1>2, <2>1, <2>5, SameTyped
<1>4. CASE AnswerGet(j)
  <2>. DEFINE ops == OpsAfter(session, j.req.after)
  <2>1. /\ down' = down /\ j.req.kind \in {"ops", "session"}
        /\ \A r \in replies' :
             \/ r \in replies
             \/ r = MkReply(j.tab, j.req, TRUE, OpItems(ops))
             \/ r = MkReply(j.tab, j.req, TRUE, <<SessionItem(session)>>)
    BY <1>4 DEF AnswerGet, Reply, wireVars
  <2>2. ItemsTyped(OpItems(ops))
    <3>1. IsSeq(ops) BY <1>0, OpsAfterOf DEF CopyTyped, LogTyped
    <3>. QED BY <3>1, OpItemsTyped
  <2>3. ItemsTyped(<<SessionItem(session)>>) BY <1>0, ItemsSent
  <2>4. ReqTyped(j.req) BY <1>0 DEF JobTyped
  <2>5. ASSUME NEW items, ItemsTyped(items) PROVE ReplyTyped(MkReply(j.tab, j.req, TRUE, items))
    BY <2>1, <2>4, <2>5 DEF ReplyTyped, MkReply
  <2>. HIDE DEF ops
  <2>6. \A r \in replies' : r \in replies \/ ReplyTyped(r) BY <2>1, <2>2, <2>3, <2>5
  <2>. QED BY <1>1, <1>2, <2>1, <2>6, SameTyped
<1>. QED BY <1>3, <1>4

LEMMA AbortTyped ==
    ASSUME Typed, NEW j \in jobs, AbortFrame(j)
    PROVE  Typed'
<1>1. /\ session' = session /\ replies' = replies /\ pending' = pending /\ up' = up
      /\ todo' = todo /\ down' = down /\ conn' = conn /\ polling' = polling
      /\ timers' = timers /\ dom' = dom /\ refs' = refs /\ lock' = lock /\ presence' = presence
      /\ jobs' = jobs \ {j}
  BY DEF AbortFrame, wireVars, editorVars
<1>2. /\ clash' \subseteq Tabs /\ failed' \subseteq Nat /\ plan' = plan /\ beats' \in Nat
      /\ faults' \in Nat
  BY DEF AbortFrame, Typed, HistoryTyped, bounds
<1>. QED BY <1>1, <1>2, SameTyped

LEMMA NextTyped == Inv /\ Traffic /\ Typed /\ [Next]_vars => Typed'
<1>. SUFFICES ASSUME Inv, Traffic, Typed, [Next]_vars PROVE Typed' OBVIOUS
<1>0. LogCidsOK BY DEF Traffic
<1>1. CASE Backend
  <2>1. ASSUME NEW c \in Tabs, TakeWrite(c) \/ TakeSync(c) PROVE Typed' BY <2>1, TakenTyped
  <2>2. ASSUME NEW j \in jobs, \/ ReadSession(j) \/ SaveSession(j) \/ RefuseOp(j) \/ Publish(j)
                               \/ SyncSend(j) \/ AnswerGet(j) \/ AbortFrame(j)
        PROVE  Typed'
    BY <2>2, ReadTyped, SavedTyped, RefusedTyped, PublishedTyped, SyncTyped, AbortTyped
  <2>. QED BY <1>1, <2>1, <2>2 DEF Backend
<1>2. CASE Handler
  BY <1>2, StepOpTyped, StepRestTyped, AnswerTyped, FailedTyped DEF Handler
<1>3. ASSUME NEW c \in Tabs, Client(c) PROVE Typed'
  BY <1>0, <1>3, EditTyped, CommitsTyped, CaretTyped, SocketTyped, LoseTyped, ReceiveTyped
     DEF Client
<1>4. CASE UNCHANGED vars
  <2>1. /\ session' = session /\ jobs' = jobs /\ replies' = replies /\ pending' = pending
        /\ up' = up /\ todo' = todo /\ down' = down /\ conn' = conn /\ polling' = polling
        /\ timers' = timers /\ dom' = dom /\ refs' = refs /\ lock' = lock /\ presence' = presence
        /\ clash' = clash /\ failed' = failed /\ plan' = plan /\ beats' = beats /\ faults' = faults
    BY <1>4 DEF vars, serverVars, wireVars, editorVars, bounds
  <2>2. clash \subseteq Tabs /\ failed \subseteq Nat /\ beats \in Nat /\ faults \in Nat
    BY DEF Typed, HistoryTyped
  <2>. QED BY <2>1, <2>2, SameTyped
<1>. QED BY <1>1, <1>2, <1>3, <1>4 DEF Next

\* Whatever is typed, transformed, refused, resent and lost, every text is a
\* text and every op of the log lies within one: no rebase over concurrent ops
\* gives an op a negative place or length, no transform turns a lock range
\* negative, and every tab's bookkeeping keeps its type.
THEOREM RoomTypeOK == Spec => []TypeOK
<1>1. Init => Inv /\ Traffic /\ Typed BY InitInv, InitTraffic, InitTyped
<1>2. Inv /\ Traffic /\ Typed /\ [Next]_vars => (Inv /\ Traffic /\ Typed)'
  BY NextInv, NextTraffic, NextTyped
<1>3. Inv /\ Traffic /\ Typed => TypeOK BY TypedTypeOK DEF Traffic
<1>. QED BY <1>1, <1>2, <1>3, PTL DEF Spec
=============================================================================
