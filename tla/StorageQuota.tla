--------------------------- MODULE StorageQuota ----------------------------
(* One user's storage quota and every request that changes what is counted *)
(* against it: single uploads and copies, saves from a public share,       *)
(* resumable sessions, replaced contents, and the recycle bin.             *)
(*                                                                         *)
(* ensure_within_quota (quota.rs) reads the stored bytes and the reserved  *)
(* bytes in two statements, and the write it admits is a third one: nothing *)
(* holds them together.  Three writes have no check at all: a restore, a   *)
(* replaced content, and what a save copies beyond the sum it asked for.   *)
(* Bytes are counted in units; a file has one or more, a session is of one. *)
EXTENDS Integers, FiniteSets

CONSTANTS
    Handlers,     \* requests the server works on at the same time
    Sessions,     \* resumable upload sessions
    Quota,        \* resolve_user_quota_bytes, in units
    MaxSave,      \* units one request may ask for
    MaxBin,       \* bound: units in the recycle bin
    MaxUnchecked, \* bound: units written without a check
    NoSession

ASSUME QuotaAssumption ==
    /\ IsFiniteSet(Handlers) /\ Handlers # {}
    /\ IsFiniteSet(Sessions) /\ NoSession \notin Sessions
    /\ Quota \in Nat /\ MaxSave \in Nat \ {0}
    /\ MaxBin \in Nat /\ MaxUnchecked \in Nat

VARIABLES
    live,      \* units of the files with deleted_at NULL
    bin,       \* units of the files with deleted_at set
    status,    \* upload_sessions.status; "ended" also when there is no row
    res,       \* sessions whose quota_reserved_bytes are not zero
    handler,   \* per handler, the request it is in
    unchecked  \* history: units written without a check

vars == <<live, bin, status, res, handler, unchecked>>

Idle == [pc |-> "idle", op |-> "none", s |-> NoSession, used |-> 0, need |-> 0]

At(h, pc)      == handler[h].pc = pc
Become(h, req) == handler' = [handler EXCEPT ![h] = req]
Goto(h, pc)    == Become(h, [handler[h] EXCEPT !.pc = pc])
End(h)         == Become(h, Idle)

\* A request of n units enters the quota check.
Request(op, s, n) == [pc |-> "used", op |-> op, s |-> s, used |-> 0, need |-> n]

-----------------------------------------------------------------------------
(* Requests                                                                *)

\* copy_file, and upload_file through finalize_spooled_upload.
copy_file(h) ==
    /\ At(h, "idle")
    /\ \E n \in 1..MaxSave : Become(h, Request("copy", NoSession, n))
    /\ UNCHANGED <<live, bin, status, res, unchecked>>

\* Mutant: the files are inserted without a check.
save_from_public_share_NoCheck(h) ==
    /\ At(h, "idle")
    /\ \E n \in 1..MaxSave :
          Become(h, [Request("save", NoSession, n) EXCEPT !.pc = "insert"])
    /\ UNCHANGED <<live, bin, status, res, unchecked>>

\* The sizes of the files are summed, each file once, and checked together; a
\* sum of nothing, of files that are in the bin just then, is not.
save_from_public_share(h) ==
    /\ At(h, "idle")
    /\ \/ \E n \in 1..MaxSave : Become(h, Request("save", NoSession, n))
       \/ Become(h, [Request("save", NoSession, 0) EXCEPT !.pc = "insert"])
    /\ UNCHANGED <<live, bin, status, res, unchecked>>

\* A new session id is nobody's; the model takes that of a session that ended.
create_session(h, s) ==
    /\ At(h, "idle")
    /\ status[s] = "ended"
    /\ \A g \in Handlers : handler[g].s # s
    /\ Become(h, Request("create", s, 1))
    /\ UNCHANGED <<live, bin, status, res, unchecked>>

\* complete_session up to mark_completing: WHERE status = 'active'.
complete_session(h, s) ==
    /\ At(h, "idle")
    /\ status[s] = "active"
    /\ status' = [status EXCEPT ![s] = "completing"]
    /\ Become(h, Request("finish", s, 1))
    /\ UNCHANGED <<live, bin, res, unchecked>>

-----------------------------------------------------------------------------
(* ensure_within_quota                                                     *)

load_user_used_bytes(h) ==
    /\ At(h, "used")
    /\ Become(h, [handler[h] EXCEPT !.pc = "reserved", !.used = live])
    /\ UNCHANGED <<live, bin, status, res, unchecked>>

\* Where a refused request goes: only a finish has something to undo.
Refuse(h) == IF handler[h].op = "finish" THEN Goto(h, "revert") ELSE End(h)

\* Mutant: the reservations of other sessions are not counted.
ensure_within_quota_NoReserved(h) ==
    /\ At(h, "reserved")
    /\ IF handler[h].used + handler[h].need <= Quota
       THEN Become(h, [handler[h] EXCEPT !.pc = "insert", !.used = 0])
       ELSE Refuse(h)
    /\ UNCHANGED <<live, bin, status, res, unchecked>>

\* load_user_reserved_bytes and the comparison; a finish counts its own
\* reservation as well as its file.
ensure_within_quota(h) ==
    /\ At(h, "reserved")
    /\ IF handler[h].used + Cardinality(res) + handler[h].need <= Quota
       THEN Become(h, [handler[h] EXCEPT !.pc = "insert", !.used = 0])
       ELSE Refuse(h)
    /\ UNCHANGED <<live, bin, status, res, unchecked>>

-----------------------------------------------------------------------------
(* What an admitted request writes                                         *)

\* INSERT INTO upload_sessions with its reservation.
insert_session(h) ==
    LET s == handler[h].s
    IN /\ At(h, "insert") /\ handler[h].op = "create"
       /\ status' = [status EXCEPT ![s] = "active"]
       /\ res' = res \cup {s}
       /\ End(h)
       /\ UNCHANGED <<live, bin, unchecked>>

\* INSERT INTO files: a copy or a session's file in one row, a save one row
\* after the other.  What may fail after the INSERT changes no count: a retry's
\* INSERT meets the primary key.
insert_file(h) ==
    LET r == handler[h]
    IN /\ At(h, "insert") /\ r.op # "create"
       /\ \E n \in 1..r.need :
             /\ r.op # "save" => n = r.need
             /\ live' = live + n
             /\ Become(h, CASE r.op = "save"   -> [r EXCEPT !.need = r.need - n]
                            [] r.op = "finish" -> [r EXCEPT !.pc = "complete", !.need = 0]
                            [] OTHER           -> Idle)
       /\ UNCHANGED <<bin, status, res, unchecked>>

\* A save copies an id as often as the request names it, though the sum counts
\* it once, and a file at the size it has by then, though it grew since or was
\* in the bin.
insert_uncounted(h) ==
    /\ At(h, "insert") /\ handler[h].op = "save"
    /\ \E n \in 1..(MaxUnchecked - unchecked) :
          live' = live + n /\ unchecked' = unchecked + n
    /\ UNCHANGED <<bin, status, res, handler>>

\* The save has copied all its files, or stops at the first that fails; the
\* files already inserted stay.
save_returns(h) ==
    /\ At(h, "insert") /\ handler[h].op = "save"
    /\ End(h)
    /\ UNCHANGED <<live, bin, status, res, unchecked>>

\* The object store or the database fails before the INSERT.
WriteFails(h) ==
    /\ At(h, "insert") /\ handler[h].op # "save"
    /\ Refuse(h)
    /\ UNCHANGED <<live, bin, status, res, unchecked>>

mark_complete(h) ==
    LET s == handler[h].s
    IN /\ At(h, "complete")
       /\ status' = [status EXCEPT ![s] = "ended"]
       /\ res' = res \ {s}
       /\ End(h)
       /\ UNCHANGED <<live, bin, unchecked>>

\* The error path of complete_session makes the session active, whatever it
\* is now.
RevertActive(h) ==
    /\ At(h, "revert")
    /\ status' = [status EXCEPT ![handler[h].s] = "active"]
    /\ End(h)
    /\ UNCHANGED <<live, bin, res, unchecked>>

\* A handler's future is dropped at an await.
Vanish(h) ==
    /\ ~At(h, "idle")
    /\ End(h)
    /\ UNCHANGED <<live, bin, status, res, unchecked>>

-----------------------------------------------------------------------------
(* Sessions that end without a file, contents replaced, the recycle bin    *)

\* mark_aborted and the janitor's expiry.
mark_aborted(s) ==
    /\ status[s] \in {"active", "completing"}
    /\ status' = [status EXCEPT ![s] = "ended"]
    /\ res' = res \ {s}
    /\ UNCHANGED <<live, bin, handler, unchecked>>

\* put_file_content and public_share_put_content: a new size_bytes for a file
\* that is not in the bin, whatever the quota.  An empty body is refused.
put_file_content ==
    /\ live > 0
    /\ \/ \E n \in 1..(MaxUnchecked - unchecked) :
             live' = live + n /\ unchecked' = unchecked + n
       \/ \E n \in 1..(live - 1) : live' = live - n /\ UNCHANGED unchecked
    /\ UNCHANGED <<bin, status, res, handler>>

\* Mutant: a file in the bin is deleted once more.
move_to_recycle_bin_Again ==
    /\ \E n \in 1..(MaxBin - bin) : live' = live - n /\ bin' = bin + n
    /\ UNCHANGED <<status, res, handler, unchecked>>

\* UPDATE ... WHERE deleted_at IS NULL: a file, a selection or a folder.
move_to_recycle_bin ==
    /\ \E n \in 1..(MaxBin - bin) :
          n <= live /\ live' = live - n /\ bin' = bin + n
    /\ UNCHANGED <<status, res, handler, unchecked>>

\* deleted_at = NULL, with no look at the quota.
restore_recycle_bin_items ==
    /\ \E n \in 1..(MaxUnchecked - unchecked) :
          /\ n <= bin
          /\ live' = live + n /\ bin' = bin - n
          /\ unchecked' = unchecked + n
    /\ UNCHANGED <<status, res, handler>>

\* Rows are deleted for good by their ids, read while they were in the bin:
\* one restored since then is deleted all the same.
empty_recycle_bin ==
    /\ \/ \E n \in 1..bin  : bin' = bin - n /\ UNCHANGED live
       \/ \E n \in 1..live : live' = live - n /\ UNCHANGED bin
    /\ UNCHANGED <<status, res, handler, unchecked>>

\* History: no request is under way and the files fit in the quota, so the
\* account of what was written without a check starts again.
Balanced ==
    /\ live <= Quota /\ \A h \in Handlers : At(h, "idle")
    /\ unchecked > 0 /\ unchecked' = 0
    /\ UNCHANGED <<live, bin, status, res, handler>>

-----------------------------------------------------------------------------
Init ==
    /\ live = 0 /\ bin = 0 /\ unchecked = 0
    /\ status  = [s \in Sessions |-> "ended"]
    /\ res     = {}
    /\ handler = [h \in Handlers |-> Idle]

Step(h) ==
    \/ copy_file(h) \/ save_from_public_share(h)
    \/ load_user_used_bytes(h) \/ ensure_within_quota(h)
    \/ insert_session(h) \/ insert_file(h) \/ insert_uncounted(h)
    \/ save_returns(h) \/ WriteFails(h)
    \/ mark_complete(h) \/ RevertActive(h) \/ Vanish(h)

Next ==
    \/ \E h \in Handlers : Step(h)
    \/ \E h \in Handlers, s \in Sessions : create_session(h, s) \/ complete_session(h, s)
    \/ \E s \in Sessions : mark_aborted(s)
    \/ put_file_content \/ Balanced
    \/ move_to_recycle_bin \/ restore_recycle_bin_items \/ empty_recycle_bin

Spec == Init /\ [][Next]_vars

-----------------------------------------------------------------------------
(* Properties                                                              *)

Pcs == {"idle", "used", "reserved", "insert", "complete", "revert"}
Ops == {"none", "copy", "save", "create", "finish"}

\* A handler's request and the counters have the types the handlers give them,
\* and a request with a session has one from the table.
TypeOK ==
    /\ live \in Nat /\ bin \in 0..MaxBin /\ unchecked \in 0..MaxUnchecked
    /\ status \in [Sessions -> {"active", "completing", "ended"}]
    /\ res \in SUBSET Sessions
    /\ handler \in [Handlers -> [pc : Pcs, op : Ops, s : Sessions \cup {NoSession},
                                 used : Nat, need : 0..MaxSave]]
    /\ \A h \in Handlers : handler[h].op \in {"create", "finish"} <=> handler[h].s \in Sessions

\* However the requests interleave, what is stored exceeds the quota by no more
\* than the other requests in flight could still write when the last one read
\* the stored bytes, and by what restores, replaced contents and uncounted
\* copies wrote without a check since the user was last within the quota with
\* no request under way.  Session finishes, saves that stop half way and aborts
\* in the middle of a finish add nothing.
OvershootBounded ==
    live <= Quota + unchecked + (Cardinality(Handlers) - 1) * MaxSave

\* create_session's check and its INSERT are two statements, so concurrent
\* creates may together reserve more than the quota: by at most one session for
\* each other handler, and never more as sessions finish, fail and are aborted.
ReservationsBounded ==
    Cardinality(res) <= Quota + Cardinality(Handlers) - 1

\* The files stored stay within the quota, as the comment on ensure_within_quota
\* has it ("Reject storage mutations that would exceed the user's effective
\* quota").  It does not hold: one restore or one longer content refutes it, and
\* without either, two copies that check together (QuotaExact.cfg).
UsedWithinQuota == live <= Quota
=============================================================================
