------------------------ MODULE UploadSessionProofs ------------------------
(***************************************************************************)
(* UploadSession for every set of sessions, parts and handlers: type       *)
(* correctness, one finalize at a time, released reservations, no complete *)
(* session without a file; then what bytes_received says, how often a      *)
(* confirm token works, that the object of a file stays, and that its      *)
(* bytes were received.  The last two hold only where one of the code's    *)
(* defects cannot strike, which the assumptions of the theorems say.       *)
(***************************************************************************)
EXTENDS UploadSession, FiniteSetTheorems, TLAPS

USE DEF At, sessions, parts, objects, hist

\* The steps of complete_session that follow its INSERT INTO files.
RegisteredPcs == {"enqueue", "clean", "place", "complete"}

\* No row exists yet for the session a create_session request is about to
\* insert, and no two requests insert the same one.
CreatingIsAbsent ==
    \A t \in Tasks : task[t].pc \in {"create", "insert"} =>
        /\ sstat[task[t].s] = "absent"
        /\ \A u \in Tasks \ {t} :
              task[u].pc \in {"create", "insert"} => task[u].s # task[t].s

\* Past the INSERT the files row is there (or was and has been deleted).
RegisteredFirst ==
    \A t \in Tasks : task[t].pc \in RegisteredPcs =>
        row[task[t].s] # NoRow \/ task[t].s \in deleted

SafeInv ==
    /\ FinalizeExclusive
    /\ ReservationReleased
    /\ CreatingIsAbsent
    /\ RegisteredFirst
    /\ CompletedHasFile

-----------------------------------------------------------------------------
(* Type correctness                                                        *)

LEMMA SizeType == Size \in Nat
  BY UploadSessionAssumption, FS_CardinalityType DEF Size

LEMMA UsedType == load_user_used_bytes \in Nat
<1>1. IsFiniteSet({s \in Sessions : row[s] # NoRow})
  BY UploadSessionAssumption, FS_Subset
<1>2. Cardinality({s \in Sessions : row[s] # NoRow}) \in Nat
  BY <1>1, FS_CardinalityType
<1> QED
  BY <1>2, SizeType DEF load_user_used_bytes

LEMMA IdleType == Idle \in TaskType
<1>1. (CHOOSE s \in Sessions : TRUE) \in Sessions
  BY UploadSessionAssumption
<1>2. (CHOOSE p \in Parts : TRUE) \in Parts
  BY UploadSessionAssumption
<1> QED
  BY <1>1, <1>2 DEF Idle, TaskType, Pcs

LEMMA TaskFields ==
  ASSUME TypeOK, NEW t \in Tasks
  PROVE  /\ task[t] \in TaskType
         /\ task[t].s \in Sessions /\ task[t].p \in Parts /\ task[t].key \in Sessions
         /\ task[t].pc \in Pcs /\ task[t].val \in Nat /\ task[t].tok \in Nat
         /\ task[t].inst \in BOOLEAN /\ task[t].own \in BOOLEAN
  BY DEF TypeOK, TaskType

-----------------------------------------------------------------------------
(* What a step does to the handlers: t is now at pc, on session s, and the *)
(* others have not moved.                                                  *)

Stepped(t, pc, s) ==
    /\ task' \in [Tasks -> TaskType]
    /\ task'[t].pc = pc
    /\ task'[t].s = s
    /\ \A u \in Tasks \ {t} : task'[u] = task[u]

LEMMA BecomeStep ==
  ASSUME TypeOK, NEW t \in Tasks, NEW r \in TaskType, Become(t, r)
  PROVE  Stepped(t, r.pc, r.s)
  BY DEF TypeOK, Become, Stepped

LEMMA GotoStep ==
  ASSUME TypeOK, NEW t \in Tasks, NEW pc \in Pcs, Goto(t, pc)
  PROVE  Stepped(t, pc, task[t].s)
<1> DEFINE r == [task[t] EXCEPT !.pc = pc]
<1>1. r \in TaskType /\ r.pc = pc /\ r.s = task[t].s
  BY TaskFields DEF TaskType
<1>2. Become(t, r)
  BY DEF Goto
<1> HIDE DEF r
<1> QED
  BY <1>1, <1>2, BecomeStep

LEMMA EndStep ==
  ASSUME TypeOK, NEW t \in Tasks, End(t)
  PROVE  Stepped(t, "idle", Idle.s)
<1>1. Become(t, Idle) /\ Idle.pc = "idle"
  BY DEF End, Idle
<1> QED
  BY <1>1, IdleType, BecomeStep

\* Where each step of a begun handler leaves it.
LEMMA ContinueSteps ==
  ASSUME TypeOK, NEW t \in Tasks
  PROVE
    /\ CreateQuota(t) => Stepped(t, "insert", task[t].s) \/ Stepped(t, "idle", Idle.s)
    /\ insert_session(t) => Stepped(t, "idle", Idle.s)
    /\ SignQuota(t) => Stepped(t, "token", task[t].s) \/ Stepped(t, "idle", Idle.s)
    /\ set_part_signed_token(t) => Stepped(t, "idle", Idle.s)
    /\ consume_part_signed_token(t) => Stepped(t, "record", task[t].s) \/ Stepped(t, "idle", Idle.s)
    /\ StagePart(t) => Stepped(t, "record", task[t].s) \/ Stepped(t, "idle", Idle.s)
    /\ RecordSelect(t) => Stepped(t, "upgrade", task[t].s) \/ Stepped(t, "newpart", task[t].s) \/ Stepped(t, "idle", Idle.s)
    /\ RecordUpgrade(t) => Stepped(t, "idle", Idle.s)
    /\ RecordInsert(t) => Stepped(t, "idle", Idle.s)
    /\ CompleteList(t) => Stepped(t, "mark", task[t].s) \/ Stepped(t, "idle", Idle.s)
    /\ mark_completing(t) => Stepped(t, "used", task[t].s) \/ Stepped(t, "idle", Idle.s)
    /\ FinalizeUsed(t) => Stepped(t, "reserved", task[t].s)
    /\ FinalizeQuota(t) => Stepped(t, "revert", task[t].s) \/ Stepped(t, "known", task[t].s) \/ Stepped(t, "put", task[t].s)
    /\ FinalizeKnownHash(t) => Stepped(t, "link", task[t].s) \/ Stepped(t, "revert", task[t].s) \/ Stepped(t, "put", task[t].s)
    /\ hash_and_put_final(t) => Stepped(t, "find", task[t].s) \/ Stepped(t, "revert", task[t].s)
    /\ FinalizeFind(t) => Stepped(t, "drop", task[t].s) \/ Stepped(t, "insertfile", task[t].s)
    /\ FinalizeDrop(t) => Stepped(t, "link", task[t].s)
    /\ insert_deduped_file(t) => Stepped(t, "clean", task[t].s) \/ Stepped(t, "revert", task[t].s)
    /\ insert_non_video_file(t) => Stepped(t, "enqueue", task[t].s) \/ Stepped(t, "revert", task[t].s)
    /\ EnqueueJobs(t) => Stepped(t, "place", task[t].s) \/ Stepped(t, "revert", task[t].s)
    /\ FinalizeClean(t) => Stepped(t, "complete", task[t].s) \/ Stepped(t, "revert", task[t].s)
    /\ mark_complete(t) => Stepped(t, "idle", Idle.s)
    /\ RevertActive(t) => Stepped(t, "idle", Idle.s)
    /\ cleanup_staging_prefix(t) => Stepped(t, "idle", Idle.s)
    /\ PurgeRow(t) => Stepped(t, "refcheck", task[t].s)
    /\ PurgeRefCheck(t) => Stepped(t, "purge", task[t].s) \/ Stepped(t, "idle", Idle.s)
    /\ purge_storage_keys(t) => Stepped(t, "idle", Idle.s)
<1>g. \A pc \in Pcs : Goto(t, pc) => Stepped(t, pc, task[t].s)
  BY GotoStep
<1>e. End(t) => Stepped(t, "idle", Idle.s)
  BY EndStep
<1>f. task[t] \in TaskType
  BY TaskFields
<1>1. CreateQuota(t) => Stepped(t, "insert", task[t].s) \/ Stepped(t, "idle", Idle.s)
  BY <1>g, <1>e DEF CreateQuota, Pcs
<1>2. insert_session(t) => Stepped(t, "idle", Idle.s)
  BY <1>g, <1>e DEF insert_session, Pcs
<1>3. SignQuota(t) => Stepped(t, "token", task[t].s) \/ Stepped(t, "idle", Idle.s)
  BY <1>g, <1>e DEF SignQuota, Pcs
<1>4. set_part_signed_token(t) => Stepped(t, "idle", Idle.s)
  BY <1>g, <1>e DEF set_part_signed_token, Pcs
<1>5. consume_part_signed_token(t) => Stepped(t, "record", task[t].s) \/ Stepped(t, "idle", Idle.s)
  BY <1>g, <1>e DEF consume_part_signed_token, Pcs
<1>6. StagePart(t) => Stepped(t, "record", task[t].s) \/ Stepped(t, "idle", Idle.s)
  BY <1>g, <1>e DEF StagePart, Pcs
<1>7. RecordSelect(t) => Stepped(t, "upgrade", task[t].s) \/ Stepped(t, "newpart", task[t].s) \/ Stepped(t, "idle", Idle.s)
  BY <1>g, <1>e DEF RecordSelect, Pcs
<1>8. RecordUpgrade(t) => Stepped(t, "idle", Idle.s)
  BY <1>g, <1>e DEF RecordUpgrade, Pcs
<1>9. RecordInsert(t) => Stepped(t, "idle", Idle.s)
  BY <1>g, <1>e DEF RecordInsert, Pcs
<1>10. CompleteList(t) => Stepped(t, "mark", task[t].s) \/ Stepped(t, "idle", Idle.s)
  <2> DEFINE r == [task[t] EXCEPT !.pc = "mark", !.inst = InstantSource(task[t].s)]
  <2>1. r \in TaskType /\ r.pc = "mark" /\ r.s = task[t].s
    BY <1>f DEF TaskType, Pcs, InstantSource
  <2>2. Become(t, r) => Stepped(t, "mark", task[t].s)
    <3> HIDE DEF r
    <3> QED BY <2>1, BecomeStep
  <2> QED
    BY <1>e, <2>2 DEF CompleteList
<1>11. mark_completing(t) => Stepped(t, "used", task[t].s) \/ Stepped(t, "idle", Idle.s)
  BY <1>g, <1>e DEF mark_completing, Pcs
<1>12. FinalizeUsed(t) => Stepped(t, "reserved", task[t].s)
  <2> DEFINE r == [task[t] EXCEPT !.pc = "reserved", !.val = load_user_used_bytes]
  <2>1. r \in TaskType /\ r.pc = "reserved" /\ r.s = task[t].s
    BY UsedType, <1>f DEF TaskType, Pcs
  <2>2. Become(t, r) => Stepped(t, "reserved", task[t].s)
    <3> HIDE DEF r
    <3> QED BY <2>1, BecomeStep
  <2> QED
    BY <1>e, <2>2 DEF FinalizeUsed
<1>13. FinalizeQuota(t) => Stepped(t, "revert", task[t].s) \/ Stepped(t, "known", task[t].s) \/ Stepped(t, "put", task[t].s)
  BY <1>g, <1>e DEF FinalizeQuota, Pcs
<1>14. FinalizeKnownHash(t) => Stepped(t, "link", task[t].s) \/ Stepped(t, "revert", task[t].s) \/ Stepped(t, "put", task[t].s)
  <2>0. find_dedup_source(task[t].s) \subseteq Sessions
    BY DEF TypeOK, find_dedup_source
  <2>1. \A k \in Sessions : Become(t, [task[t] EXCEPT !.pc = "link", !.key = k])
                               => Stepped(t, "link", task[t].s)
    <3> TAKE k \in Sessions
    <3> DEFINE r == [task[t] EXCEPT !.pc = "link", !.key = k]
    <3>1. r \in TaskType /\ r.pc = "link" /\ r.s = task[t].s
      BY <1>f DEF TaskType, Pcs
    <3> HIDE DEF r
    <3>2. Become(t, r) => Stepped(t, "link", task[t].s)
      BY <3>1, BecomeStep
    <3> QED BY <3>2 DEF r
  <2> QED
    BY <1>g, <2>0, <2>1 DEF FinalizeKnownHash, Pcs
<1>15. hash_and_put_final(t) => Stepped(t, "find", task[t].s) \/ Stepped(t, "revert", task[t].s)
  BY <1>g, <1>e DEF hash_and_put_final, Pcs
<1>16. FinalizeFind(t) => Stepped(t, "drop", task[t].s) \/ Stepped(t, "insertfile", task[t].s)
  <2>0. find_dedup_source(task[t].s) \subseteq Sessions
    BY DEF TypeOK, find_dedup_source
  <2>1. \A k \in Sessions : Become(t, [task[t] EXCEPT !.pc = "drop", !.key = k])
                               => Stepped(t, "drop", task[t].s)
    <3> TAKE k \in Sessions
    <3> DEFINE r == [task[t] EXCEPT !.pc = "drop", !.key = k]
    <3>1. r \in TaskType /\ r.pc = "drop" /\ r.s = task[t].s
      BY <1>f DEF TaskType, Pcs
    <3> HIDE DEF r
    <3>2. Become(t, r) => Stepped(t, "drop", task[t].s)
      BY <3>1, BecomeStep
    <3> QED BY <3>2 DEF r
  <2> QED
    BY <1>g, <2>0, <2>1 DEF FinalizeFind, Pcs
<1>17. FinalizeDrop(t) => Stepped(t, "link", task[t].s)
  BY <1>g, <1>e DEF FinalizeDrop, Pcs
<1>18. insert_deduped_file(t) => Stepped(t, "clean", task[t].s) \/ Stepped(t, "revert", task[t].s)
  BY <1>g, <1>e DEF insert_deduped_file, Pcs, InsertRow
<1>19. insert_non_video_file(t) => Stepped(t, "enqueue", task[t].s) \/ Stepped(t, "revert", task[t].s)
  BY <1>g, <1>e DEF insert_non_video_file, Pcs, InsertRow
<1>20. EnqueueJobs(t) => Stepped(t, "place", task[t].s) \/ Stepped(t, "revert", task[t].s)
  BY <1>g, <1>e DEF EnqueueJobs, Pcs
<1>21. FinalizeClean(t) => Stepped(t, "complete", task[t].s) \/ Stepped(t, "revert", task[t].s)
  BY <1>g, <1>e DEF FinalizeClean, Pcs
<1>22. mark_complete(t) => Stepped(t, "idle", Idle.s)
  BY <1>g, <1>e DEF mark_complete, Pcs
<1>23. RevertActive(t) => Stepped(t, "idle", Idle.s)
  BY <1>g, <1>e DEF RevertActive, Pcs
<1>24. cleanup_staging_prefix(t) => Stepped(t, "idle", Idle.s)
  BY <1>g, <1>e DEF cleanup_staging_prefix, Pcs
<1>25. PurgeRow(t) => Stepped(t, "refcheck", task[t].s)
  BY <1>g, <1>e DEF PurgeRow, Pcs
<1>26. PurgeRefCheck(t) => Stepped(t, "purge", task[t].s) \/ Stepped(t, "idle", Idle.s)
  BY <1>g, <1>e DEF PurgeRefCheck, Pcs
<1>27. purge_storage_keys(t) => Stepped(t, "idle", Idle.s)
  BY <1>g, <1>e DEF purge_storage_keys, Pcs
<1> QED
  BY <1>1, <1>2, <1>3, <1>4, <1>5, <1>6, <1>7, <1>8, <1>9, <1>10, <1>11, <1>12, <1>13, <1>14, <1>15, <1>16, <1>17, <1>18, <1>19, <1>20, <1>21, <1>22, <1>23, <1>24, <1>25, <1>26, <1>27

\* Where a handler is after its first step.
LEMMA BeginSteps ==
  ASSUME TypeOK, NEW t \in Tasks, NEW s \in Sessions
  PROVE
    /\ CreateBegin(t, s) => Stepped(t, "create", s)
    /\ CompleteBegin(t, s) => Stepped(t, "list", s)
    /\ mark_aborted(t, s) => Stepped(t, "cleanup", s)
    /\ PurgeBegin(t, s) => Stepped(t, "delrow", s)
    /\ Vanish(t) => Stepped(t, "idle", Idle.s)
    /\ \A p \in Parts : /\ SignBegin(t, s, p) => Stepped(t, "sign", s)
                        /\ ConfirmBegin(t, s, p) => Stepped(t, "consume", s)
                        /\ UploadPartBegin(t, s, p) => Stepped(t, "stage", s)
<1>i. Idle \in TaskType
  BY IdleType
<1>1. CreateBegin(t, s) => Stepped(t, "create", s)
  <2> SUFFICES ASSUME CreateBegin(t, s) PROVE Stepped(t, "create", s)
    OBVIOUS
  <2> DEFINE r == [Idle EXCEPT !.pc = "create", !.s = s, !.val = load_user_used_bytes]
  <2>1. r \in TaskType /\ r.pc = "create" /\ r.s = s
    BY UsedType, <1>i DEF TaskType, Pcs
  <2>2. Become(t, r)
    BY DEF CreateBegin
  <2> HIDE DEF r
  <2> QED
    BY <2>1, <2>2, BecomeStep
<1>2. CompleteBegin(t, s) => Stepped(t, "list", s)
  <2> SUFFICES ASSUME CompleteBegin(t, s) PROVE Stepped(t, "list", s)
    OBVIOUS
  <2> DEFINE r == [Idle EXCEPT !.pc = "list", !.s = s, !.val = bytes[s]]
  <2>1. r \in TaskType /\ r.pc = "list" /\ r.s = s
    BY <1>i DEF TaskType, Pcs, TypeOK
  <2>2. Become(t, r)
    BY DEF CompleteBegin
  <2> HIDE DEF r
  <2> QED
    BY <2>1, <2>2, BecomeStep
<1>3. mark_aborted(t, s) => Stepped(t, "cleanup", s)
  <2> SUFFICES ASSUME mark_aborted(t, s) PROVE Stepped(t, "cleanup", s)
    OBVIOUS
  <2> DEFINE r == [Idle EXCEPT !.pc = "cleanup", !.s = s]
  <2>1. r \in TaskType /\ r.pc = "cleanup" /\ r.s = s
    BY <1>i DEF TaskType, Pcs
  <2>2. Become(t, r)
    BY DEF mark_aborted
  <2> HIDE DEF r
  <2> QED
    BY <2>1, <2>2, BecomeStep
<1>4. PurgeBegin(t, s) => Stepped(t, "delrow", s)
  <2> SUFFICES ASSUME PurgeBegin(t, s) PROVE Stepped(t, "delrow", s)
    OBVIOUS
  <2> DEFINE r == [Idle EXCEPT !.pc = "delrow", !.s = s, !.key = row[s]]
  <2>1. r \in TaskType /\ r.pc = "delrow" /\ r.s = s
    BY <1>i DEF TaskType, Pcs, TypeOK, PurgeBegin
  <2>2. Become(t, r)
    BY DEF PurgeBegin
  <2> HIDE DEF r
  <2> QED
    BY <2>1, <2>2, BecomeStep
<1>5. Vanish(t) => Stepped(t, "idle", Idle.s)
  BY EndStep DEF Vanish
<1>6. \A p \in Parts : SignBegin(t, s, p) => Stepped(t, "sign", s)
  <2> SUFFICES ASSUME NEW p \in Parts, SignBegin(t, s, p) PROVE Stepped(t, "sign", s)
    OBVIOUS
  <2>0. token[s][p] \in Nat /\ reserved[s] \in BOOLEAN
    BY DEF TypeOK
  <2> DEFINE r == [Idle EXCEPT !.pc = "sign", !.s = s, !.p = p, !.val = load_user_used_bytes, !.own = reserved[s]]
  <2>1. r \in TaskType /\ r.pc = "sign" /\ r.s = s
    BY UsedType, <1>i, <2>0 DEF TaskType, Pcs
  <2>2. Become(t, r)
    BY DEF SignBegin
  <2> HIDE DEF r
  <2> QED
    BY <2>1, <2>2, BecomeStep
<1>7. \A p \in Parts : ConfirmBegin(t, s, p) => Stepped(t, "consume", s)
  <2> SUFFICES ASSUME NEW p \in Parts, ConfirmBegin(t, s, p) PROVE Stepped(t, "consume", s)
    OBVIOUS
  <2>0. token[s][p] \in Nat /\ reserved[s] \in BOOLEAN
    BY DEF TypeOK
  <2> DEFINE r == [Idle EXCEPT !.pc = "consume", !.s = s, !.p = p, !.tok = token[s][p]]
  <2>1. r \in TaskType /\ r.pc = "consume" /\ r.s = s
    BY UsedType, <1>i, <2>0 DEF TaskType, Pcs
  <2>2. Become(t, r)
    BY DEF ConfirmBegin
  <2> HIDE DEF r
  <2> QED
    BY <2>1, <2>2, BecomeStep
<1>8. \A p \in Parts : UploadPartBegin(t, s, p) => Stepped(t, "stage", s)
  <2> SUFFICES ASSUME NEW p \in Parts, UploadPartBegin(t, s, p) PROVE Stepped(t, "stage", s)
    OBVIOUS
  <2>0. token[s][p] \in Nat /\ reserved[s] \in BOOLEAN
    BY DEF TypeOK
  <2> DEFINE r == [Idle EXCEPT !.pc = "stage", !.s = s, !.p = p]
  <2>1. r \in TaskType /\ r.pc = "stage" /\ r.s = s
    BY UsedType, <1>i, <2>0 DEF TaskType, Pcs
  <2>2. Become(t, r)
    BY DEF UploadPartBegin
  <2> HIDE DEF r
  <2> QED
    BY <2>1, <2>2, BecomeStep
<1> QED
  BY <1>1, <1>2, <1>3, <1>4, <1>5, <1>6, <1>7, <1>8

-----------------------------------------------------------------------------
(* Type correctness                                                        *)

\* Everything TypeOK says except the type of the handlers.
DataOK ==
    /\ sstat    \in [Sessions -> Statuses]
    /\ reserved \in [Sessions -> BOOLEAN]
    /\ expired  \in [Sessions -> BOOLEAN]
    /\ bytes    \in [Sessions -> Nat]
    /\ part     \in [Sessions -> [Parts -> {"none", "placeholder", "recorded"}]]
    /\ token    \in [Sessions -> [Parts -> Nat]]
    /\ minted   \in Nat
    /\ urls     \subseteq Sessions \X Parts
    /\ staged   \in [Sessions -> SUBSET Parts]
    /\ blob     \subseteq Sessions
    /\ row      \in [Sessions -> Sessions \cup {NoRow}]
    /\ sweeping \subseteq Sessions
    /\ refused  \subseteq Sessions
    /\ deleted  \subseteq Sessions

LEMMA TypeSplit == TypeOK <=> DataOK /\ task \in [Tasks -> TaskType]
  BY DEF TypeOK, DataOK

\* No step of a begun handler spoils the type of the data.
LEMMA ContinueData ==
  ASSUME TypeOK, NEW t \in Tasks, Continue(t), UNCHANGED sweeping
  PROVE  DataOK'
<1>d. DataOK
  BY TypeSplit
<1>f. task[t].s \in Sessions /\ task[t].p \in Parts /\ task[t].key \in Sessions
  BY TaskFields
<1>1. CASE CreateQuota(t)
  BY <1>d, <1>f, <1>1 DEF DataOK, CreateQuota
<1>2. CASE insert_session(t)
  BY <1>d, <1>f, <1>2 DEF DataOK, insert_session, Statuses
<1>3. CASE SignQuota(t)
  BY <1>d, <1>f, <1>3 DEF DataOK, SignQuota
<1>4. CASE set_part_signed_token(t)
  BY <1>d, <1>f, <1>4 DEF DataOK, set_part_signed_token
<1>5. CASE consume_part_signed_token(t)
  <2>1. token' = [token EXCEPT ![task[t].s][task[t].p] = 0] \/ token' = token
    BY <1>5 DEF consume_part_signed_token
  <2>2. UNCHANGED <<sstat, reserved, bytes, expired, part, minted, urls, staged, blob, row, refused, deleted>>
    BY <1>5 DEF consume_part_signed_token
  <2>3. token' \in [Sessions -> [Parts -> Nat]]
    <3>1. CASE token' = token
      BY <1>d, <3>1 DEF DataOK
    <3>2. CASE token' = [token EXCEPT ![task[t].s][task[t].p] = 0]
      BY <1>d, <1>f, <3>2 DEF DataOK
    <3> QED
      BY <2>1, <3>1, <3>2
  <2> QED
    BY <1>d, <2>2, <2>3 DEF DataOK
<1>6. CASE StagePart(t)
  <2>1. staged' = [staged EXCEPT ![task[t].s] = @ \cup {task[t].p}] \/ staged' = staged
    BY <1>6 DEF StagePart
  <2>2. UNCHANGED <<sstat, reserved, bytes, expired, part, token, minted, urls, blob, row, refused, deleted>>
    BY <1>6 DEF StagePart
  <2>3. staged' \in [Sessions -> SUBSET Parts]
    <3>1. CASE staged' = staged
      BY <1>d, <3>1 DEF DataOK
    <3>2. CASE staged' = [staged EXCEPT ![task[t].s] = @ \cup {task[t].p}]
      BY <1>d, <1>f, <3>2 DEF DataOK
    <3> QED
      BY <2>1, <3>1, <3>2
  <2> QED
    BY <1>d, <2>2, <2>3 DEF DataOK
<1>7. CASE RecordSelect(t)
  BY <1>d, <1>f, <1>7 DEF DataOK, RecordSelect
<1>8. CASE RecordUpgrade(t)
  BY <1>d, <1>f, <1>8 DEF DataOK, RecordUpgrade, SetRecorded
<1>9. CASE RecordInsert(t)
  <2>1. \/ /\ part' = [part EXCEPT ![task[t].s][task[t].p] = "recorded"]
             /\ bytes' = [bytes EXCEPT ![task[t].s] = @ + 1]
          \/ UNCHANGED <<part, bytes>>
    BY <1>9 DEF RecordInsert, SetRecorded
  <2>2. UNCHANGED <<sstat, reserved, expired, token, minted, urls, staged, blob, row, refused, deleted>>
    BY <1>9 DEF RecordInsert, SetRecorded
  <2>3. part' \in [Sessions -> [Parts -> {"none", "placeholder", "recorded"}]] /\ bytes' \in [Sessions -> Nat]
    <3>1. CASE UNCHANGED <<part, bytes>>
      BY <1>d, <3>1 DEF DataOK
    <3>2. CASE /\ part' = [part EXCEPT ![task[t].s][task[t].p] = "recorded"]
               /\ bytes' = [bytes EXCEPT ![task[t].s] = @ + 1]
      BY <1>d, <1>f, <3>2 DEF DataOK
    <3> QED
      BY <2>1, <3>1, <3>2
  <2> QED
    BY <1>d, <2>2, <2>3 DEF DataOK
<1>10. CASE CompleteList(t)
  BY <1>d, <1>f, <1>10 DEF DataOK, CompleteList
<1>11. CASE mark_completing(t)
  <2>1. sstat' = [sstat EXCEPT ![task[t].s] = "completing"] \/ sstat' = sstat
    BY <1>11 DEF mark_completing
  <2>2. UNCHANGED <<reserved, bytes, expired, part, token, minted, urls, staged, blob, row, refused, deleted>>
    BY <1>11 DEF mark_completing
  <2>3. sstat' \in [Sessions -> Statuses]
    BY <1>d, <1>f, <2>1 DEF DataOK, Statuses
  <2> QED
    BY <1>d, <2>2, <2>3 DEF DataOK
<1>12. CASE FinalizeUsed(t)
  BY <1>d, <1>f, <1>12 DEF DataOK, FinalizeUsed
<1>13. CASE FinalizeQuota(t)
  BY <1>d, <1>f, <1>13 DEF DataOK, FinalizeQuota
<1>14. CASE FinalizeKnownHash(t)
  BY <1>d, <1>f, <1>14 DEF DataOK, FinalizeKnownHash
<1>15. CASE hash_and_put_final(t)
  <2>1. blob' = blob \cup {task[t].s} \/ blob' = blob
    BY <1>15 DEF hash_and_put_final
  <2>2. UNCHANGED <<sstat, reserved, bytes, expired, part, token, minted, urls, staged, row, refused, deleted>>
    BY <1>15 DEF hash_and_put_final
  <2>3. blob' \in SUBSET Sessions
    BY <1>d, <1>f, <2>1 DEF DataOK, Statuses
  <2> QED
    BY <1>d, <2>2, <2>3 DEF DataOK
<1>16. CASE FinalizeFind(t)
  BY <1>d, <1>f, <1>16 DEF DataOK, FinalizeFind
<1>17. CASE FinalizeDrop(t)
  BY <1>d, <1>f, <1>17 DEF DataOK, FinalizeDrop
<1>18. CASE insert_deduped_file(t)
  <2>1. row' = [row EXCEPT ![task[t].s] = task[t].key] \/ row' = row
    BY <1>18 DEF insert_deduped_file, InsertRow
  <2>2. UNCHANGED <<sstat, reserved, bytes, expired, part, token, minted, urls, staged, blob, refused, deleted>>
    BY <1>18 DEF insert_deduped_file, InsertRow
  <2>3. row' \in [Sessions -> Sessions \cup {NoRow}]
    BY <1>d, <1>f, <2>1 DEF DataOK, Statuses
  <2> QED
    BY <1>d, <2>2, <2>3 DEF DataOK
<1>19. CASE insert_non_video_file(t)
  <2>1. row' = [row EXCEPT ![task[t].s] = task[t].s] \/ row' = row
    BY <1>19 DEF insert_non_video_file, InsertRow
  <2>2. UNCHANGED <<sstat, reserved, bytes, expired, part, token, minted, urls, staged, blob, refused, deleted>>
    BY <1>19 DEF insert_non_video_file, InsertRow
  <2>3. row' \in [Sessions -> Sessions \cup {NoRow}]
    BY <1>d, <1>f, <2>1 DEF DataOK, Statuses
  <2> QED
    BY <1>d, <2>2, <2>3 DEF DataOK
<1>20. CASE EnqueueJobs(t)
  BY <1>d, <1>f, <1>20 DEF DataOK, EnqueueJobs
<1>21. CASE FinalizeClean(t)
  <2>1. staged' = [staged EXCEPT ![task[t].s] = {}] \/ staged' = staged
    BY <1>21 DEF FinalizeClean
  <2>2. UNCHANGED <<sstat, reserved, bytes, expired, part, token, minted, urls, blob, row, refused, deleted>>
    BY <1>21 DEF FinalizeClean
  <2>3. staged' \in [Sessions -> SUBSET Parts]
    BY <1>d, <1>f, <2>1 DEF DataOK, Statuses
  <2> QED
    BY <1>d, <2>2, <2>3 DEF DataOK
<1>22. CASE mark_complete(t)
  BY <1>d, <1>f, <1>22 DEF DataOK, mark_complete, Statuses
<1>23. CASE RevertActive(t)
  BY <1>d, <1>f, <1>23 DEF DataOK, RevertActive, Statuses
<1>24. CASE cleanup_staging_prefix(t)
  <2>1. staged' = [staged EXCEPT ![task[t].s] = {}] \/ staged' = staged
    BY <1>24 DEF cleanup_staging_prefix, CleanStaging
  <2>2. UNCHANGED <<sstat, reserved, bytes, expired, part, token, minted, urls, blob, row, refused, deleted>>
    BY <1>24 DEF cleanup_staging_prefix, CleanStaging
  <2>3. staged' \in [Sessions -> SUBSET Parts]
    BY <1>d, <1>f, <2>1 DEF DataOK, Statuses
  <2> QED
    BY <1>d, <2>2, <2>3 DEF DataOK
<1>25. CASE PurgeRow(t)
  BY <1>d, <1>f, <1>25 DEF DataOK, PurgeRow
<1>26. CASE PurgeRefCheck(t)
  BY <1>d, <1>f, <1>26 DEF DataOK, PurgeRefCheck
<1>27. CASE purge_storage_keys(t)
  BY <1>d, <1>f, <1>27 DEF DataOK, purge_storage_keys
<1> QED
  BY <1>1, <1>2, <1>3, <1>4, <1>5, <1>6, <1>7, <1>8, <1>9, <1>10, <1>11, <1>12, <1>13, <1>14, <1>15, <1>16, <1>17, <1>18, <1>19, <1>20, <1>21, <1>22, <1>23, <1>24, <1>25, <1>26, <1>27 DEF Continue

\* The remaining steps: first steps of handlers, the janitor, the environment.
LEMMA OtherData ==
  ASSUME TypeOK, Next, ~(\E t \in Tasks : Continue(t) /\ UNCHANGED sweeping)
  PROVE  DataOK'
<1>d. DataOK
  BY TypeSplit
<1>1. ASSUME NEW t \in Tasks, Vanish(t), UNCHANGED sweeping
      PROVE  DataOK'
  BY <1>d, <1>1 DEF DataOK, Vanish
<1>2. ASSUME NEW t \in Tasks, NEW s \in Sessions, Begin(t, s), UNCHANGED sweeping
      PROVE  DataOK'
  <2>1. CASE CreateBegin(t, s) \/ CompleteBegin(t, s) \/ PurgeBegin(t, s)
    BY <1>d, <1>2, <2>1 DEF DataOK, CreateBegin, CompleteBegin, PurgeBegin
  <2>2. CASE mark_aborted(t, s)
    BY <1>d, <1>2, <2>2 DEF DataOK, mark_aborted, AbortRows, Statuses
  <2> QED
    BY <1>2, <2>1, <2>2 DEF Begin
<1>3. ASSUME NEW t \in Tasks, NEW s \in Sessions, NEW p \in Parts, BeginPart(t, s, p),
             UNCHANGED sweeping
      PROVE  DataOK'
  BY <1>d, <1>3 DEF DataOK, BeginPart, SignBegin, ConfirmBegin, UploadPartBegin
<1>4. ASSUME NEW s \in Sessions, NEW p \in Parts, DirectPut(s, p), UNCHANGED sweeping
      PROVE  DataOK'
  BY <1>d, <1>4 DEF DataOK, DirectPut
<1>5. ASSUME NEW s \in Sessions, PassDeadline(s), UNCHANGED sweeping
      PROVE  DataOK'
  BY <1>d, <1>5 DEF DataOK, PassDeadline
<1>6. CASE expire_stale_upload_sessions
  <2>1. PICK idle \in SUBSET {s \in Sessions : sstat[s] = "active"} :
           AbortRows(idle \cup Overdue) /\ sweeping' = idle \cup Overdue
    BY <1>6 DEF expire_stale_upload_sessions
  <2>2. sweeping' \subseteq Sessions
    BY <2>1 DEF Overdue
  <2> QED
    BY <1>d, <2>1, <2>2 DEF DataOK, AbortRows, Statuses
<1>7. CASE SweepClean
  <2>1. PICK s \in sweeping : CleanStaging(s) /\ sweeping' = sweeping \ {s}
    BY <1>7 DEF SweepClean
  <2>2. staged' = [staged EXCEPT ![s] = {}] \/ staged' = staged
    BY <2>1 DEF CleanStaging
  <2>3. UNCHANGED <<sstat, reserved, bytes, expired, part, token, minted, urls, blob, row, refused, deleted>>
    BY <2>1 DEF CleanStaging
  <2> QED
    BY <1>d, <2>1, <2>2, <2>3 DEF DataOK
<1>8. CASE SweepVanish
  BY <1>d, <1>8 DEF DataOK, SweepVanish
<1> QED
  BY <1>1, <1>2, <1>3, <1>4, <1>5, <1>6, <1>7, <1>8 DEF Next, Handler

\* Every step keeps the handlers' type.
LEMMA TasksType ==
  ASSUME TypeOK, Next
  PROVE  task' \in [Tasks -> TaskType]
<1>1. ASSUME NEW t \in Tasks, Continue(t)
      PROVE  task' \in [Tasks -> TaskType]
  BY <1>1, ContinueSteps DEF Continue, Stepped
<1>2. ASSUME NEW t \in Tasks, NEW s \in Sessions, Begin(t, s) \/ Vanish(t)
      PROVE  task' \in [Tasks -> TaskType]
  BY <1>2, BeginSteps DEF Begin, Stepped
<1>3. ASSUME NEW t \in Tasks, NEW s \in Sessions, NEW p \in Parts, BeginPart(t, s, p)
      PROVE  task' \in [Tasks -> TaskType]
  BY <1>3, BeginSteps DEF BeginPart, Stepped
<1>4. CASE UNCHANGED task
  BY <1>4 DEF TypeOK
<1>5. \E s \in Sessions : TRUE
  BY UploadSessionAssumption
<1>6. \/ \E t \in Tasks : Continue(t) \/ Vanish(t)
      \/ \E t \in Tasks, s \in Sessions : Begin(t, s)
      \/ \E t \in Tasks, s \in Sessions, p \in Parts : BeginPart(t, s, p)
      \/ UNCHANGED task
  BY DEF Next, Handler, DirectPut, PassDeadline, expire_stale_upload_sessions,
         SweepClean, SweepVanish
<1> QED
  BY <1>1, <1>2, <1>3, <1>4, <1>5, <1>6

LEMMA TypeNext == TypeOK /\ [Next]_vars => TypeOK'
<1> SUFFICES ASSUME TypeOK, [Next]_vars PROVE TypeOK'
  OBVIOUS
<1>1. CASE Next
  <2>1. DataOK'
    BY <1>1, ContinueData, OtherData
  <2>2. task' \in [Tasks -> TaskType]
    BY <1>1, TasksType
  <2> QED
    BY <2>1, <2>2 DEF TypeOK, DataOK
<1>2. CASE UNCHANGED vars
  BY <1>2 DEF TypeOK, vars
<1> QED
  BY <1>1, <1>2

\* Type correctness of the sessions, parts, objects, files and handlers.
THEOREM TypeCorrect == Spec => []TypeOK
<1>1. Init => TypeOK
  BY IdleType DEF Init, TypeOK, Statuses
<1> QED
  BY <1>1, TypeNext, PTL DEF Spec

-----------------------------------------------------------------------------
(* One finalize at a time, released reservations, registered files         *)

\* A step of t that leaves the rows alone and enters neither create_session
\* nor complete_session's finalize keeps the invariant.
LEMMA QuietStep ==
  ASSUME TypeOK, SafeInv, NEW t \in Tasks, NEW pc, NEW s, Stepped(t, pc, s),
         UNCHANGED <<sstat, reserved, row, deleted>>,
         \/ pc \notin FinalizePcs \cup {"create", "insert"}
         \/ /\ s = task[t].s /\ Finalizing(t) /\ pc \in FinalizePcs
            /\ pc \in RegisteredPcs => task[t].pc \in RegisteredPcs
         \/ s = task[t].s /\ task[t].pc = "create" /\ pc = "insert"
  PROVE  SafeInv'
<1>1. \A u \in Tasks \ {t} : task'[u] = task[u]
  BY DEF Stepped
<1>2. task'[t].pc = pc /\ task'[t].s = s
  BY DEF Stepped
<1>3. FinalizeExclusive'
  BY <1>1, <1>2 DEF SafeInv, FinalizeExclusive, Finalizing, FinalizePcs
<1>4. ReservationReleased' /\ CompletedHasFile'
  BY DEF SafeInv, ReservationReleased, CompletedHasFile
<1>5. CreatingIsAbsent'
  BY <1>1, <1>2 DEF SafeInv, CreatingIsAbsent, Finalizing, FinalizePcs
<1>6. RegisteredFirst'
  BY <1>1, <1>2 DEF SafeInv, RegisteredFirst, RegisteredPcs, FinalizePcs
<1> QED
  BY <1>3, <1>4, <1>5, <1>6 DEF SafeInv

\* Steps of a begun handler that leave the rows alone.
LEMMA QuietContinue ==
  ASSUME TypeOK, SafeInv, NEW t \in Tasks,
         \/ CreateQuota(t) \/ SignQuota(t) \/ set_part_signed_token(t)
         \/ consume_part_signed_token(t) \/ StagePart(t) \/ RecordSelect(t)
         \/ RecordUpgrade(t) \/ RecordInsert(t) \/ CompleteList(t)
         \/ FinalizeUsed(t) \/ FinalizeQuota(t) \/ FinalizeKnownHash(t)
         \/ hash_and_put_final(t) \/ FinalizeFind(t) \/ FinalizeDrop(t)
         \/ EnqueueJobs(t) \/ FinalizeClean(t) \/ cleanup_staging_prefix(t)
         \/ PurgeRefCheck(t) \/ purge_storage_keys(t)
  PROVE  SafeInv'
<1>q. \A pc, s : /\ Stepped(t, pc, s)
                 /\ UNCHANGED <<sstat, reserved, row, deleted>>
                 /\ \/ pc \notin FinalizePcs \cup {"create", "insert"}
                    \/ /\ s = task[t].s /\ Finalizing(t) /\ pc \in FinalizePcs
                       /\ pc \in RegisteredPcs => task[t].pc \in RegisteredPcs
                    \/ s = task[t].s /\ task[t].pc = "create" /\ pc = "insert"
                 => SafeInv'
  BY QuietStep
<1>1. CASE CreateQuota(t)
  <2>1. UNCHANGED <<sstat, reserved, row, deleted>>
    BY <1>1 DEF CreateQuota
  <2> QED
    BY <1>1, <2>1, <1>q, ContinueSteps DEF CreateQuota, Finalizing, FinalizePcs, RegisteredPcs
<1>2. CASE SignQuota(t)
  <2>1. UNCHANGED <<sstat, reserved, row, deleted>>
    BY <1>2 DEF SignQuota
  <2> QED
    BY <1>2, <2>1, <1>q, ContinueSteps DEF SignQuota, Finalizing, FinalizePcs, RegisteredPcs
<1>3. CASE set_part_signed_token(t)
  <2>1. UNCHANGED <<sstat, reserved, row, deleted>>
    BY <1>3 DEF set_part_signed_token
  <2> QED
    BY <1>3, <2>1, <1>q, ContinueSteps DEF set_part_signed_token, Finalizing, FinalizePcs, RegisteredPcs
<1>4. CASE consume_part_signed_token(t)
  <2>1. UNCHANGED <<sstat, reserved, row, deleted>>
    BY <1>4 DEF consume_part_signed_token
  <2> QED
    BY <1>4, <2>1, <1>q, ContinueSteps DEF consume_part_signed_token, Finalizing, FinalizePcs, RegisteredPcs
<1>5. CASE StagePart(t)
  <2>1. UNCHANGED <<sstat, reserved, row, deleted>>
    BY <1>5 DEF StagePart
  <2> QED
    BY <1>5, <2>1, <1>q, ContinueSteps DEF StagePart, Finalizing, FinalizePcs, RegisteredPcs
<1>6. CASE RecordSelect(t)
  <2>1. UNCHANGED <<sstat, reserved, row, deleted>>
    BY <1>6 DEF RecordSelect
  <2> QED
    BY <1>6, <2>1, <1>q, ContinueSteps DEF RecordSelect, Finalizing, FinalizePcs, RegisteredPcs
<1>7. CASE RecordUpgrade(t)
  <2>1. UNCHANGED <<sstat, reserved, row, deleted>>
    BY <1>7 DEF RecordUpgrade, SetRecorded
  <2> QED
    BY <1>7, <2>1, <1>q, ContinueSteps DEF RecordUpgrade, Finalizing, FinalizePcs, RegisteredPcs, SetRecorded
<1>8. CASE RecordInsert(t)
  <2>1. UNCHANGED <<sstat, reserved, row, deleted>>
    BY <1>8 DEF RecordInsert, SetRecorded
  <2> QED
    BY <1>8, <2>1, <1>q, ContinueSteps DEF RecordInsert, Finalizing, FinalizePcs, RegisteredPcs, SetRecorded
<1>9. CASE CompleteList(t)
  <2>1. UNCHANGED <<sstat, reserved, row, deleted>>
    BY <1>9 DEF CompleteList
  <2> QED
    BY <1>9, <2>1, <1>q, ContinueSteps DEF CompleteList, Finalizing, FinalizePcs, RegisteredPcs
<1>10. CASE FinalizeUsed(t)
  <2>1. UNCHANGED <<sstat, reserved, row, deleted>>
    BY <1>10 DEF FinalizeUsed
  <2> QED
    BY <1>10, <2>1, <1>q, ContinueSteps DEF FinalizeUsed, Finalizing, FinalizePcs, RegisteredPcs
<1>11. CASE FinalizeQuota(t)
  <2>1. UNCHANGED <<sstat, reserved, row, deleted>>
    BY <1>11 DEF FinalizeQuota
  <2> QED
    BY <1>11, <2>1, <1>q, ContinueSteps DEF FinalizeQuota, Finalizing, FinalizePcs, RegisteredPcs
<1>12. CASE FinalizeKnownHash(t)
  <2>1. UNCHANGED <<sstat, reserved, row, deleted>>
    BY <1>12 DEF FinalizeKnownHash
  <2> QED
    BY <1>12, <2>1, <1>q, ContinueSteps DEF FinalizeKnownHash, Finalizing, FinalizePcs, RegisteredPcs
<1>13. CASE hash_and_put_final(t)
  <2>1. UNCHANGED <<sstat, reserved, row, deleted>>
    BY <1>13 DEF hash_and_put_final
  <2> QED
    BY <1>13, <2>1, <1>q, ContinueSteps DEF hash_and_put_final, Finalizing, FinalizePcs, RegisteredPcs
<1>14. CASE FinalizeFind(t)
  <2>1. UNCHANGED <<sstat, reserved, row, deleted>>
    BY <1>14 DEF FinalizeFind
  <2> QED
    BY <1>14, <2>1, <1>q, ContinueSteps DEF FinalizeFind, Finalizing, FinalizePcs, RegisteredPcs
<1>15. CASE FinalizeDrop(t)
  <2>1. UNCHANGED <<sstat, reserved, row, deleted>>
    BY <1>15 DEF FinalizeDrop
  <2> QED
    BY <1>15, <2>1, <1>q, ContinueSteps DEF FinalizeDrop, Finalizing, FinalizePcs, RegisteredPcs
<1>16. CASE EnqueueJobs(t)
  <2>1. UNCHANGED <<sstat, reserved, row, deleted>>
    BY <1>16 DEF EnqueueJobs
  <2> QED
    BY <1>16, <2>1, <1>q, ContinueSteps DEF EnqueueJobs, Finalizing, FinalizePcs, RegisteredPcs
<1>17. CASE FinalizeClean(t)
  <2>1. UNCHANGED <<sstat, reserved, row, deleted>>
    BY <1>17 DEF FinalizeClean
  <2> QED
    BY <1>17, <2>1, <1>q, ContinueSteps DEF FinalizeClean, Finalizing, FinalizePcs, RegisteredPcs
<1>18. CASE cleanup_staging_prefix(t)
  <2>1. UNCHANGED <<sstat, reserved, row, deleted>>
    BY <1>18 DEF cleanup_staging_prefix, CleanStaging
  <2> QED
    BY <1>18, <2>1, <1>q, ContinueSteps DEF cleanup_staging_prefix, Finalizing, FinalizePcs, RegisteredPcs, CleanStaging
<1>19. CASE PurgeRefCheck(t)
  <2>1. UNCHANGED <<sstat, reserved, row, deleted>>
    BY <1>19 DEF PurgeRefCheck
  <2> QED
    BY <1>19, <2>1, <1>q, ContinueSteps DEF PurgeRefCheck, Finalizing, FinalizePcs, RegisteredPcs
<1>20. CASE purge_storage_keys(t)
  <2>1. UNCHANGED <<sstat, reserved, row, deleted>>
    BY <1>20 DEF purge_storage_keys
  <2> QED
    BY <1>20, <2>1, <1>q, ContinueSteps DEF purge_storage_keys, Finalizing, FinalizePcs, RegisteredPcs
<1> QED
  BY <1>1, <1>2, <1>3, <1>4, <1>5, <1>6, <1>7, <1>8, <1>9, <1>10, <1>11, <1>12, <1>13, <1>14, <1>15, <1>16, <1>17, <1>18, <1>19, <1>20

\* insert_session: the row of the session is new, so no handler finalizes it.
LEMMA InsertSessionSafe ==
  ASSUME TypeOK, SafeInv, NEW t \in Tasks, insert_session(t)
  PROVE  SafeInv'
<1>0. task[t].s \in Sessions /\ task[t].pc = "insert"
  BY TaskFields DEF insert_session
<1>1. Stepped(t, "idle", Idle.s)
  BY ContinueSteps
<1>2. /\ \A u \in Tasks \ {t} : task'[u] = task[u]
      /\ task'[t].pc = "idle"
  BY <1>1 DEF Stepped
<1>3. /\ sstat[task[t].s] = "absent"
      /\ \A u \in Tasks \ {t} : task[u].pc \in {"create", "insert"} => task[u].s # task[t].s
  BY <1>0 DEF SafeInv, CreatingIsAbsent
<1>4. /\ sstat'    = [sstat EXCEPT ![task[t].s] = "active"]
      /\ reserved' = [reserved EXCEPT ![task[t].s] = TRUE]
      /\ UNCHANGED <<row, deleted>>
  BY DEF insert_session
<1>5. sstat \in [Sessions -> Statuses] /\ reserved \in [Sessions -> BOOLEAN]
  BY DEF TypeOK
<1>6. \A u \in Tasks : task[u].s \in Sessions
  BY TaskFields
<1>7. FinalizeExclusive'
  BY <1>2, <1>3, <1>4, <1>5, <1>6 DEF SafeInv, FinalizeExclusive, Finalizing, FinalizePcs
<1>8. ReservationReleased' /\ CompletedHasFile'
  BY <1>0, <1>4, <1>5 DEF SafeInv, ReservationReleased, CompletedHasFile
<1>9. CreatingIsAbsent'
  BY <1>2, <1>3, <1>4, <1>5, <1>6 DEF SafeInv, CreatingIsAbsent
<1>10. RegisteredFirst'
  BY <1>2, <1>4 DEF SafeInv, RegisteredFirst, RegisteredPcs
<1> QED
  BY <1>7, <1>8, <1>9, <1>10 DEF SafeInv

\* CreateBegin: no other request is creating the session.
LEMMA CreateBeginSafe ==
  ASSUME TypeOK, SafeInv, NEW t \in Tasks, NEW s \in Sessions, CreateBegin(t, s)
  PROVE  SafeInv'
<1>1. Stepped(t, "create", s)
  BY BeginSteps
<1>2. /\ \A u \in Tasks \ {t} : task'[u] = task[u]
      /\ task'[t].pc = "create" /\ task'[t].s = s
  BY <1>1 DEF Stepped
<1>3. /\ sstat[s] = "absent"
      /\ \A u \in Tasks : task[u].pc \in {"create", "insert"} => task[u].s # s
      /\ UNCHANGED <<sstat, reserved, row, deleted>>
  BY DEF CreateBegin
<1>4. FinalizeExclusive'
  BY <1>2, <1>3 DEF SafeInv, FinalizeExclusive, Finalizing, FinalizePcs
<1>5. ReservationReleased' /\ CompletedHasFile'
  BY <1>3 DEF SafeInv, ReservationReleased, CompletedHasFile
<1>6. CreatingIsAbsent'
  BY <1>2, <1>3 DEF SafeInv, CreatingIsAbsent
<1>7. RegisteredFirst'
  BY <1>2, <1>3 DEF SafeInv, RegisteredFirst, RegisteredPcs
<1> QED
  BY <1>4, <1>5, <1>6, <1>7 DEF SafeInv

\* mark_completing: only an active session is taken, and an active session has
\* no handler past mark_completing.
LEMMA MarkCompletingSafe ==
  ASSUME TypeOK, SafeInv, NEW t \in Tasks, mark_completing(t)
  PROVE  SafeInv'
<1>0. task[t].s \in Sessions /\ task[t].pc = "mark"
  BY TaskFields DEF mark_completing
<1>u. UNCHANGED <<reserved, row, deleted>>
  BY DEF mark_completing
<1>1. CASE sstat[task[t].s] = "active"
  <2>1. sstat' = [sstat EXCEPT ![task[t].s] = "completing"] /\ Goto(t, "used")
    BY <1>1 DEF mark_completing
  <2>2. Stepped(t, "used", task[t].s)
    BY <2>1, GotoStep DEF Pcs
  <2>3. /\ \A u \in Tasks \ {t} : task'[u] = task[u]
        /\ task'[t].pc = "used" /\ task'[t].s = task[t].s
    BY <2>2 DEF Stepped
  <2>4. sstat \in [Sessions -> Statuses]
    BY DEF TypeOK
  <2>5. \A u \in Tasks : task[u].s \in Sessions
    BY TaskFields
  <2>6. \A u \in Tasks : Finalizing(u) => task[u].s # task[t].s
    BY <1>1 DEF SafeInv, FinalizeExclusive
  <2>7. FinalizeExclusive'
    BY <1>0, <2>1, <2>3, <2>4, <2>5, <2>6 DEF SafeInv, FinalizeExclusive, Finalizing, FinalizePcs
  <2>8. ReservationReleased' /\ CompletedHasFile'
    BY <1>0, <1>u, <2>1, <2>4 DEF SafeInv, ReservationReleased, CompletedHasFile
  <2>9. CreatingIsAbsent'
    BY <1>0, <1>1, <2>1, <2>3, <2>4, <2>5 DEF SafeInv, CreatingIsAbsent
  <2>10. RegisteredFirst'
    BY <1>u, <2>3 DEF SafeInv, RegisteredFirst, RegisteredPcs
  <2> QED
    BY <2>7, <2>8, <2>9, <2>10 DEF SafeInv
<1>2. CASE sstat[task[t].s] # "active"
  <2>1. UNCHANGED sstat /\ End(t)
    BY <1>2 DEF mark_completing
  <2>2. Stepped(t, "idle", Idle.s)
    BY <2>1, EndStep
  <2> QED
    BY <1>u, <2>1, <2>2, QuietStep DEF FinalizePcs
<1> QED
  BY <1>1, <1>2

\* INSERT INTO files: the handler goes on with its row in place, or reverts.
LEMMA InsertFileSafe ==
  ASSUME TypeOK, SafeInv, NEW t \in Tasks,
         insert_deduped_file(t) \/ insert_non_video_file(t)
  PROVE  SafeInv'
<1>0. task[t].s \in Sessions /\ Finalizing(t) /\ NoRow \notin Sessions /\ task[t].key \in Sessions
  BY TaskFields, UploadSessionAssumption
     DEF insert_deduped_file, insert_non_video_file, Finalizing, FinalizePcs
<1>u. UNCHANGED <<sstat, reserved, deleted>>
  BY DEF insert_deduped_file, insert_non_video_file
<1>1. \/ Stepped(t, "clean", task[t].s) \/ Stepped(t, "enqueue", task[t].s)
      \/ Stepped(t, "revert", task[t].s)
  BY ContinueSteps
<1>2. PICK pc \in {"clean", "enqueue", "revert"} : Stepped(t, pc, task[t].s)
  BY <1>1
<1>3. /\ \A u \in Tasks \ {t} : task'[u] = task[u]
      /\ task'[t].pc = pc /\ task'[t].s = task[t].s
  BY <1>2 DEF Stepped
<1>4. row \in [Sessions -> Sessions \cup {NoRow}]
  BY DEF TypeOK
<1>5. \/ row[task[t].s] = NoRow /\ row' = [row EXCEPT ![task[t].s] = task[t].key]
      \/ row[task[t].s] = NoRow /\ row' = [row EXCEPT ![task[t].s] = task[t].s]
      \/ row[task[t].s] # NoRow /\ row' = row
  BY DEF insert_deduped_file, insert_non_video_file, InsertRow
<1>6. row'[task[t].s] # NoRow
  BY <1>0, <1>4, <1>5
<1>7. \A f \in Sessions : row[f] # NoRow => row'[f] # NoRow
  BY <1>0, <1>4, <1>5
<1>8. FinalizeExclusive'
  BY <1>0, <1>u, <1>3 DEF SafeInv, FinalizeExclusive, Finalizing, FinalizePcs
<1>9. ReservationReleased' /\ CompletedHasFile'
  BY <1>u, <1>7 DEF SafeInv, ReservationReleased, CompletedHasFile
<1>10. CreatingIsAbsent'
  BY <1>u, <1>3 DEF SafeInv, CreatingIsAbsent
<1>11. \A u \in Tasks : task[u].s \in Sessions
  BY TaskFields
<1>12. RegisteredFirst'
  BY <1>u, <1>3, <1>6, <1>7, <1>11 DEF SafeInv, RegisteredFirst, RegisteredPcs
<1> QED
  BY <1>8, <1>9, <1>10, <1>12 DEF SafeInv

\* The two last UPDATEs of complete_session: the only handler past
\* mark_completing leaves, and a complete session has its row.
LEMMA LastUpdateSafe ==
  ASSUME TypeOK, SafeInv, NEW t \in Tasks, mark_complete(t) \/ RevertActive(t)
  PROVE  SafeInv'
<1>0. task[t].s \in Sessions /\ Finalizing(t)
  BY TaskFields DEF mark_complete, RevertActive, Finalizing, FinalizePcs
<1>u. UNCHANGED <<row, deleted>>
  BY DEF mark_complete, RevertActive
<1>1. Stepped(t, "idle", Idle.s)
  BY ContinueSteps
<1>2. /\ \A u \in Tasks \ {t} : task'[u] = task[u]
      /\ task'[t].pc = "idle"
  BY <1>1 DEF Stepped
<1>3. PICK st \in {"active", "complete"} :
         /\ sstat' = [sstat EXCEPT ![task[t].s] = st]
         /\ st = "active" => reserved' = reserved
         /\ st = "complete" => /\ reserved' = [reserved EXCEPT ![task[t].s] = FALSE]
                               /\ task[t].pc \in RegisteredPcs
  BY DEF mark_complete, RevertActive, RegisteredPcs
<1>4. sstat \in [Sessions -> Statuses] /\ reserved \in [Sessions -> BOOLEAN]
  BY DEF TypeOK
<1>5. \A u \in Tasks : task[u].s \in Sessions
  BY TaskFields
<1>6. \A u \in Tasks \ {t} : Finalizing(u) => task[u].s # task[t].s
  BY <1>0 DEF SafeInv, FinalizeExclusive
<1>7. FinalizeExclusive'
  BY <1>2, <1>3, <1>4, <1>5, <1>6 DEF SafeInv, FinalizeExclusive, Finalizing, FinalizePcs
<1>8. ReservationReleased'
  BY <1>0, <1>3, <1>4 DEF SafeInv, ReservationReleased
<1>9. CompletedHasFile'
  <2>1. st = "complete" => row[task[t].s] # NoRow \/ task[t].s \in deleted
    BY <1>3 DEF SafeInv, RegisteredFirst
  <2> QED
    BY <1>0, <1>u, <1>3, <1>4, <2>1 DEF SafeInv, CompletedHasFile
<1>10. CreatingIsAbsent'
  <2>1. sstat[task[t].s] # "absent"
    BY <1>0 DEF SafeInv, FinalizeExclusive
  <2> QED
    BY <1>2, <1>3, <1>4, <1>5, <2>1 DEF SafeInv, CreatingIsAbsent
<1>11. RegisteredFirst'
  BY <1>u, <1>2 DEF SafeInv, RegisteredFirst, RegisteredPcs
<1> QED
  BY <1>7, <1>8, <1>9, <1>10, <1>11 DEF SafeInv

\* Aborting sessions in flight, while every handler keeps its session and is
\* where it was or is cleaning up.
LEMMA AbortSafe ==
  ASSUME TypeOK, SafeInv, NEW S \in SUBSET Sessions, AbortRows(S),
         \A s \in S : sstat[s] \in InFlight,
         \A u \in Tasks : task'[u] = task[u] \/ task'[u].pc = "cleanup"
  PROVE  SafeInv'
<1>1. /\ sstat'    = [s \in Sessions |-> IF s \in S THEN "aborted" ELSE sstat[s]]
      /\ reserved' = [s \in Sessions |-> IF s \in S THEN FALSE ELSE reserved[s]]
      /\ UNCHANGED <<row, deleted>>
  BY DEF AbortRows
<1>2. \A u \in Tasks : task[u].s \in Sessions
  BY TaskFields
<1>3. FinalizeExclusive'
  BY <1>1, <1>2 DEF SafeInv, FinalizeExclusive, Finalizing, FinalizePcs
<1>4. ReservationReleased' /\ CompletedHasFile'
  BY <1>1 DEF SafeInv, ReservationReleased, CompletedHasFile
<1>5. CreatingIsAbsent'
  BY <1>1, <1>2 DEF SafeInv, CreatingIsAbsent, InFlight
<1>6. RegisteredFirst'
  BY <1>1 DEF SafeInv, RegisteredFirst, RegisteredPcs
<1> QED
  BY <1>3, <1>4, <1>5, <1>6 DEF SafeInv

\* DELETE FROM files records the deletion.
LEMMA PurgeRowSafe ==
  ASSUME TypeOK, SafeInv, NEW t \in Tasks, PurgeRow(t)
  PROVE  SafeInv'
<1>0. task[t].s \in Sessions
  BY TaskFields
<1>1. Stepped(t, "refcheck", task[t].s)
  BY ContinueSteps
<1>2. /\ \A u \in Tasks \ {t} : task'[u] = task[u]
      /\ task'[t].pc = "refcheck"
  BY <1>1 DEF Stepped
<1>3. /\ row' = [row EXCEPT ![task[t].s] = NoRow] /\ deleted' = deleted \cup {task[t].s}
      /\ UNCHANGED <<sstat, reserved>>
  BY DEF PurgeRow
<1>4. \A f \in Sessions : (row[f] # NoRow \/ f \in deleted) => (row'[f] # NoRow \/ f \in deleted')
  BY <1>0, <1>3 DEF TypeOK
<1>5. FinalizeExclusive'
  BY <1>2, <1>3 DEF SafeInv, FinalizeExclusive, Finalizing, FinalizePcs
<1>6. ReservationReleased' /\ CompletedHasFile'
  BY <1>3, <1>4 DEF SafeInv, ReservationReleased, CompletedHasFile
<1>7. CreatingIsAbsent'
  BY <1>2, <1>3 DEF SafeInv, CreatingIsAbsent
<1>8. \A u \in Tasks : task[u].s \in Sessions
  BY TaskFields
<1>9. RegisteredFirst'
  BY <1>2, <1>4, <1>8 DEF SafeInv, RegisteredFirst, RegisteredPcs
<1> QED
  BY <1>5, <1>6, <1>7, <1>9 DEF SafeInv

\* Steps that move no handler and change no row the invariant speaks of.
LEMMA StillSafe ==
  ASSUME SafeInv, UNCHANGED <<sstat, reserved, row, deleted, task>>
  PROVE  SafeInv'
<1>1. FinalizeExclusive' /\ ReservationReleased' /\ CompletedHasFile'
  BY DEF SafeInv, FinalizeExclusive, Finalizing, ReservationReleased, CompletedHasFile
<1>2. CreatingIsAbsent' /\ RegisteredFirst'
  BY DEF SafeInv, CreatingIsAbsent, RegisteredFirst
<1> QED
  BY <1>1, <1>2 DEF SafeInv

LEMMA SafeNext == TypeOK /\ SafeInv /\ [Next]_vars => SafeInv'
<1> SUFFICES ASSUME TypeOK, SafeInv, [Next]_vars PROVE SafeInv'
  OBVIOUS
<1>1. ASSUME NEW t \in Tasks, Continue(t) PROVE SafeInv'
  BY <1>1, QuietContinue, InsertSessionSafe, MarkCompletingSafe, InsertFileSafe,
     LastUpdateSafe, PurgeRowSafe DEF Continue
<1>2. ASSUME NEW t \in Tasks, Vanish(t) PROVE SafeInv'
  <2>1. Stepped(t, "idle", Idle.s)
    BY <1>2, EndStep DEF Vanish
  <2>2. UNCHANGED <<sstat, reserved, row, deleted>>
    BY <1>2 DEF Vanish
  <2> QED
    BY <2>1, <2>2, QuietStep DEF FinalizePcs
<1>3. ASSUME NEW t \in Tasks, NEW s \in Sessions, Begin(t, s) PROVE SafeInv'
  <2>1. CASE CreateBegin(t, s)
    BY <2>1, CreateBeginSafe
  <2>2. CASE CompleteBegin(t, s)
    <3>1. Stepped(t, "list", s) /\ UNCHANGED <<sstat, reserved, row, deleted>>
      BY <2>2, BeginSteps DEF CompleteBegin
    <3> QED
      BY <3>1, QuietStep DEF FinalizePcs
  <2>3. CASE PurgeBegin(t, s)
    <3>1. Stepped(t, "delrow", s) /\ UNCHANGED <<sstat, reserved, row, deleted>>
      BY <2>3, BeginSteps DEF PurgeBegin
    <3> QED
      BY <3>1, QuietStep DEF FinalizePcs
  <2>4. CASE mark_aborted(t, s)
    <3>1. Stepped(t, "cleanup", s)
      BY <2>4, BeginSteps
    <3>2. \A u \in Tasks : task'[u] = task[u] \/ task'[u].pc = "cleanup"
      BY <3>1 DEF Stepped
    <3>3. AbortRows({s}) /\ sstat[s] \in InFlight
      BY <2>4 DEF mark_aborted
    <3> QED
      BY <3>2, <3>3, AbortSafe
  <2> QED
    BY <1>3, <2>1, <2>2, <2>3, <2>4 DEF Begin
<1>4. ASSUME NEW t \in Tasks, NEW s \in Sessions, NEW p \in Parts, BeginPart(t, s, p)
      PROVE  SafeInv'
  <2>1. PICK pc \in {"sign", "consume", "stage"} : Stepped(t, pc, s)
    BY <1>4, BeginSteps DEF BeginPart
  <2>2. UNCHANGED <<sstat, reserved, row, deleted>>
    BY <1>4 DEF BeginPart, SignBegin, ConfirmBegin, UploadPartBegin
  <2> QED
    BY <2>1, <2>2, QuietStep DEF FinalizePcs
<1>5. CASE expire_stale_upload_sessions
  <2>1. PICK idle \in SUBSET {s \in Sessions : sstat[s] = "active"} :
           AbortRows(idle \cup Overdue)
    BY <1>5 DEF expire_stale_upload_sessions
  <2>2. /\ idle \cup Overdue \in SUBSET Sessions
        /\ \A s \in idle \cup Overdue : sstat[s] \in InFlight
    BY DEF Overdue, InFlight
  <2>3. UNCHANGED task
    BY <1>5 DEF expire_stale_upload_sessions
  <2> QED
    BY <2>1, <2>2, <2>3, AbortSafe
<1>6. CASE \/ SweepClean \/ SweepVanish \/ UNCHANGED vars
           \/ \E s \in Sessions, p \in Parts : DirectPut(s, p)
           \/ \E s \in Sessions : PassDeadline(s)
  <2>1. UNCHANGED <<sstat, reserved, row, deleted, task>>
    BY <1>6 DEF SweepClean, CleanStaging, SweepVanish, DirectPut, PassDeadline, vars
  <2> QED
    BY <2>1, StillSafe
<1> QED
  BY <1>1, <1>2, <1>3, <1>4, <1>5, <1>6 DEF Next, Handler

\* The inductive invariant behind the results below.
THEOREM SafeCorrect == Spec => []SafeInv
<1>1. Init => SafeInv
  BY DEF Init, SafeInv, FinalizeExclusive, Finalizing, FinalizePcs, ReservationReleased,
         CreatingIsAbsent, RegisteredFirst, RegisteredPcs, CompletedHasFile, Idle
<1>2. SafeInv /\ TypeOK /\ TypeOK' /\ [Next]_vars => SafeInv'
  BY SafeNext
<1> QED
  BY <1>1, <1>2, TypeCorrect, PTL DEF Spec

\* For any number of sessions and handlers, at most one complete_session works
\* on a session past mark_completing, whatever aborts, sweeps, failures and
\* dropped handlers interleave with it.
THEOREM OneFinalize == Spec => []FinalizeExclusive
<1>1. SafeInv => FinalizeExclusive
  BY DEF SafeInv
<1> QED
  BY <1>1, SafeCorrect, PTL

\* mark_complete, mark_aborted and the sweep leave no reservation behind, and
\* nothing that is still running gives an ended session one.
THEOREM QuotaReleased == Spec => []ReservationReleased
<1>1. SafeInv => ReservationReleased
  BY DEF SafeInv
<1> QED
  BY <1>1, SafeCorrect, PTL

\* A session is complete only after its files row was inserted.
THEOREM CompleteIsRegistered == Spec => []CompletedHasFile
<1>1. SafeInv => CompletedHasFile
  BY DEF SafeInv
<1> QED
  BY <1>1, SafeCorrect, PTL

-----------------------------------------------------------------------------
(* The part rows and the files complete_session registers.                 *)

\* The handlers' steps that touch part rows, tokens or bytes_received.
PartStep(t) ==
    \/ set_part_signed_token(t) \/ consume_part_signed_token(t)
    \/ RecordUpgrade(t) \/ RecordInsert(t)

\* Every other step leaves them alone.
LEMMA PartChanges ==
  ASSUME [Next]_vars
  PROVE  \/ UNCHANGED <<part, token, minted, bytes>>
         \/ \E t \in Tasks : PartStep(t)
<1>1. ASSUME NEW t \in Tasks, Continue(t), ~PartStep(t)
      PROVE  UNCHANGED <<part, token, minted, bytes>>
  BY <1>1 DEF Continue, PartStep, CreateQuota, insert_session, SignQuota, StagePart,
        RecordSelect, CompleteList, mark_completing, FinalizeUsed, FinalizeQuota,
        FinalizeKnownHash, hash_and_put_final, FinalizeFind, FinalizeDrop,
        insert_deduped_file, insert_non_video_file, EnqueueJobs, FinalizeClean,
        mark_complete, RevertActive, cleanup_staging_prefix, CleanStaging, PurgeRow,
        PurgeRefCheck, purge_storage_keys
<1>2. ASSUME NEW t \in Tasks, NEW s \in Sessions, Begin(t, s)
      PROVE  UNCHANGED <<part, token, minted, bytes>>
  BY <1>2 DEF Begin, CreateBegin, CompleteBegin, mark_aborted, AbortRows, PurgeBegin
<1>3. ASSUME NEW t \in Tasks, NEW s \in Sessions, NEW p \in Parts, BeginPart(t, s, p)
      PROVE  UNCHANGED <<part, token, minted, bytes>>
  BY <1>3 DEF BeginPart, SignBegin, ConfirmBegin, UploadPartBegin
<1>4. CASE expire_stale_upload_sessions \/ SweepClean \/ SweepVanish \/ UNCHANGED vars
  BY <1>4 DEF expire_stale_upload_sessions, AbortRows, SweepClean, CleanStaging,
        SweepVanish, vars
<1>5. ASSUME NEW t \in Tasks, Vanish(t)  PROVE UNCHANGED <<part, token, minted, bytes>>
  BY <1>5 DEF Vanish
<1>6. ASSUME NEW s \in Sessions, PassDeadline(s) \/ \E p \in Parts : DirectPut(s, p)
      PROVE  UNCHANGED <<part, token, minted, bytes>>
  BY <1>6 DEF PassDeadline, DirectPut
<1> QED  BY <1>1, <1>2, <1>3, <1>4, <1>5, <1>6 DEF Next, Handler

-----------------------------------------------------------------------------
(* bytes_received                                                          *)

LEMMA RecordedFinite ==
  \A s \in Sessions : IsFiniteSet(Recorded(s)) /\ Cardinality(Recorded(s)) \in Nat
<1> TAKE s \in Sessions
<1>1. Recorded(s) \in SUBSET Parts
  BY DEF Recorded
<1>2. IsFiniteSet(Recorded(s))
  BY <1>1, UploadSessionAssumption, FS_Subset
<1> QED  BY <1>2, FS_CardinalityType

\* A new token records nothing.
LEMMA TokenRecordsNothing ==
  ASSUME TypeOK, NEW t \in Tasks, set_part_signed_token(t)
  PROVE  bytes' = bytes /\ \A s \in Sessions : Recorded(s)' = Recorded(s)
<1>1. task[t].s \in Sessions /\ task[t].p \in Parts
  BY TaskFields
<1>2. \A s \in Sessions, p \in Parts : part'[s][p] = "recorded" <=> part[s][p] = "recorded"
  BY <1>1 DEF set_part_signed_token, TypeOK
<1>3. bytes' = bytes
  BY DEF set_part_signed_token
<1> QED  BY <1>2, <1>3 DEF Recorded

\* SetRecorded adds one part to one session, and one to its bytes.
LEMMA RecordsOne ==
  ASSUME TypeOK, NEW t \in Tasks, SetRecorded(t), NEW s \in Sessions
  PROVE  /\ s = task[t].s => /\ Recorded(s)' = Recorded(s) \cup {task[t].p}
                             /\ bytes'[s] = bytes[s] + 1
         /\ s # task[t].s => Recorded(s)' = Recorded(s) /\ bytes'[s] = bytes[s]
<1>1. task[t].s \in Sessions /\ task[t].p \in Parts
  BY TaskFields
<1>2. \A p \in Parts :
         part'[s][p] = IF s = task[t].s /\ p = task[t].p THEN "recorded" ELSE part[s][p]
  BY <1>1 DEF SetRecorded, TypeOK
<1>3. s = task[t].s => Recorded(s)' = Recorded(s) \cup {task[t].p}
  BY <1>1, <1>2 DEF Recorded
<1>4. s # task[t].s => Recorded(s)' = Recorded(s)
  BY <1>2 DEF Recorded
<1>5. /\ s = task[t].s => bytes'[s] = bytes[s] + 1
      /\ s # task[t].s => bytes'[s] = bytes[s]
  BY <1>1 DEF SetRecorded, TypeOK
<1> QED  BY <1>3, <1>4, <1>5

LEMMA BytesCoverStep ==
  ASSUME TypeOK, BytesCoverParts, [Next]_vars
  PROVE  BytesCoverParts'
<1>t. bytes \in [Sessions -> Nat]
  BY DEF TypeOK
<1>1. CASE UNCHANGED <<part, token, minted, bytes>>
  BY <1>1 DEF BytesCoverParts, Recorded
<1>2. CASE \E t \in Tasks : PartStep(t)
  <2> PICK t \in Tasks : PartStep(t)
    BY <1>2
  <2>1. CASE set_part_signed_token(t)
    BY <2>1, TokenRecordsNothing DEF BytesCoverParts
  <2>2. CASE UNCHANGED <<part, bytes>>
    BY <2>2 DEF BytesCoverParts, Recorded
  <2>3. CASE SetRecorded(t)
    <3> SUFFICES ASSUME NEW s \in Sessions  PROVE bytes'[s] >= Cardinality(Recorded(s)')
      BY DEF BytesCoverParts, Recorded
    <3>1. CASE s # task[t].s
      BY <2>3, <3>1, RecordsOne DEF BytesCoverParts
    <3>2. CASE s = task[t].s
      <4> DEFINE R == Recorded(s)
                 p == task[t].p
      <4>1. Recorded(s)' = R \cup {p} /\ bytes'[s] = bytes[s] + 1
        BY <2>3, <3>2, RecordsOne
      <4>2. IsFiniteSet(R) /\ Cardinality(R) \in Nat
        BY RecordedFinite
      <4>3. bytes[s] >= Cardinality(R) /\ bytes[s] \in Nat
        BY <1>t DEF BytesCoverParts
      <4> HIDE DEF R
      <4>4. Cardinality(R \cup {p}) = IF p \in R THEN Cardinality(R) ELSE Cardinality(R) + 1
        BY <4>2, FS_AddElement
      <4> QED  BY <4>1, <4>2, <4>3, <4>4
    <3> QED  BY <3>1, <3>2
  <2> QED
    BY <2>1, <2>2, <2>3 DEF PartStep, consume_part_signed_token, RecordUpgrade, RecordInsert
<1> QED  BY <1>1, <1>2, PartChanges

\* bytes_received never falls behind the recorded parts, however recorders of
\* the same part race.
THEOREM BytesCover == Spec => []BytesCoverParts
<1>1. Init => BytesCoverParts
  <2> SUFFICES ASSUME Init, NEW s \in Sessions  PROVE bytes[s] >= Cardinality(Recorded(s))
    BY DEF BytesCoverParts
  <2>1. Recorded(s) = {} /\ bytes[s] = 0
    BY DEF Init, Recorded
  <2> QED  BY <2>1, FS_EmptySet
<1>2. TypeOK /\ BytesCoverParts /\ [Next]_vars => BytesCoverParts'
  BY BytesCoverStep
<1> QED  BY <1>1, <1>2, TypeCorrect, PTL DEF Spec

-----------------------------------------------------------------------------
(* Confirm tokens                                                          *)

\* The steps of record_part_with_checksum.
RecordingPcs == {"record", "upgrade", "newpart"}

\* Tokens are minted once.
TokensMinted ==
    /\ \A s \in Sessions, p \in Parts : token[s][p] <= minted
    /\ \A t \in Tasks : task[t].tok <= minted

\* No two part rows hold the same token.
TokensDistinct ==
    \A s, r \in Sessions, p, q \in Parts :
        token[s][p] # 0 /\ token[s][p] = token[r][q] => s = r /\ p = q

\* A confirm that records has taken its token out of the rows, and a proxied
\* part needs none.
TokensConsumed ==
    /\ \A t \in Tasks : task[t].pc \in RecordingPcs /\ task[t].tok # 0
          => \A s \in Sessions, p \in Parts : token[s][p] # task[t].tok
    /\ \A t \in Tasks : task[t].pc = "stage" => task[t].tok = 0

TokenInv == TokensMinted /\ TokensDistinct /\ TokensConsumed /\ ConfirmTokenSingleUse

\* Handlers that neither begin to record nor carry a new token change nothing.
LEMMA TokenKept ==
  ASSUME TypeOK, TypeOK', TokenInv, UNCHANGED <<token, minted>>,
         \A u \in Tasks :
            /\ task'[u].tok <= minted
            /\ task'[u].pc \in RecordingPcs =>
                  \/ task'[u].tok = 0
                  \/ task[u].pc \in RecordingPcs /\ task'[u].tok = task[u].tok
            /\ task'[u].pc = "stage" => task'[u].tok = 0
  PROVE  TokenInv'
<1>1. TokensMinted' /\ TokensDistinct'
  BY DEF TokenInv, TokensMinted, TokensDistinct
<1>2. TokensConsumed'
  BY DEF TokenInv, TokensConsumed
<1>3. ConfirmTokenSingleUse'
  BY DEF TokenInv, ConfirmTokenSingleUse, RecordingPcs
<1> QED  BY <1>1, <1>2, <1>3 DEF TokenInv

\* The same for a step of one handler.
LEMMA TokenKeptBy ==
  ASSUME TypeOK, TypeOK', TokenInv, UNCHANGED <<token, minted>>, NEW t \in Tasks,
         \A u \in Tasks \ {t} : task'[u] = task[u],
         task'[t].tok <= minted,
         task'[t].pc \in RecordingPcs =>
            \/ task'[t].tok = 0
            \/ task[t].pc \in RecordingPcs /\ task'[t].tok = task[t].tok,
         task'[t].pc = "stage" => task'[t].tok = 0
  PROVE  TokenInv'
<1>1. ASSUME NEW u \in Tasks
      PROVE  /\ task'[u].tok <= minted
             /\ task'[u].pc \in RecordingPcs =>
                  \/ task'[u].tok = 0
                  \/ task[u].pc \in RecordingPcs /\ task'[u].tok = task[u].tok
             /\ task'[u].pc = "stage" => task'[u].tok = 0
  <2>1. CASE u = t
    BY <2>1
  <2>2. CASE u # t
    BY <2>2 DEF TokenInv, TokensMinted, TokensConsumed
  <2> QED  BY <2>1, <2>2
<1> QED  BY <1>1, TokenKept

\* What a step of a begun handler does to its token: it keeps it or ends.
LEMMA TokAfter ==
  ASSUME TypeOK, NEW t \in Tasks
  PROVE  /\ \A pc \in Pcs : Goto(t, pc) => task'[t].tok = task[t].tok
         /\ End(t) => task'[t].tok = 0
         /\ Continue(t) => task'[t].tok \in {task[t].tok, 0}
<1>g. \A pc : Goto(t, pc) => task'[t].tok = task[t].tok
  BY TaskFields DEF Goto, Become, TypeOK, TaskType
<1>e. End(t) => task'[t].tok = 0
  BY DEF End, Become, Idle, TypeOK
<1>1. ASSUME \/ CreateQuota(t) \/ insert_session(t) \/ SignQuota(t)
             \/ set_part_signed_token(t) \/ consume_part_signed_token(t) \/ StagePart(t)
             \/ RecordSelect(t) \/ RecordUpgrade(t) \/ RecordInsert(t)
      PROVE  task'[t].tok \in {task[t].tok, 0}
  BY <1>1, <1>g, <1>e DEF CreateQuota, insert_session, SignQuota, set_part_signed_token,
        consume_part_signed_token, StagePart, RecordSelect, RecordUpgrade, RecordInsert
<1>2. ASSUME \/ CompleteList(t) \/ FinalizeUsed(t) \/ FinalizeKnownHash(t) \/ FinalizeFind(t)
      PROVE  task'[t].tok \in {task[t].tok, 0}
  <2>b. \A r : Become(t, r) => task'[t] = r
    BY DEF Become, TypeOK
  <2>t. task[t] \in TaskType
    BY TaskFields
  <2>1. CASE CompleteList(t)
    <3> DEFINE r == [task[t] EXCEPT !.pc = "mark", !.inst = InstantSource(task[t].s)]
    <3>1. r.tok = task[t].tok
      BY <2>t DEF TaskType
    <3>2. Become(t, r) \/ End(t)
      BY <2>1 DEF CompleteList
    <3> HIDE DEF r
    <3> QED  BY <3>1, <3>2, <2>b, <1>e
  <2>2. CASE FinalizeUsed(t)
    <3> DEFINE r == [task[t] EXCEPT !.pc = "reserved", !.val = load_user_used_bytes]
    <3>1. r.tok = task[t].tok
      BY <2>t DEF TaskType
    <3>2. Become(t, r)
      BY <2>2 DEF FinalizeUsed
    <3> HIDE DEF r
    <3> QED  BY <3>1, <3>2, <2>b
  <2>3. CASE FinalizeKnownHash(t)
    <3>1. ASSUME NEW k, Become(t, [task[t] EXCEPT !.pc = "link", !.key = k])
          PROVE  task'[t].tok = task[t].tok
      <4> DEFINE r == [task[t] EXCEPT !.pc = "link", !.key = k]
      <4>1. r.tok = task[t].tok
        BY <2>t DEF TaskType
      <4>2. Become(t, r)
        BY <3>1
      <4> HIDE DEF r
      <4> QED  BY <4>1, <4>2, <2>b
    <3> QED  BY <2>3, <3>1, <1>g DEF FinalizeKnownHash
  <2>4. CASE FinalizeFind(t)
    <3>1. ASSUME NEW k, Become(t, [task[t] EXCEPT !.pc = "drop", !.key = k])
          PROVE  task'[t].tok = task[t].tok
      <4> DEFINE r == [task[t] EXCEPT !.pc = "drop", !.key = k]
      <4>1. r.tok = task[t].tok
        BY <2>t DEF TaskType
      <4>2. Become(t, r)
        BY <3>1
      <4> HIDE DEF r
      <4> QED  BY <4>1, <4>2, <2>b
    <3> QED  BY <2>4, <3>1, <1>g DEF FinalizeFind
  <2> QED  BY <1>2, <2>1, <2>2, <2>3, <2>4
<1>3. ASSUME \/ mark_completing(t) \/ FinalizeQuota(t) \/ hash_and_put_final(t)
             \/ FinalizeDrop(t) \/ insert_deduped_file(t) \/ insert_non_video_file(t)
             \/ EnqueueJobs(t) \/ FinalizeClean(t) \/ mark_complete(t) \/ RevertActive(t)
      PROVE  task'[t].tok \in {task[t].tok, 0}
  BY <1>3, <1>g, <1>e DEF mark_completing, FinalizeQuota, hash_and_put_final, FinalizeDrop,
        insert_deduped_file, insert_non_video_file, InsertRow, EnqueueJobs, FinalizeClean,
        mark_complete, RevertActive
<1>4. ASSUME \/ cleanup_staging_prefix(t) \/ PurgeRow(t) \/ PurgeRefCheck(t)
             \/ purge_storage_keys(t)
      PROVE  task'[t].tok \in {task[t].tok, 0}
  BY <1>4, <1>g, <1>e DEF cleanup_staging_prefix, PurgeRow, PurgeRefCheck, purge_storage_keys
<1> QED  BY <1>g, <1>e, <1>1, <1>2, <1>3, <1>4 DEF Continue

\* Handlers that have begun, one case per step that touches tokens or records.
LEMMA TokenContinue ==
  ASSUME TypeOK, TypeOK', TokenInv, NEW t \in Tasks, Continue(t)
  PROVE  TokenInv'
<1>f. /\ task[t].s \in Sessions /\ task[t].p \in Parts /\ task[t].tok \in Nat
      /\ minted \in Nat /\ task[t].tok <= minted
  BY TaskFields DEF TypeOK, TokenInv, TokensMinted
<1>a. task'[t].tok \in {task[t].tok, 0} /\ task'[t].tok <= minted
  BY <1>f, TokAfter
<1>o. \A u \in Tasks \ {t} : task'[u] = task[u]
  BY ContinueSteps DEF Continue, Stepped
<1>y. \A u \in Tasks : task[u].tok \in Nat /\ task[u].tok <= minted
  BY TaskFields DEF TokenInv, TokensMinted
<1>z. \A s \in Sessions, p \in Parts : token[s][p] \in Nat /\ token[s][p] <= minted
  BY DEF TypeOK, TokenInv, TokensMinted
<1>1. CASE set_part_signed_token(t)
  <2>1. task'[t].pc = "idle" /\ task'[t].tok = 0
    BY <1>1, ContinueSteps, TokAfter DEF set_part_signed_token, Stepped
  <2>2. /\ minted' = minted + 1
        /\ \A s \in Sessions, p \in Parts :
              token'[s][p] = IF s = task[t].s /\ p = task[t].p THEN minted + 1 ELSE token[s][p]
    BY <1>1, <1>f DEF set_part_signed_token, TypeOK
  <2>3. TokensMinted'
    <3>1. \A s \in Sessions, p \in Parts : token'[s][p] <= minted'
      BY <2>2, <1>f, <1>z
    <3>2. \A u \in Tasks : task'[u].tok <= minted'
      BY <2>1, <2>2, <1>f, <1>o, <1>y
    <3> QED  BY <3>1, <3>2 DEF TokensMinted
  <2>4. TokensDistinct'
    <3>1. \A s \in Sessions, p \in Parts : token[s][p] # minted + 1
      BY <1>f, <1>z
    <3> QED  BY <2>2, <3>1 DEF TokenInv, TokensDistinct
  <2>5. TokensConsumed'
    <3>1. \A u \in Tasks : task[u].tok # minted + 1
      BY <1>f, <1>y
    <3> QED  BY <2>1, <2>2, <3>1, <1>o DEF TokenInv, TokensConsumed, RecordingPcs
  <2>6. ConfirmTokenSingleUse'
    BY <2>1, <1>o DEF TokenInv, ConfirmTokenSingleUse
  <2> QED  BY <2>3, <2>4, <2>5, <2>6 DEF TokenInv
<1>2. CASE consume_part_signed_token(t)
  <2>1. CASE End(t) /\ UNCHANGED token
    <3>1. task'[t].pc = "idle" /\ UNCHANGED <<token, minted>>
      BY <1>2, <2>1, EndStep DEF consume_part_signed_token, Stepped
    <3> QED  BY <3>1, <1>a, <1>o, TokenKeptBy DEF RecordingPcs
  <2>2. CASE /\ token[task[t].s][task[t].p] = task[t].tok
             /\ token' = [token EXCEPT ![task[t].s][task[t].p] = 0]
             /\ Goto(t, "record")
    <3> DEFINE k == task[t].tok
    <3>1. task'[t].pc = "record" /\ task'[t].tok = k /\ minted' = minted
      BY <1>2, <2>2, GotoStep, TokAfter DEF consume_part_signed_token, Stepped, Pcs
    <3>2. \A s \in Sessions, p \in Parts :
             token'[s][p] = IF s = task[t].s /\ p = task[t].p THEN 0 ELSE token[s][p]
      BY <2>2, <1>f DEF TypeOK
    <3>3. TokensMinted'
      BY <3>1, <3>2, <1>f, <1>o, <1>y, <1>z DEF TokensMinted
    <3>4. TokensDistinct'
      BY <3>2 DEF TokenInv, TokensDistinct
    <3>5. k # 0 => \A s \in Sessions, p \in Parts : token'[s][p] # k
      BY <2>2, <3>2, <1>f DEF TokenInv, TokensDistinct
    <3>6. TokensConsumed'
      BY <3>1, <3>2, <3>5, <1>f, <1>o DEF TokenInv, TokensConsumed
    <3>7. \A u \in Tasks \ {t} : task[u].pc \in RecordingPcs /\ task[u].tok # 0 => task[u].tok # k
      BY <2>2, <1>f DEF TokenInv, TokensConsumed
    <3>8. ConfirmTokenSingleUse'
      BY <3>1, <3>7, <1>f, <1>o DEF TokenInv, ConfirmTokenSingleUse, RecordingPcs
    <3> QED  BY <3>3, <3>4, <3>6, <3>8 DEF TokenInv
  <2> QED  BY <1>2, <2>1, <2>2 DEF consume_part_signed_token
<1>3. CASE StagePart(t)
  <2>1. task[t].tok = 0 /\ UNCHANGED <<token, minted>>
    BY <1>3 DEF StagePart, TokenInv, TokensConsumed
  <2> QED  BY <2>1, <1>a, <1>o, TokenKeptBy
<1>4. CASE RecordSelect(t)
  <2>1. task[t].pc \in RecordingPcs /\ UNCHANGED <<token, minted>>
    BY <1>4 DEF RecordSelect, RecordingPcs
  <2>2. task'[t].pc # "stage"
    BY <1>4, ContinueSteps DEF Stepped
  <2> QED  BY <2>1, <2>2, <1>a, <1>o, TokenKeptBy
<1>5. CASE ~(set_part_signed_token(t) \/ consume_part_signed_token(t) \/ StagePart(t) \/ RecordSelect(t))
  <2>1. task'[t].pc \notin RecordingPcs \cup {"stage"}
    BY <1>5, ContinueSteps DEF Continue, Stepped, RecordingPcs
  <2>2. UNCHANGED <<token, minted>>
    BY <1>5 DEF Continue, CreateQuota, insert_session, SignQuota, RecordUpgrade, RecordInsert,
        CompleteList, mark_completing, FinalizeUsed, FinalizeQuota,
        FinalizeKnownHash, hash_and_put_final, FinalizeFind, FinalizeDrop,
        insert_deduped_file, insert_non_video_file, EnqueueJobs, FinalizeClean,
        mark_complete, RevertActive, cleanup_staging_prefix, CleanStaging, PurgeRow,
        PurgeRefCheck, purge_storage_keys
  <2> QED  BY <2>1, <2>2, <1>a, <1>o, TokenKeptBy
<1> QED  BY <1>1, <1>2, <1>3, <1>4, <1>5

\* First steps of handlers: only ConfirmBegin carries a token, which it reads.
LEMMA TokenBegin ==
  ASSUME TypeOK, TypeOK', TokenInv, NEW t \in Tasks,
         \/ Vanish(t)
         \/ \E s \in Sessions : Begin(t, s)
         \/ \E s \in Sessions, p \in Parts : BeginPart(t, s, p)
  PROVE  TokenInv'
<1>m. minted \in Nat
  BY DEF TypeOK
<1>b. \A r : Become(t, r) => task'[t] = r
  BY DEF Become, TypeOK
<1>i. Idle \in TaskType /\ Idle.tok = 0
  BY IdleType DEF Idle
<1>1. CASE Vanish(t)
  <2>1. UNCHANGED <<token, minted>> /\ task'[t] = Idle /\ \A u \in Tasks \ {t} : task'[u] = task[u]
    BY <1>1, <1>b DEF Vanish, End, Become, TypeOK
  <2>2. Idle.pc = "idle"
    BY DEF Idle
  <2> QED  BY <2>1, <2>2, <1>i, <1>m, TokenKeptBy DEF RecordingPcs
<1>2. ASSUME NEW s \in Sessions, Begin(t, s)  PROVE TokenInv'
  <2>1. task'[t].tok = 0
    BY <1>2, <1>b, <1>i DEF Begin, CreateBegin, CompleteBegin, mark_aborted, PurgeBegin, TaskType
  <2>2. /\ task'[t].pc \notin RecordingPcs \cup {"stage"}
        /\ \A u \in Tasks \ {t} : task'[u] = task[u]
    BY <1>2, BeginSteps DEF Begin, Stepped, RecordingPcs
  <2>3. UNCHANGED <<token, minted>>
    BY <1>2 DEF Begin, CreateBegin, CompleteBegin, mark_aborted, AbortRows, PurgeBegin
  <2> QED  BY <2>1, <2>2, <2>3, <1>m, TokenKeptBy
<1>3. ASSUME NEW s \in Sessions, NEW p \in Parts, BeginPart(t, s, p)  PROVE TokenInv'
  <2>1. task'[t].tok \in {0, token[s][p]}
    <3>1. CASE SignBegin(t, s, p)
      <4> DEFINE r == [Idle EXCEPT !.pc = "sign", !.s = s, !.p = p,
                                   !.val = load_user_used_bytes, !.own = reserved[s]]
      <4>1. r.tok = 0
        BY <1>i DEF TaskType
      <4>2. Become(t, r)
        BY <3>1 DEF SignBegin
      <4> HIDE DEF r
      <4> QED  BY <4>1, <4>2, <1>b
    <3>2. CASE ConfirmBegin(t, s, p)
      <4> DEFINE r == [Idle EXCEPT !.pc = "consume", !.s = s, !.p = p, !.tok = token[s][p]]
      <4>1. r.tok = token[s][p]
        BY <1>i DEF TaskType
      <4>2. Become(t, r)
        BY <3>2 DEF ConfirmBegin
      <4> HIDE DEF r
      <4> QED  BY <4>1, <4>2, <1>b
    <3>3. CASE UploadPartBegin(t, s, p)
      BY <3>3, <1>b, <1>i DEF UploadPartBegin, TaskType
    <3> QED  BY <1>3, <3>1, <3>2, <3>3 DEF BeginPart
  <2>2. task'[t].pc = "stage" => task'[t].tok = 0
    <3>1. CASE UploadPartBegin(t, s, p)
      BY <3>1, <1>b, <1>i DEF UploadPartBegin, TaskType
    <3>2. CASE SignBegin(t, s, p) \/ ConfirmBegin(t, s, p)
      BY <3>2, BeginSteps DEF Stepped
    <3> QED  BY <1>3, <3>1, <3>2 DEF BeginPart
  <2>3. /\ task'[t].pc \notin RecordingPcs
        /\ \A u \in Tasks \ {t} : task'[u] = task[u]
    BY <1>3, BeginSteps DEF BeginPart, Stepped, RecordingPcs
  <2>4. UNCHANGED <<token, minted>>
    BY <1>3 DEF BeginPart, SignBegin, ConfirmBegin, UploadPartBegin
  <2>5. task'[t].tok <= minted
    BY <2>1, <1>m DEF TokenInv, TokensMinted
  <2> QED  BY <2>2, <2>3, <2>4, <2>5, TokenKeptBy
<1> QED  BY <1>1, <1>2, <1>3

LEMMA TokenStep == TypeOK /\ TypeOK' /\ TokenInv /\ [Next]_vars => TokenInv'
<1> SUFFICES ASSUME TypeOK, TypeOK', TokenInv, [Next]_vars PROVE TokenInv'
  OBVIOUS
<1>1. CASE \E t \in Tasks : Handler(t)
  BY <1>1, TokenContinue, TokenBegin DEF Handler
<1>2. CASE UNCHANGED <<task, token, minted>>
  BY <1>2, TokenKept DEF TokenInv, TokensMinted, TokensConsumed
<1> QED
  BY <1>1, <1>2 DEF Next, vars, DirectPut, PassDeadline, expire_stale_upload_sessions,
        AbortRows, SweepClean, CleanStaging, SweepVanish

\* A confirm token lets one confirm_part record its part, however confirms,
\* new URLs and proxied uploads of the part interleave.
THEOREM TokenSingleUse == Spec => []ConfirmTokenSingleUse
<1>1. Init => TokenInv
  <2> SUFFICES ASSUME Init PROVE TokenInv
    OBVIOUS
  <2>1. \A t \in Tasks : task[t].tok = 0 /\ task[t].pc = "idle"
    BY DEF Init, Idle
  <2>2. minted = 0 /\ \A s \in Sessions, p \in Parts : token[s][p] = 0
    BY DEF Init
  <2> QED
    BY <2>1, <2>2 DEF TokenInv, TokensMinted, TokensDistinct, TokensConsumed,
          ConfirmTokenSingleUse, RecordingPcs
<1>2. TokenInv => ConfirmTokenSingleUse
  BY DEF TokenInv
<1> QED  BY <1>1, <1>2, TokenStep, TypeCorrect, PTL DEF Spec
-----------------------------------------------------------------------------
(* Files *)

\* Goto changes the place of a handler and nothing else.
LEMMA GotoKeeps ==
  ASSUME TypeOK, NEW t \in Tasks, NEW pc \in Pcs, Goto(t, pc)
  PROVE  task'[t].inst = task[t].inst /\ task'[t].key = task[t].key
<1> DEFINE r == [task[t] EXCEPT !.pc = pc]
<1>1. r.inst = task[t].inst /\ r.key = task[t].key
  BY TaskFields DEF TaskType
<1>2. task'[t] = r
  BY DEF Goto, Become, TypeOK
<1> HIDE DEF r
<1> QED  BY <1>1, <1>2

\* A handler that moves on with a key k.
LEMMA KeyStep ==
  ASSUME TypeOK, NEW t \in Tasks, NEW pc \in Pcs, NEW k \in Sessions,
         Become(t, [task[t] EXCEPT !.pc = pc, !.key = k])
  PROVE  Stepped(t, pc, task[t].s) /\ task'[t].key = k
<1> DEFINE r == [task[t] EXCEPT !.pc = pc, !.key = k]
<1>1. r \in TaskType /\ r.pc = pc /\ r.s = task[t].s /\ r.key = k
  BY TaskFields DEF TaskType
<1>2. Become(t, r)
  OBVIOUS
<1> HIDE DEF r
<1>3. task'[t] = r
  BY <1>2 DEF Become, TypeOK
<1> QED  BY <1>1, <1>2, <1>3, BecomeStep

-----------------------------------------------------------------------------
(* Objects, without failing calls and without purges                       *)

\* The steps of a finalize before its INSERT INTO files.
UnfiledPcs == {"used", "reserved", "known", "put", "find", "drop", "link",
               "insertfile", "revert"}

\* A session that can still be completed has no files row, nor has one whose
\* finalize has not inserted it yet.
Unfiled ==
    /\ \A s \in Sessions : sstat[s] \in {"absent", "active"} => row[s] = NoRow
    /\ \A t \in Tasks : task[t].pc \in UnfiledPcs => row[task[t].s] = NoRow

\* A row shares the key of a file that owns it, whose object is there.
OwnersKept ==
    \A f \in Sessions : row[f] # NoRow => row[row[f]] = row[f] /\ row[f] \in blob

\* A dedup source keeps its row until it is linked, and an assembled object
\* waits for its row.
SourcesKept ==
    /\ \A t \in Tasks : task[t].pc \in {"drop", "link"} => row[task[t].key] = task[t].key
    /\ \A t \in Tasks : task[t].pc \in {"find", "insertfile"} => task[t].s \in blob

NoPurges == \A t \in Tasks : task[t].pc \notin {"delrow", "refcheck", "purge"}

FileInv == Unfiled /\ OwnersKept /\ SourcesKept /\ NoPurges

\* A step of t that inserts no row, and deletes no object but that of its own
\* unfiled session.
LEMMA FileQuiet ==
  ASSUME TypeOK, SafeInv, FileInv, NEW t \in Tasks, NEW pc \in Pcs, NEW s \in Sessions,
         Stepped(t, pc, s), UNCHANGED row,
         \A k \in blob : \/ k \in blob'
                         \/ k = task[t].s /\ row[k] = NoRow /\ Finalizing(t),
         \A x \in Sessions : sstat'[x] \in {"absent", "active"} =>
                               sstat[x] \in {"absent", "active"} \/ row[x] = NoRow,
         pc \in UnfiledPcs => row[s] = NoRow,
         pc \in {"drop", "link"} => row[task'[t].key] = task'[t].key,
         pc \in {"find", "insertfile"} => s \in blob',
         pc \notin {"delrow", "refcheck", "purge"}
  PROVE  FileInv'
<1>1. task'[t].pc = pc /\ task'[t].s = s /\ \A u \in Tasks \ {t} : task'[u] = task[u]
  BY DEF Stepped
<1>2. Unfiled'
  BY <1>1 DEF FileInv, Unfiled
<1>3. OwnersKept'
  BY UploadSessionAssumption DEF FileInv, OwnersKept, TypeOK
<1>4. \A u \in Tasks \ {t} : task[u].pc \in {"find", "insertfile"} => task[u].s \in blob'
  <2> SUFFICES ASSUME NEW u \in Tasks \ {t}, task[u].pc \in {"find", "insertfile"}
               PROVE  task[u].s \in blob'
    OBVIOUS
  <2>1. task[u].s \in blob /\ Finalizing(u)
    BY DEF FileInv, SourcesKept, Finalizing, FinalizePcs
  <2>2. Finalizing(t) => task[u].s # task[t].s
    BY <2>1 DEF SafeInv, FinalizeExclusive
  <2> QED  BY <2>1, <2>2
<1>5. SourcesKept'
  BY <1>1, <1>4 DEF FileInv, SourcesKept
<1>6. NoPurges'
  BY <1>1 DEF FileInv, NoPurges
<1> QED  BY <1>2, <1>3, <1>5, <1>6 DEF FileInv

\* The keys find_dedup_source returns are kept by their owners.
LEMMA SourceOwned ==
  ASSUME TypeOK, FileInv, NEW s, NEW k \in find_dedup_source(s)
  PROVE  k \in Sessions /\ row[k] = k
<1>1. PICK f \in Sessions : row[f] # NoRow /\ k = row[f]
  BY DEF find_dedup_source
<1> QED  BY <1>1 DEF FileInv, OwnersKept, TypeOK

\* INSERT INTO files, of an assembled object or of a dedup source.
LEMMA FileInserted ==
  ASSUME TypeOK, SafeInv, FileInv, ~CanFail, NEW t \in Tasks,
         insert_deduped_file(t) \/ insert_non_video_file(t)
  PROVE  FileInv'
<1> DEFINE s == task[t].s
<1>1. /\ s \in Sessions /\ task[t].key \in Sessions /\ NoRow \notin Sessions
      /\ row[s] = NoRow /\ Finalizing(t)
  BY TaskFields, UploadSessionAssumption
     DEF insert_deduped_file, insert_non_video_file, FileInv, Unfiled, UnfiledPcs,
         Finalizing, FinalizePcs
<1>2. PICK k \in Sessions, pc \in {"clean", "enqueue"} :
         /\ row' = [row EXCEPT ![s] = k] /\ Goto(t, pc)
         /\ (k = s /\ s \in blob) \/ row[k] = k
  <2>1. CASE insert_deduped_file(t)
    BY <1>1, <2>1 DEF insert_deduped_file, InsertRow, FileInv, SourcesKept
  <2>2. CASE insert_non_video_file(t)
    BY <1>1, <2>2 DEF insert_non_video_file, InsertRow, FileInv, SourcesKept
  <2> QED  BY <2>1, <2>2
<1>3. UNCHANGED <<sstat, blob>>
  BY DEF insert_deduped_file, insert_non_video_file
<1>4. task'[t].pc = pc /\ \A u \in Tasks \ {t} : task'[u] = task[u]
  BY <1>2, GotoStep DEF Stepped, Pcs
<1>5. \A f \in Sessions : row'[f] = IF f = s THEN k ELSE row[f]
  BY <1>1, <1>2 DEF TypeOK
<1>6. sstat[s] \notin {"absent", "active"}
  BY <1>1 DEF SafeInv, FinalizeExclusive
<1>7. \A u \in Tasks \ {t} : task[u].pc \in UnfiledPcs => task[u].s # s
  BY <1>1 DEF SafeInv, FinalizeExclusive, UnfiledPcs, Finalizing, FinalizePcs
<1>8. \A u \in Tasks : task[u].s \in Sessions /\ task[u].key \in Sessions
  BY TaskFields
<1> HIDE DEF s
<1>9. Unfiled'
  BY <1>3, <1>4, <1>5, <1>6, <1>7, <1>8 DEF FileInv, Unfiled, UnfiledPcs
<1>10. \A j \in Sessions : row[j] = j => j # s /\ row'[j] = j
  BY <1>1, <1>5
<1>11. k \in blob /\ row'[k] = k
  BY <1>1, <1>2, <1>5, <1>10 DEF FileInv, OwnersKept
<1>12. OwnersKept'
  <2> SUFFICES ASSUME NEW f \in Sessions, row'[f] # NoRow
               PROVE  row'[row'[f]] = row'[f] /\ row'[f] \in blob'
    BY DEF OwnersKept
  <2>1. CASE f = s
    BY <2>1, <1>3, <1>5, <1>11
  <2>2. CASE f # s
    <3>1. row'[f] = row[f] /\ row[f] \in Sessions /\ row[row[f]] = row[f] /\ row[f] \in blob
      BY <2>2, <1>5 DEF FileInv, OwnersKept, TypeOK
    <3> QED  BY <3>1, <1>3, <1>10
  <2> QED  BY <2>1, <2>2
<1>13. SourcesKept'
  BY <1>3, <1>4, <1>8, <1>10 DEF FileInv, SourcesKept
<1>14. NoPurges'
  BY <1>4 DEF FileInv, NoPurges
<1> QED  BY <1>9, <1>12, <1>13, <1>14 DEF FileInv

\* Steps of a begun handler other than those of the finalize.
LEMMA FileOther ==
  ASSUME TypeOK, SafeInv, FileInv, NEW t \in Tasks, Continue(t), ~Finalizing(t)
  PROVE  FileInv'
<1>f. task[t].s \in Sessions /\ Idle.s \in Sessions
  BY TaskFields, IdleType DEF TaskType
<1>p. task[t].pc \notin {"delrow", "refcheck", "purge"}
  BY DEF FileInv, NoPurges
<1>1. CASE mark_completing(t)
  <2>1. CASE sstat[task[t].s] = "active"
    <3>1. /\ Stepped(t, "used", task[t].s) /\ row[task[t].s] = NoRow
          /\ UNCHANGED <<row, blob>>
          /\ sstat' = [sstat EXCEPT ![task[t].s] = "completing"]
      BY <1>1, <2>1, <1>f, GotoStep DEF mark_completing, FileInv, Unfiled, Pcs
    <3>2. \A x \in Sessions : sstat'[x] \in {"absent", "active"} => sstat'[x] = sstat[x]
      BY <3>1, <1>f DEF TypeOK
    <3> QED  BY <3>1, <3>2, <1>f, FileQuiet DEF Pcs
  <2>2. CASE sstat[task[t].s] # "active"
    <3>1. Stepped(t, "idle", Idle.s) /\ UNCHANGED <<sstat, row, blob>>
      BY <1>1, <2>2, EndStep DEF mark_completing
    <3> QED  BY <3>1, <1>f, FileQuiet DEF Pcs, UnfiledPcs
  <2> QED  BY <2>1, <2>2
<1>2. CASE insert_session(t)
  <2>1. Stepped(t, "idle", Idle.s) /\ UNCHANGED <<row, blob>>
    BY <1>2, ContinueSteps DEF insert_session
  <2>2. sstat[task[t].s] = "absent"
    BY <1>2 DEF insert_session, SafeInv, CreatingIsAbsent
  <2>3. \A x \in Sessions : sstat'[x] \in {"absent", "active"} =>
                              sstat[x] \in {"absent", "active"}
    BY <1>2, <2>2, <1>f DEF insert_session, TypeOK
  <2> QED  BY <2>1, <2>3, <1>f, FileQuiet DEF Pcs, UnfiledPcs
<1>3. CASE \/ CreateQuota(t) \/ SignQuota(t) \/ set_part_signed_token(t)
           \/ consume_part_signed_token(t) \/ StagePart(t) \/ RecordSelect(t)
           \/ RecordUpgrade(t) \/ RecordInsert(t) \/ CompleteList(t)
           \/ cleanup_staging_prefix(t)
  <2>1. UNCHANGED <<sstat, row, blob>>
    BY <1>3 DEF CreateQuota, SignQuota, set_part_signed_token, consume_part_signed_token,
          StagePart, RecordSelect, RecordUpgrade, RecordInsert, CompleteList,
          cleanup_staging_prefix, CleanStaging
  <2>2. PICK pc \in {"idle", "insert", "token", "record", "upgrade", "newpart", "mark"},
             s \in Sessions : Stepped(t, pc, s)
    BY <1>3, <1>f, ContinueSteps
  <2> QED  BY <2>1, <2>2, FileQuiet DEF Pcs, UnfiledPcs
<1> QED
  BY <1>1, <1>2, <1>3, <1>p DEF Continue, Finalizing, FinalizePcs, FinalizeUsed, FinalizeQuota,
        FinalizeKnownHash, hash_and_put_final, FinalizeFind, FinalizeDrop,
        insert_deduped_file, insert_non_video_file, EnqueueJobs, FinalizeClean,
        mark_complete, RevertActive, PurgeRow, PurgeRefCheck, purge_storage_keys

\* Steps of the finalize.
LEMMA FileFinalize ==
  ASSUME TypeOK, SafeInv, FileInv, ~CanFail, NEW t \in Tasks, Continue(t), Finalizing(t)
  PROVE  FileInv'
<1>f. task[t].s \in Sessions /\ Idle.s \in Sessions
  BY TaskFields, IdleType DEF TaskType
<1>u. task[t].pc \in UnfiledPcs => row[task[t].s] = NoRow
  BY DEF FileInv, Unfiled
<1>1. CASE FinalizeUsed(t) \/ FinalizeQuota(t)
  <2>1. UNCHANGED <<sstat, row, blob>> /\ row[task[t].s] = NoRow
    BY <1>1, <1>u DEF FinalizeUsed, FinalizeQuota, UnfiledPcs
  <2>2. PICK pc \in {"reserved", "revert", "known", "put"} : Stepped(t, pc, task[t].s)
    BY <1>1, ContinueSteps
  <2> QED  BY <2>1, <2>2, <1>f, FileQuiet DEF Pcs
<1>2. CASE FinalizeKnownHash(t)
  <2>1. UNCHANGED <<sstat, row, blob>> /\ row[task[t].s] = NoRow
    BY <1>2, <1>u DEF FinalizeKnownHash, UnfiledPcs
  <2>2. ASSUME NEW k \in find_dedup_source(task[t].s),
               Become(t, [task[t] EXCEPT !.pc = "link", !.key = k])
        PROVE  FileInv'
    <3>1. k \in Sessions /\ row[k] = k
      BY SourceOwned
    <3>2. Stepped(t, "link", task[t].s) /\ task'[t].key = k
      BY <2>2, <3>1, KeyStep DEF Pcs
    <3> QED  BY <2>1, <3>1, <3>2, <1>f, FileQuiet DEF Pcs
  <2>3. ASSUME NEW pc \in {"revert", "put"}, Goto(t, pc)  PROVE FileInv'
    BY <2>1, <2>3, <1>f, GotoStep, FileQuiet DEF Pcs
  <2> QED  BY <1>2, <2>2, <2>3 DEF FinalizeKnownHash
<1>3. CASE hash_and_put_final(t)
  <2>1. UNCHANGED <<sstat, row>> /\ row[task[t].s] = NoRow /\ \A k \in blob : k \in blob'
    BY <1>3, <1>u DEF hash_and_put_final, UnfiledPcs
  <2>2. CASE Goto(t, "find") /\ task[t].s \in blob'
    BY <2>1, <2>2, <1>f, GotoStep, FileQuiet DEF Pcs
  <2>3. CASE Goto(t, "revert")
    BY <2>1, <2>3, <1>f, GotoStep, FileQuiet DEF Pcs
  <2> QED  BY <1>3, <2>2, <2>3 DEF hash_and_put_final
<1>4. CASE FinalizeFind(t)
  <2>1. UNCHANGED <<sstat, row, blob>> /\ row[task[t].s] = NoRow /\ task[t].s \in blob
    BY <1>4, <1>u DEF FinalizeFind, UnfiledPcs, FileInv, SourcesKept
  <2>2. ASSUME NEW k \in find_dedup_source(task[t].s),
               Become(t, [task[t] EXCEPT !.pc = "drop", !.key = k])
        PROVE  FileInv'
    <3>1. k \in Sessions /\ row[k] = k
      BY SourceOwned
    <3>2. Stepped(t, "drop", task[t].s) /\ task'[t].key = k
      BY <2>2, <3>1, KeyStep DEF Pcs
    <3> QED  BY <2>1, <3>1, <3>2, <1>f, FileQuiet DEF Pcs
  <2>3. CASE Goto(t, "insertfile")
    BY <2>1, <2>3, <1>f, GotoStep, FileQuiet DEF Pcs
  <2> QED  BY <1>4, <2>2, <2>3 DEF FinalizeFind
<1>5. CASE FinalizeDrop(t)
  <2>1. /\ UNCHANGED <<sstat, row>> /\ blob' = blob \ {task[t].s} /\ row[task[t].s] = NoRow
        /\ row[task[t].key] = task[t].key
    BY <1>5, <1>u DEF FinalizeDrop, UnfiledPcs, FileInv, SourcesKept
  <2>2. Stepped(t, "link", task[t].s) /\ task'[t].key = task[t].key
    BY <1>5, GotoStep, GotoKeeps DEF FinalizeDrop, Pcs
  <2> QED  BY <2>1, <2>2, <1>f, FileQuiet DEF Pcs
<1>6. CASE insert_deduped_file(t) \/ insert_non_video_file(t)
  BY <1>6, FileInserted
<1>7. CASE EnqueueJobs(t) \/ FinalizeClean(t)
  <2>1. UNCHANGED <<sstat, row, blob>>
    BY <1>7 DEF EnqueueJobs, FinalizeClean
  <2>2. PICK pc \in {"place", "complete"} : Stepped(t, pc, task[t].s)
    BY <1>7, GotoStep DEF EnqueueJobs, FinalizeClean, Pcs
  <2> QED  BY <2>1, <2>2, <1>f, FileQuiet DEF Pcs, UnfiledPcs
<1>8. CASE mark_complete(t) \/ RevertActive(t)
  <2>1. UNCHANGED <<row, blob>> /\ Stepped(t, "idle", Idle.s)
    BY <1>8, ContinueSteps DEF mark_complete, RevertActive
  <2>2. \A x \in Sessions : sstat'[x] \in {"absent", "active"} =>
                              sstat'[x] = sstat[x] \/ row[x] = NoRow
    BY <1>8, <1>f, <1>u DEF mark_complete, RevertActive, UnfiledPcs, TypeOK
  <2> QED  BY <2>1, <2>2, <1>f, FileQuiet DEF Pcs, UnfiledPcs
<1> QED
  BY <1>1, <1>2, <1>3, <1>4, <1>5, <1>6, <1>7, <1>8
     DEF Continue, Finalizing, FinalizePcs, CreateQuota, insert_session, SignQuota,
         set_part_signed_token, consume_part_signed_token, StagePart, RecordSelect,
         RecordUpgrade, RecordInsert, CompleteList, mark_completing,
         cleanup_staging_prefix, PurgeRow, PurgeRefCheck, purge_storage_keys

LEMMA FileStep ==
  ASSUME TypeOK, SafeInv, FileInv, ~CanFail, ~CanPurge, [Next]_vars
  PROVE  FileInv'
<1>f. Idle.s \in Sessions
  BY IdleType DEF TaskType
<1>1. ASSUME NEW t \in Tasks, Continue(t)  PROVE FileInv'
  BY <1>1, FileOther, FileFinalize
<1>2. ASSUME NEW t \in Tasks, Vanish(t)  PROVE FileInv'
  <2>1. Stepped(t, "idle", Idle.s) /\ UNCHANGED <<sstat, row, blob>>
    BY <1>2, EndStep DEF Vanish
  <2> QED  BY <2>1, <1>f, FileQuiet DEF Pcs, UnfiledPcs
<1>3. ASSUME NEW t \in Tasks, NEW s \in Sessions, Begin(t, s)  PROVE FileInv'
  <2>1. PICK pc \in {"create", "list", "cleanup"} : Stepped(t, pc, s)
    BY <1>3, BeginSteps DEF Begin, PurgeBegin
  <2>2. UNCHANGED <<row, blob>>
    BY <1>3 DEF Begin, CreateBegin, CompleteBegin, mark_aborted, AbortRows, PurgeBegin
  <2>3. \A x \in Sessions : sstat'[x] \in {"absent", "active"} => sstat'[x] = sstat[x]
    BY <1>3 DEF Begin, CreateBegin, CompleteBegin, mark_aborted, AbortRows, PurgeBegin
  <2> QED  BY <2>1, <2>2, <2>3, FileQuiet DEF Pcs, UnfiledPcs
<1>4. ASSUME NEW t \in Tasks, NEW s \in Sessions, NEW p \in Parts, BeginPart(t, s, p)
      PROVE  FileInv'
  <2>1. PICK pc \in {"sign", "consume", "stage"} : Stepped(t, pc, s)
    BY <1>4, BeginSteps DEF BeginPart
  <2>2. UNCHANGED <<sstat, row, blob>>
    BY <1>4 DEF BeginPart, SignBegin, ConfirmBegin, UploadPartBegin
  <2> QED  BY <2>1, <2>2, FileQuiet DEF Pcs, UnfiledPcs
<1>5. ASSUME UNCHANGED <<row, blob, task>>,
             \A x \in Sessions : sstat'[x] \in {"absent", "active"} => sstat'[x] = sstat[x]
      PROVE  FileInv'
  <2>1. Unfiled' /\ OwnersKept'
    BY <1>5 DEF FileInv, Unfiled, OwnersKept
  <2>2. SourcesKept' /\ NoPurges'
    BY <1>5 DEF FileInv, SourcesKept, NoPurges
  <2> QED  BY <2>1, <2>2 DEF FileInv
<1>6. CASE expire_stale_upload_sessions
  BY <1>5, <1>6 DEF expire_stale_upload_sessions, AbortRows
<1>7. CASE \/ SweepClean \/ SweepVanish \/ UNCHANGED vars
           \/ \E s \in Sessions, p \in Parts : DirectPut(s, p)
           \/ \E s \in Sessions : PassDeadline(s)
  BY <1>5, <1>7 DEF SweepClean, CleanStaging, SweepVanish, DirectPut, PassDeadline, vars
<1> QED  BY <1>1, <1>2, <1>3, <1>4, <1>6, <1>7 DEF Next, Handler

\* As long as no object-store call or enqueue_job fails and no file is purged,
\* concurrent uploads of the same bytes and their dedup, aborts, sweeps and
\* dropped handlers never leave a files row without its object.
THEOREM FilesKeepObjects ==
  ASSUME ~CanFail, ~CanPurge
  PROVE  Spec => []FileHasBlob
<1>1. Init => FileInv
  BY DEF Init, FileInv, Unfiled, UnfiledPcs, OwnersKept, SourcesKept, NoPurges, Idle
<1>2. TypeOK /\ SafeInv /\ FileInv /\ [Next]_vars => FileInv'
  BY FileStep
<1>3. FileInv => FileHasBlob
  BY DEF FileInv, OwnersKept, FileHasBlob
<1> QED  BY <1>1, <1>2, <1>3, TypeCorrect, SafeCorrect, PTL DEF Spec

-----------------------------------------------------------------------------
(* Parts, without signed URLs: upload_part is the only recorder            *)

\* No URL is signed, so no size-0 row is ever there to upgrade.
NoTokens ==
    /\ minted = 0
    /\ \A s \in Sessions, p \in Parts : token[s][p] = 0 /\ part[s][p] # "placeholder"
    /\ \A t \in Tasks : task[t].pc \notin {"sign", "token", "consume", "upgrade"}

\* Sessions all of whose parts are recorded.
Whole == {s \in Sessions : Recorded(s) = Parts}

\* A finalize that will assemble, a source it will link and the file it has
\* registered have all their parts recorded.
PartsKept ==
    /\ \A t \in Tasks : task[t].pc \in {"mark", "used", "reserved", "known"} /\ ~task[t].inst
          => task[t].s \in Whole
    /\ \A t \in Tasks : task[t].pc \in {"put", "find", "insertfile"} => task[t].s \in Whole
    /\ \A t \in Tasks : task[t].pc \in {"drop", "link"} => task[t].key \in Whole
    /\ \A f \in Sessions : row[f] # NoRow => row[f] \in Whole

ReceivedInv == NoTokens /\ BytesMatchParts /\ PartsKept

\* What record_part does when nothing was signed: a part that had no row is
\* recorded and counted, and a recorded one is left alone.
LEMMA NoTokenParts ==
  ASSUME TypeOK, ReceivedInv, [Next]_vars
  PROVE  /\ UNCHANGED <<token, minted>>
         /\ BytesMatchParts'
         /\ \A s \in Sessions : Recorded(s) \subseteq Recorded(s)'
         /\ \A s \in Sessions, p \in Parts : part'[s][p] # "placeholder"
<1>t. bytes \in [Sessions -> Nat]
  BY DEF TypeOK
<1>1. CASE UNCHANGED <<part, token, minted, bytes>>
  BY <1>1 DEF BytesMatchParts, Recorded, ReceivedInv, NoTokens
<1>2. ASSUME NEW t \in Tasks, RecordInsert(t), SetRecorded(t),
             part[task[t].s][task[t].p] = "none"
      PROVE  /\ UNCHANGED <<token, minted>>
             /\ BytesMatchParts'
             /\ \A s \in Sessions : Recorded(s) \subseteq Recorded(s)'
             /\ \A s \in Sessions, p \in Parts : part'[s][p] # "placeholder"
  <2>f. task[t].s \in Sessions /\ task[t].p \in Parts
    BY TaskFields
  <2>1. UNCHANGED <<token, minted>>
    BY <1>2 DEF RecordInsert
  <2>2. \A s \in Sessions, p \in Parts :
           part'[s][p] = IF s = task[t].s /\ p = task[t].p THEN "recorded" ELSE part[s][p]
    BY <1>2, <2>f DEF SetRecorded, TypeOK
  <2>3. \A s \in Sessions, p \in Parts : part'[s][p] # "placeholder"
    BY <2>2 DEF ReceivedInv, NoTokens
  <2>4. \A s \in Sessions : Recorded(s) \subseteq Recorded(s)'
    BY <2>2 DEF Recorded
  <2>5. BytesMatchParts'
    <3> SUFFICES ASSUME NEW s \in Sessions  PROVE bytes'[s] = Cardinality(Recorded(s)')
      BY DEF BytesMatchParts, Recorded
    <3>1. CASE s # task[t].s
      BY <1>2, <3>1, RecordsOne DEF ReceivedInv, BytesMatchParts
    <3>2. CASE s = task[t].s
      <4> DEFINE R == Recorded(s)
                 p == task[t].p
      <4>1. Recorded(s)' = R \cup {p} /\ bytes'[s] = bytes[s] + 1
        BY <1>2, <3>2, RecordsOne
      <4>2. IsFiniteSet(R) /\ Cardinality(R) \in Nat
        BY RecordedFinite
      <4>3. bytes[s] = Cardinality(R) /\ p \notin R
        BY <1>2, <3>2 DEF ReceivedInv, BytesMatchParts, Recorded
      <4> HIDE DEF R
      <4>4. Cardinality(R \cup {p}) = IF p \in R THEN Cardinality(R) ELSE Cardinality(R) + 1
        BY <4>2, FS_AddElement
      <4> QED  BY <4>1, <4>2, <4>3, <4>4
    <3> QED  BY <3>1, <3>2
  <2> QED  BY <2>1, <2>3, <2>4, <2>5
<1>3. ASSUME NEW t \in Tasks, PartStep(t)
      PROVE  \/ RecordInsert(t) /\ SetRecorded(t) /\ part[task[t].s][task[t].p] = "none"
             \/ UNCHANGED <<part, token, minted, bytes>>
  BY <1>3 DEF PartStep, set_part_signed_token, consume_part_signed_token, RecordUpgrade,
        RecordInsert, ReceivedInv, NoTokens
<1> QED  BY <1>1, <1>2, <1>3, PartChanges

\* A step of t that inserts at most a row whose parts are recorded.
LEMMA ReceivedQuiet ==
  ASSUME TypeOK, ReceivedInv, [Next]_vars, NEW t \in Tasks,
         \A u \in Tasks \ {t} : task'[u] = task[u],
         task'[t].pc \notin {"sign", "token", "consume", "upgrade"},
         task'[t].pc \in {"mark", "used", "reserved", "known"} /\ ~task'[t].inst
            => task'[t].s \in Whole,
         task'[t].pc \in {"put", "find", "insertfile"} => task'[t].s \in Whole,
         task'[t].pc \in {"drop", "link"} => task'[t].key \in Whole,
         \A f \in Sessions : row'[f] = row[f] \/ row'[f] = NoRow \/ row'[f] \in Whole
  PROVE  ReceivedInv'
<1>1. /\ UNCHANGED <<token, minted>> /\ BytesMatchParts'
      /\ \A s \in Sessions : Recorded(s) \subseteq Recorded(s)'
      /\ \A s \in Sessions, p \in Parts : part'[s][p] # "placeholder"
  BY NoTokenParts
<1>2. \A s \in Whole : s \in Whole'
  <2> SUFFICES ASSUME NEW s \in Sessions, Recorded(s) = Parts  PROVE Recorded(s)' = Parts
    BY DEF Whole
  <2>1. Recorded(s)' \subseteq Parts
    BY DEF Recorded
  <2> QED  BY <1>1, <2>1
<1>3. NoTokens'
  BY <1>1 DEF ReceivedInv, NoTokens
<1>4. PartsKept'
  BY <1>2 DEF ReceivedInv, PartsKept
<1> QED  BY <1>1, <1>3, <1>4 DEF ReceivedInv

\* The steps of complete_session that choose or keep what is registered.
LEMMA ReceivedFinalize ==
  ASSUME TypeOK, ReceivedInv, [Next]_vars, NEW t \in Tasks,
         \/ CompleteList(t) \/ mark_completing(t) \/ FinalizeUsed(t) \/ FinalizeQuota(t)
         \/ FinalizeKnownHash(t) \/ hash_and_put_final(t) \/ FinalizeFind(t)
         \/ FinalizeDrop(t) \/ insert_deduped_file(t) \/ insert_non_video_file(t)
  PROVE  ReceivedInv'
<1>f. /\ task[t] \in TaskType /\ task[t].s \in Sessions /\ task[t].key \in Sessions
      /\ Idle.pc = "idle"
  BY TaskFields DEF Idle
<1>b. \A r : Become(t, r) => task'[t] = r /\ \A u \in Tasks \ {t} : task'[u] = task[u]
  BY DEF Become, TypeOK
<1>e. ASSUME End(t), UNCHANGED row  PROVE ReceivedInv'
  BY <1>e, <1>f, <1>b, ReceivedQuiet DEF End
<1>g. ASSUME NEW pc \in Pcs, Goto(t, pc)
      PROVE  /\ task'[t].pc = pc /\ task'[t].s = task[t].s /\ task'[t].key = task[t].key
             /\ task'[t].inst = task[t].inst /\ \A u \in Tasks \ {t} : task'[u] = task[u]
  BY <1>g, GotoStep, GotoKeeps DEF Stepped
<1>s. \A k \in find_dedup_source(task[t].s) : k \in Whole /\ k \in Sessions
  BY DEF find_dedup_source, ReceivedInv, PartsKept, Whole
<1>1. CASE CompleteList(t)
  <2> DEFINE r == [task[t] EXCEPT !.pc = "mark", !.inst = InstantSource(task[t].s)]
  <2>1. r.pc = "mark" /\ r.s = task[t].s /\ r.inst = InstantSource(task[t].s)
    BY <1>f DEF TaskType
  <2>2. UNCHANGED row /\ ((Become(t, r) /\ (InstantSource(task[t].s) \/ PartsComplete(t))) \/ End(t))
    BY <1>1 DEF CompleteList
  <2>3. PartsComplete(t) => task[t].s \in Whole
    BY <1>f DEF PartsComplete, Whole, Recorded, ReceivedInv, NoTokens, TypeOK
  <2> HIDE DEF r
  <2>4. CASE Become(t, r) /\ (InstantSource(task[t].s) \/ PartsComplete(t))
    BY <2>1, <2>2, <2>3, <2>4, <1>b, ReceivedQuiet
  <2> QED  BY <2>2, <2>4, <1>e
<1>2. CASE mark_completing(t)
  <2>1. CASE Goto(t, "used")
    <3>1. UNCHANGED row /\ (~task[t].inst => task[t].s \in Whole)
      BY <1>2 DEF mark_completing, ReceivedInv, PartsKept
    <3> QED  BY <2>1, <3>1, <1>g, ReceivedQuiet DEF Pcs
  <2> QED  BY <1>2, <2>1, <1>e DEF mark_completing
<1>3. CASE FinalizeUsed(t)
  <2> DEFINE r == [task[t] EXCEPT !.pc = "reserved", !.val = load_user_used_bytes]
  <2>1. r.pc = "reserved" /\ r.s = task[t].s /\ r.inst = task[t].inst
    BY <1>f DEF TaskType
  <2>2. UNCHANGED row /\ Become(t, r) /\ (~task[t].inst => task[t].s \in Whole)
    BY <1>3 DEF FinalizeUsed, ReceivedInv, PartsKept
  <2> HIDE DEF r
  <2> QED  BY <2>1, <2>2, <1>b, ReceivedQuiet
<1>4. CASE FinalizeQuota(t)
  <2>1. UNCHANGED row /\ (~task[t].inst => task[t].s \in Whole)
    BY <1>4 DEF FinalizeQuota, ReceivedInv, PartsKept
  <2> DEFINE ok == Fits(task[t].val, load_user_reserved_bytes)
             pc == IF ~ok THEN "revert"
                   ELSE IF task[t].inst \/ task[t].s \in Hashed THEN "known"
                   ELSE "put"
  <2>2. Goto(t, pc)
    BY <1>4 DEF FinalizeQuota
  <2>3. pc \in {"revert", "known"} \/ (pc = "put" /\ ~task[t].inst)
    OBVIOUS
  <2> HIDE DEF pc
  <2> QED  BY <2>1, <2>2, <2>3, <1>g, ReceivedQuiet DEF Pcs
<1>5. CASE FinalizeKnownHash(t)
  <2>1. UNCHANGED row /\ (~task[t].inst => task[t].s \in Whole)
    BY <1>5 DEF FinalizeKnownHash, ReceivedInv, PartsKept
  <2>2. ASSUME NEW k \in find_dedup_source(task[t].s),
               Become(t, [task[t] EXCEPT !.pc = "link", !.key = k])
        PROVE  ReceivedInv'
    <3>1. Stepped(t, "link", task[t].s) /\ task'[t].key = k
      BY <2>2, <1>s, KeyStep DEF Pcs
    <3> QED  BY <2>1, <3>1, <1>s, ReceivedQuiet DEF Stepped
  <2>3. CASE Goto(t, "revert")
    BY <2>1, <2>3, <1>g, ReceivedQuiet DEF Pcs
  <2>4. CASE Goto(t, "put") /\ ~task[t].inst
    BY <2>1, <2>4, <1>g, ReceivedQuiet DEF Pcs
  <2> QED  BY <1>5, <2>2, <2>3, <2>4 DEF FinalizeKnownHash
<1>6. CASE hash_and_put_final(t)
  <2>1. UNCHANGED row /\ task[t].s \in Whole /\ (Goto(t, "find") \/ Goto(t, "revert"))
    BY <1>6 DEF hash_and_put_final, ReceivedInv, PartsKept
  <2> QED  BY <2>1, <1>g, ReceivedQuiet DEF Pcs
<1>7. CASE FinalizeFind(t)
  <2>1. UNCHANGED row /\ task[t].s \in Whole
    BY <1>7 DEF FinalizeFind, ReceivedInv, PartsKept
  <2>2. ASSUME NEW k \in find_dedup_source(task[t].s),
               Become(t, [task[t] EXCEPT !.pc = "drop", !.key = k])
        PROVE  ReceivedInv'
    <3>1. Stepped(t, "drop", task[t].s) /\ task'[t].key = k
      BY <2>2, <1>s, KeyStep DEF Pcs
    <3> QED  BY <2>1, <3>1, <1>s, ReceivedQuiet DEF Stepped
  <2>3. CASE Goto(t, "insertfile")
    BY <2>1, <2>3, <1>g, ReceivedQuiet DEF Pcs
  <2> QED  BY <1>7, <2>2, <2>3 DEF FinalizeFind
<1>8. CASE FinalizeDrop(t)
  <2>1. UNCHANGED row /\ task[t].key \in Whole /\ Goto(t, "link")
    BY <1>8 DEF FinalizeDrop, ReceivedInv, PartsKept
  <2> QED  BY <2>1, <1>g, ReceivedQuiet DEF Pcs
<1>9. CASE insert_deduped_file(t) \/ insert_non_video_file(t)
  <2>1. PICK k \in Whole, next \in {"clean", "enqueue", "revert"} : InsertRow(t, k, next)
    BY <1>9 DEF insert_deduped_file, insert_non_video_file, ReceivedInv, PartsKept
  <2>2. \A f \in Sessions : row'[f] = row[f] \/ row'[f] \in Whole
    BY <2>1, <1>f DEF InsertRow, TypeOK
  <2>3. Goto(t, next) \/ Goto(t, "revert")
    BY <2>1 DEF InsertRow
  <2> QED  BY <2>2, <2>3, <1>g, ReceivedQuiet DEF Pcs
<1> QED  BY <1>1, <1>2, <1>3, <1>4, <1>5, <1>6, <1>7, <1>8, <1>9

LEMMA ReceivedStep ==
  ASSUME TypeOK, ReceivedInv, MaxMints = 0, [Next]_vars
  PROVE  ReceivedInv'
<1> DEFINE Plain == {"idle", "create", "insert", "stage", "record", "newpart", "list",
                     "enqueue", "clean", "place", "complete", "revert", "cleanup", "delrow",
                     "refcheck", "purge"}
<1>p. ASSUME NEW t \in Tasks, NEW pc \in Plain, NEW s, Stepped(t, pc, s),
             \A f \in Sessions : row'[f] = row[f] \/ row'[f] = NoRow
      PROVE  ReceivedInv'
  BY <1>p, ReceivedQuiet DEF Stepped
<1>1. ASSUME NEW t \in Tasks, Continue(t),
             ~(\/ CompleteList(t) \/ mark_completing(t) \/ FinalizeUsed(t) \/ FinalizeQuota(t)
               \/ FinalizeKnownHash(t) \/ hash_and_put_final(t) \/ FinalizeFind(t)
               \/ FinalizeDrop(t) \/ insert_deduped_file(t) \/ insert_non_video_file(t))
      PROVE  ReceivedInv'
  <2>n. task[t].pc \notin {"sign", "token", "consume", "upgrade"}
    BY DEF ReceivedInv, NoTokens
  <2>1. CASE PurgeRow(t)
    <3>1. \A f \in Sessions : row'[f] = row[f] \/ row'[f] = NoRow
      BY <2>1, TaskFields DEF PurgeRow, TypeOK
    <3>2. Stepped(t, "refcheck", task[t].s)
      BY <2>1, ContinueSteps
    <3> QED  BY <3>1, <3>2, <1>p
  <2>2. CASE RecordSelect(t)
    <3>1. part[task[t].s][task[t].p] # "placeholder" /\ UNCHANGED row
      BY <2>2, TaskFields DEF RecordSelect, ReceivedInv, NoTokens
    <3>2. \E s : Stepped(t, "idle", s) \/ Stepped(t, "newpart", s)
      BY <2>2, <3>1, GotoStep, EndStep DEF RecordSelect, Pcs
    <3> QED  BY <3>1, <3>2, <1>p
  <2>3. CASE \/ CreateQuota(t) \/ insert_session(t) \/ StagePart(t) \/ RecordInsert(t)
             \/ EnqueueJobs(t) \/ FinalizeClean(t) \/ mark_complete(t) \/ RevertActive(t)
             \/ cleanup_staging_prefix(t) \/ PurgeRefCheck(t) \/ purge_storage_keys(t)
    <3>1. UNCHANGED row
      BY <2>3 DEF CreateQuota, insert_session, StagePart, RecordInsert, EnqueueJobs,
            FinalizeClean, mark_complete, RevertActive, cleanup_staging_prefix, CleanStaging,
            PurgeRefCheck, purge_storage_keys
    <3>2. task[t].s \in Sessions /\ Idle.s \in Sessions
      BY TaskFields, IdleType DEF TaskType
    <3>3. PICK pc \in Plain, s \in Sessions : Stepped(t, pc, s)
      BY <2>3, <3>2, ContinueSteps
    <3> QED  BY <3>1, <3>3, <1>p
  <2> QED
    BY <1>1, <2>1, <2>2, <2>3, <2>n DEF Continue, SignQuota, set_part_signed_token,
          consume_part_signed_token, RecordUpgrade
<1>2. ASSUME NEW t \in Tasks, Vanish(t)  PROVE ReceivedInv'
  <2>1. Stepped(t, "idle", Idle.s) /\ UNCHANGED row
    BY <1>2, EndStep DEF Vanish
  <2> QED  BY <2>1, <1>p
<1>3. ASSUME NEW t \in Tasks, NEW s \in Sessions, Begin(t, s)  PROVE ReceivedInv'
  <2>1. PICK pc \in Plain : Stepped(t, pc, s)
    BY <1>3, BeginSteps DEF Begin
  <2>2. UNCHANGED row
    BY <1>3 DEF Begin, CreateBegin, CompleteBegin, mark_aborted, AbortRows, PurgeBegin
  <2> QED  BY <2>1, <2>2, <1>p
<1>4. ASSUME NEW t \in Tasks, NEW s \in Sessions, NEW p \in Parts, BeginPart(t, s, p)
      PROVE  ReceivedInv'
  <2>1. UploadPartBegin(t, s, p)
    BY <1>4 DEF BeginPart, SignBegin, ConfirmBegin, ReceivedInv, NoTokens
  <2>2. Stepped(t, "stage", s) /\ UNCHANGED row
    BY <2>1, BeginSteps DEF UploadPartBegin
  <2> QED  BY <2>2, <1>p
<1>5. CASE UNCHANGED <<row, task, part, bytes, token, minted>>
  BY <1>5 DEF ReceivedInv, NoTokens, BytesMatchParts, Recorded, PartsKept, Whole
<1> QED
  BY <1>1, <1>2, <1>3, <1>4, <1>5, ReceivedFinalize
     DEF Next, Handler, vars, DirectPut, PassDeadline, expire_stale_upload_sessions,
         AbortRows, SweepClean, CleanStaging, SweepVanish

\* The inductive invariant of sessions without signed URLs.
LEMMA ReceivedCorrect ==
  ASSUME MaxMints = 0
  PROVE  Spec => []ReceivedInv
<1>1. Init => ReceivedInv
  <2> SUFFICES ASSUME Init  PROVE ReceivedInv
    OBVIOUS
  <2>1. \A s \in Sessions : Recorded(s) = {} /\ bytes[s] = 0
    BY DEF Init, Recorded
  <2>2. BytesMatchParts
    BY <2>1, FS_EmptySet DEF BytesMatchParts
  <2>3. NoTokens /\ PartsKept
    BY DEF Init, NoTokens, PartsKept, Idle
  <2> QED  BY <2>2, <2>3 DEF ReceivedInv
<1>2. TypeOK /\ ReceivedInv /\ [Next]_vars => ReceivedInv'
  BY ReceivedStep
<1> QED  BY <1>1, <1>2, TypeCorrect, PTL DEF Spec

\* Without signed part URLs bytes_received is exactly the size of the recorded
\* parts, however proxied uploads of the same part race.
THEOREM BytesMatch ==
  ASSUME MaxMints = 0
  PROVE  Spec => []BytesMatchParts
<1>1. ReceivedInv => BytesMatchParts
  BY DEF ReceivedInv
<1> QED  BY <1>1, ReceivedCorrect, PTL

\* Without signed part URLs a file that owns its object was assembled from
\* parts that are all recorded, through failures, retries, dedup and purges.
THEOREM FileReceived ==
  ASSUME MaxMints = 0
  PROVE  Spec => []FileBytesReceived
<1>1. ReceivedInv => FileBytesReceived
  BY UploadSessionAssumption DEF ReceivedInv, PartsKept, Whole, FileBytesReceived
<1> QED  BY <1>1, ReceivedCorrect, PTL
=============================================================================
