--------------------------- MODULE UploadPipeline ---------------------------
(***************************************************************************)
(* The stage gates every post-upload step of the web client goes through   *)
(* (src/frontend/src/lib/upload-pipeline.ts).  A gate is one stage's entry *)
(* of the module's maps: stageSlots, stageWaitQueues and the resolvers of  *)
(* stageWaitResolvers for that stage.                                      *)
(*                                                                         *)
(* A coroutine that finds the stage full leaves its resolver behind and    *)
(* awaits it.  Calling the resolver only schedules the continuation, so a  *)
(* gate also keeps "woken": who was resolved and has not run yet.  "who"   *)
(* names the coroutine of the row that waits; the map has one resolver for *)
(* each row and stage, and a second wait overwrites the first one.  The    *)
(* waiter "display" only redraws the row's bar when it runs, so that       *)
(* nothing is scheduled for it here.                                       *)
(***************************************************************************)
EXTENDS Naturals, FiniteSets, Sequences

CONSTANTS
    Items,      \* ids of tray rows
    StageLimit, \* PIPELINE_STAGE_LIMIT
    Who         \* the coroutines that can wait on behalf of one row

ASSUME StageLimitAssumption == StageLimit \in Nat \ {0}
ASSUME WhoAssumption == Who \cap {"none", "display"} = {}

VARIABLE pipe

Stages == {"processing", "encrypting", "storing"}

Gate == [slots    : SUBSET Items,
         queue    : Seq(Items),
         resolver : [Items -> Who \cup {"none", "display"}],
         woken    : SUBSET (Items \X Who)]

MkGate(slots, queue, resolver, woken) ==
    [slots |-> slots, queue |-> queue, resolver |-> resolver, woken |-> woken]

EmptyGate == MkGate({}, <<>>, [i \in Items |-> "none"], {})

EmptyPipe == [s \in Stages |-> EmptyGate]

\* The rows in a wait queue.
Ids(q) == {q[j] : j \in DOMAIN q}

\* The queue's filter((id) => id !== i).  A queue has an id at most once
\* (includes guards the push; QueueExact below).
Without(q, i) ==
    IF i \notin Ids(q) THEN q
    ELSE LET j == CHOOSE j \in DOMAIN q : q[j] = i
         IN  [k \in 1..(Len(q) - 1) |-> IF k < j THEN q[k] ELSE q[k + 1]]

Room(g) == StageLimit - Cardinality(g.slots)

\* How many waiting rows the next drain lets in.
Admitted(g) == IF Len(g.queue) <= Room(g) THEN Len(g.queue) ELSE Room(g)

\* drainStageWaitQueue with resolveStageWaiter: the heads of the queue take
\* the free slots and the coroutine of each one's resolver is scheduled.
Drain(g) ==
    LET k   == Admitted(g)
        new == {g.queue[j] : j \in 1..k}
    IN  MkGate(g.slots \cup new,
               SubSeq(g.queue, k + 1, Len(g.queue)),
               [i \in Items |-> IF i \in new THEN "none" ELSE g.resolver[i]],
               g.woken \cup {w \in Items \X Who :
                               w[1] \in new /\ g.resolver[w[1]] = w[2]})

\* Mutant: the freed slot is not handed on.
ReleaseSlot_NoDrain(g, i) ==
    MkGate(g.slots \ {i}, Without(g.queue, i), g.resolver, g.woken)

\* releaseStageSlot: nothing happens, the queue is not even filtered, unless
\* the row holds a slot of this stage.
ReleaseSlot(g, i) ==
    IF i \notin g.slots THEN g
    ELSE Drain(MkGate(g.slots \ {i}, Without(g.queue, i), g.resolver, g.woken))

\* tryOccupyStage succeeds.
CanOccupy(g, i) == i \in g.slots \/ Cardinality(g.slots) < StageLimit

\* waitForStageSlot: the slot, or a resolver and a place in the queue.
WaitForSlot(g, i, who) ==
    IF CanOccupy(g, i)
    THEN MkGate(g.slots \cup {i}, g.queue, g.resolver, g.woken)
    ELSE Drain(MkGate(g.slots,
                      IF i \in Ids(g.queue) THEN g.queue ELSE Append(g.queue, i),
                      [g.resolver EXCEPT ![i] = who], g.woken))

\* acquirePipelineStage up to its await.
AcquireStage(p, i, s, who) ==
    [o \in Stages |-> IF o = s THEN WaitForSlot(p[o], i, who)
                               ELSE ReleaseSlot(p[o], i)]

\* One stage of releaseAllPipelineStages: the slot, the place in the queue
\* and the resolver go, then the queue is drained once more.
DropRow(g, i) ==
    LET r == ReleaseSlot(g, i)
    IN  Drain(MkGate(r.slots, Without(r.queue, i),
                     [r.resolver EXCEPT ![i] = "none"], r.woken))

ReleaseAll(p, i) == [s \in Stages |-> DropRow(p[s], i)]

\* A scheduled continuation runs.
Resume(p, i, s, who) == [p EXCEPT ![s].woken = @ \ {<<i, who>>}]

-----------------------------------------------------------------------------
(* The gates on their own: any row may enter any stage or leave them all.  *)

PipeInit == pipe = EmptyPipe

PipeAcquire(i, s, who) == pipe' = AcquireStage(pipe, i, s, who)
PipeLeave(i)           == pipe' = ReleaseAll(pipe, i)
PipeContinue(i, s, who) ==
    /\ <<i, who>> \in pipe[s].woken
    /\ pipe' = Resume(pipe, i, s, who)

PipeNext ==
    \/ \E i \in Items, s \in Stages, who \in Who :
         PipeAcquire(i, s, who) \/ PipeContinue(i, s, who)
    \/ \E i \in Items : PipeLeave(i)

PipeSpec == PipeInit /\ [][PipeNext]_pipe

-----------------------------------------------------------------------------
PipeTypeOK == pipe \in [Stages -> Gate]

\* A stage never holds more rows than PIPELINE_STAGE_LIMIT.
SlotsBounded(g) == IsFiniteSet(g.slots) /\ Cardinality(g.slots) <= StageLimit

\* Nobody waits while a slot is free: whoever frees one hands it on.
NoIdleSlot(g) == g.queue # <<>> => Cardinality(g.slots) = StageLimit

\* A row waits once, and never for a stage it is already in.
QueueExact(g) ==
    /\ \A j, k \in DOMAIN g.queue : g.queue[j] = g.queue[k] => j = k
    /\ Ids(g.queue) \cap g.slots = {}

\* A row has a resolver exactly while it waits, so that admitting it always
\* wakes a coroutine and no resolver is left for a row that does not wait.
ResolverExact(g) == \A i \in Items : g.resolver[i] # "none" <=> i \in Ids(g.queue)

GateInv(g) == SlotsBounded(g) /\ NoIdleSlot(g) /\ QueueExact(g) /\ ResolverExact(g)

\* Every stage gate is bounded, work-conserving, and consistent between its
\* slots, its queue and its resolvers, whatever order rows enter and leave in.
GatesSound == \A s \in Stages : GateInv(pipe[s])
=============================================================================
