------------------------ MODULE UploadManagerProofs ------------------------
(***************************************************************************)
(* What the upload tray promises for any rows, stage limit, number of byte *)
(* slots and retries.                                                      *)
(*                                                                         *)
(* A handler works on a record t of the tray's variables, so the invariant *)
(* is stated for such a record: Good(t, m) says that t is a state of the   *)
(* tray when the counters are m.  Every function a handler calls leads     *)
(* from good records to good records, or at least the handler as a whole   *)
(* does, and Commit stores the last one.                                   *)
(***************************************************************************)
EXTENDS UploadManager, SeqLoopsProofs, FiniteSetTheorems, TLAPS

-----------------------------------------------------------------------------
(* The stage gates (UploadPipeline) *)

\* A gate between two operations: everything but the hand-over of free slots.
Loose(g) == g \in Gate /\ SlotsBounded(g) /\ QueueExact(g) /\ ResolverExact(g)

\* The ids of a queue come from the items, and a prefix is part of it.
LEMMA AdmittedRange ==
    ASSUME NEW g \in Gate, SlotsBounded(g)
    PROVE  /\ Admitted(g) \in 0..Len(g.queue)
           /\ Admitted(g) <= Room(g)
           /\ Room(g) \in Nat
           /\ Len(g.queue) \in Nat
           /\ Cardinality(g.slots) \in Nat
  <1>1. Len(g.queue) \in Nat
    BY DEF Gate
  <1>2. Cardinality(g.slots) \in Nat
    BY FS_CardinalityType DEF SlotsBounded
  <1>3. Room(g) \in Nat
    BY <1>2, StageLimitAssumption DEF SlotsBounded, Room
  <1> QED
    BY <1>1, <1>2, <1>3 DEF Admitted

\* The k heads of a queue without repetition are k rows.
LEMMA HeadsCounted ==
    ASSUME NEW q \in Seq(Items), NEW k \in 0..Len(q),
           \A a, b \in DOMAIN q : q[a] = q[b] => a = b
    PROVE  /\ IsFiniteSet({q[j] : j \in 1..k})
           /\ Cardinality({q[j] : j \in 1..k}) = k
  <1> DEFINE S == {q[j] : j \in 1..k}
             f == [j \in 1..k |-> q[j]]
  <1>1. k \in Nat /\ 1..k \subseteq DOMAIN q
    OBVIOUS
  <1>2. f \in Bijection(1..k, S)
    BY <1>1 DEF Bijection, Injection, Surjection, IsInjective
  <1>3. ExistsBijection(1..k, S)
    BY <1>2 DEF ExistsBijection
  <1>4. Cardinality(S) = k
    BY <1>1, <1>3, FS_CountingElements
  <1>5. IsFiniteSet(S)
    BY <1>1, <1>3, FS_NatBijection
  <1> QED
    BY <1>4, <1>5

\* Two positions the same distance behind k are the same position.
LEMMA SameShift ==
    ASSUME NEW k \in Int, NEW a \in Int, NEW b \in Int, k + a = k + b
    PROVE  a = b
  OBVIOUS

\* drainStageWaitQueue makes a loose gate sound.
LEMMA DrainSound ==
    ASSUME NEW g, Loose(g)
    PROVE  Drain(g) \in Gate /\ GateInv(Drain(g))
  <1> DEFINE k   == Admitted(g)
             new == {g.queue[j] : j \in 1..k}
             d   == Drain(g)
  <1> USE DEF Loose
  <1>1. /\ k \in 0..Len(g.queue) /\ k <= Room(g) /\ Room(g) \in Nat
        /\ Len(g.queue) \in Nat /\ Cardinality(g.slots) \in Nat
    BY AdmittedRange
  <1>2. /\ g.queue \in Seq(Items) /\ DOMAIN g.queue = 1..Len(g.queue)
        /\ \A a, b \in DOMAIN g.queue : g.queue[a] = g.queue[b] => a = b
        /\ Ids(g.queue) \cap g.slots = {}
    BY DEF Gate, QueueExact
  <1>3. IsFiniteSet(new) /\ Cardinality(new) = k
    BY <1>1, <1>2, HeadsCounted
  <1>4. new \subseteq Ids(g.queue) /\ new \subseteq Items
    BY <1>1, <1>2 DEF Ids
  <1>5. new \cap g.slots = {}
    BY <1>2, <1>4
  <1>6. /\ d.slots = g.slots \cup new
        /\ d.queue = SubSeq(g.queue, k + 1, Len(g.queue))
        /\ d.resolver = [i \in Items |-> IF i \in new THEN "none" ELSE g.resolver[i]]
    BY DEF Drain, MkGate
  <1>7. d \in Gate
    <2>1. d.slots \in SUBSET Items
      BY <1>4, <1>6 DEF Gate
    <2>2. d.queue \in Seq(Items)
      BY <1>1, <1>2, <1>6
    <2>3. d.resolver \in [Items -> Who \cup {"none", "display"}]
      BY <1>6 DEF Gate
    <2>4. d.woken \in SUBSET (Items \X Who)
      BY DEF Drain, MkGate, Gate
    <2> QED
      BY <2>1, <2>2, <2>3, <2>4 DEF Gate, Drain, MkGate
  <1>8. IsFiniteSet(d.slots) /\ Cardinality(d.slots) = Cardinality(g.slots) + k
    <2>1. IsFiniteSet(g.slots)
      BY DEF SlotsBounded
    <2>2. Cardinality(g.slots \cap new) = 0
      BY <1>5, FS_EmptySet
    <2> QED
      <3>1. /\ IsFiniteSet(g.slots \cup new)
            /\ Cardinality(g.slots \cup new)
                 = Cardinality(g.slots) + Cardinality(new) - Cardinality(g.slots \cap new)
        BY <1>3, <2>1, FS_Union
      <3> HIDE DEF k, new, d
      <3> QED
        BY <3>1, <1>1, <1>3, <1>6, <2>2
  <1>9. SlotsBounded(d)
    BY <1>1, <1>8, StageLimitAssumption DEF SlotsBounded, Room
  <1>10. /\ Len(d.queue) = Len(g.queue) - k
         /\ DOMAIN d.queue = 1..(Len(g.queue) - k)
         /\ \A j \in DOMAIN d.queue : d.queue[j] = g.queue[k + j]
    <2> DEFINE q == g.queue
    <2>1. q \in Seq(Items) /\ Len(q) \in Nat /\ k \in 0..Len(q)
      BY <1>1, <1>2
    <2>2. d.queue = SubSeq(q, k + 1, Len(q))
      BY <1>6
    <2> HIDE DEF k, q, d
    <2>3. /\ Len(SubSeq(q, k + 1, Len(q))) = Len(q) - k
          /\ DOMAIN SubSeq(q, k + 1, Len(q)) = 1..(Len(q) - k)
          /\ \A j \in 1..(Len(q) - k) : SubSeq(q, k + 1, Len(q))[j] = q[k + j]
      BY <2>1
    <2> QED
      BY <2>2, <2>3 DEF q
  <1>11. NoIdleSlot(d)
    <2> SUFFICES ASSUME d.queue # <<>>
                 PROVE  Cardinality(d.slots) = StageLimit
      BY DEF NoIdleSlot
    <2>1. Len(g.queue) - k # 0
      BY <1>10, <1>7 DEF Gate
    <2>2. k = Room(g)
      BY <2>1, <1>1 DEF Admitted
    <2> QED
      BY <2>2, <1>1, <1>8, StageLimitAssumption DEF Room
  <1>12. Ids(d.queue) = Ids(g.queue) \ new
    <2>1. ASSUME NEW x \in Ids(d.queue) PROVE x \in Ids(g.queue) \ new
      <3>1. PICK j \in DOMAIN d.queue : x = d.queue[j]
        BY <2>1 DEF Ids
      <3>2. x = g.queue[k + j] /\ k + j \in DOMAIN g.queue /\ k + j \notin 1..k
        BY <3>1, <1>1, <1>2, <1>10
      <3>3. x \notin new
        BY <3>2, <1>1, <1>2
      <3> QED
        BY <3>2, <3>3 DEF Ids
    <2>2. ASSUME NEW x \in Ids(g.queue) \ new PROVE x \in Ids(d.queue)
      <3>1. PICK j \in DOMAIN g.queue : x = g.queue[j]
        BY <2>2 DEF Ids
      <3>2. j \notin 1..k
        BY <2>2, <3>1
      <3>3. j - k \in DOMAIN d.queue /\ d.queue[j - k] = x
        BY <3>1, <3>2, <1>1, <1>2, <1>10
      <3> QED
        BY <3>3 DEF Ids
    <2> QED
      BY <2>1, <2>2
  <1>13. QueueExact(d)
    <2> HIDE DEF k, new, d
    <2>1. ASSUME NEW a \in DOMAIN d.queue, NEW b \in DOMAIN d.queue,
                 d.queue[a] = d.queue[b]
          PROVE  a = b
      <3>1. g.queue[k + a] = g.queue[k + b]
        BY <2>1, <1>10
      <3>2. /\ a \in Int /\ b \in Int /\ k \in Int
            /\ k + a \in DOMAIN g.queue /\ k + b \in DOMAIN g.queue
        BY <1>1, <1>2, <1>10
      <3>3. k + a = k + b
        BY <3>1, <3>2, <1>2
      <3> QED
        BY <3>2, <3>3, SameShift
    <2>2. Ids(d.queue) \cap d.slots = {}
      BY <1>2, <1>6, <1>12
    <2> QED
      BY <2>1, <2>2 DEF QueueExact
  <1>14. ResolverExact(d)
    BY <1>4, <1>6, <1>12 DEF ResolverExact
  <1> QED
    BY <1>7, <1>9, <1>11, <1>13, <1>14 DEF GateInv

\* The filter takes one id out of a queue without repetition and keeps the
\* others apart.
LEMMA WithoutExact ==
    ASSUME NEW q \in Seq(Items), NEW i \in Items,
           \A a, b \in DOMAIN q : q[a] = q[b] => a = b
    PROVE  /\ Without(q, i) \in Seq(Items)
           /\ Ids(Without(q, i)) = Ids(q) \ {i}
           /\ \A a, b \in DOMAIN Without(q, i) :
                Without(q, i)[a] = Without(q, i)[b] => a = b
  <1>1. CASE i \notin Ids(q)
    BY <1>1 DEF Without, Ids
  <1>2. CASE i \in Ids(q)
    <2> DEFINE j == CHOOSE x \in DOMAIN q : q[x] = i
               w == [k \in 1..(Len(q) - 1) |-> IF k < j THEN q[k] ELSE q[k + 1]]
    <2>1. Without(q, i) = w
      BY <1>2 DEF Without
    <2>2. j \in DOMAIN q /\ q[j] = i
      BY <1>2 DEF Ids
    <2>3. Len(q) \in Nat /\ DOMAIN q = 1..Len(q) /\ j \in 1..Len(q)
      BY <2>2
    <2> HIDE DEF j
    <2>4. w \in Seq(Items)
      <3>1. \A k \in 1..(Len(q) - 1) : w[k] \in Items
        BY <2>3
      <3>2. Len(q) - 1 \in Nat
        BY <2>3
      <3> QED
        BY <3>1, <3>2
    <2>5. DOMAIN w = 1..(Len(q) - 1)
      OBVIOUS
    <2>6. \A a, b \in DOMAIN w : w[a] = w[b] => a = b
      <3> SUFFICES ASSUME NEW a \in DOMAIN w, NEW b \in DOMAIN w, w[a] = w[b]
                   PROVE  a = b
        OBVIOUS
      <3> DEFINE s(x) == IF x < j THEN x ELSE x + 1
      <3>1. s(a) \in DOMAIN q /\ s(b) \in DOMAIN q /\ w[a] = q[s(a)] /\ w[b] = q[s(b)]
        BY <2>3
      <3>2. s(a) = s(b)
        BY <3>1
      <3> QED
        BY <3>2, <2>3
    <2>7. Ids(w) = Ids(q) \ {i}
      <3>1. ASSUME NEW x \in Ids(w) PROVE x \in Ids(q) \ {i}
        <4>1. PICK a \in DOMAIN w : x = w[a]
          BY <3>1 DEF Ids
        <4>2. \E b \in DOMAIN q : b # j /\ x = q[b]
          <5>1. CASE a < j
            <6>1. a \in DOMAIN q /\ a # j /\ x = q[a]
              BY <4>1, <5>1, <2>3
            <6> QED
              BY <6>1
          <5>2. CASE ~(a < j)
            <6>1. a + 1 \in DOMAIN q /\ a + 1 # j /\ x = q[a + 1]
              BY <4>1, <5>2, <2>3
            <6> QED
              BY <6>1
          <5> QED
            BY <5>1, <5>2
        <4> QED
          BY <4>2, <2>2 DEF Ids
      <3>2. ASSUME NEW x \in Ids(q) \ {i} PROVE x \in Ids(w)
        <4>1. PICK b \in DOMAIN q : x = q[b]
          BY <3>2 DEF Ids
        <4>2. b # j
          BY <4>1, <3>2, <2>2
        <4>3. CASE b < j
          <5>1. b \in DOMAIN w /\ w[b] = x
            BY <4>3, <4>1, <2>3
          <5> QED
            BY <5>1 DEF Ids
        <4>4. CASE b > j
          <5>1. b - 1 \in DOMAIN w /\ w[b - 1] = x
            BY <4>4, <4>1, <2>3
          <5> QED
            BY <5>1 DEF Ids
        <4> QED
          BY <4>2, <4>3, <4>4, <2>3
      <3> QED
        BY <3>1, <3>2
    <2> QED
      BY <2>1, <2>4, <2>6, <2>7
  <1> QED
    BY <1>1, <1>2

\* releaseStageSlot keeps a gate sound.
LEMMA ReleaseSlotSound ==
    ASSUME NEW g \in Gate, GateInv(g), NEW i \in Items
    PROVE  ReleaseSlot(g, i) \in Gate /\ GateInv(ReleaseSlot(g, i))
  <1>1. CASE i \notin g.slots
    BY <1>1 DEF ReleaseSlot
  <1>2. CASE i \in g.slots
    <2> DEFINE h == MkGate(g.slots \ {i}, Without(g.queue, i), g.resolver, g.woken)
    <2>1. ReleaseSlot(g, i) = Drain(h)
      BY <1>2 DEF ReleaseSlot
    <2>2. i \notin Ids(g.queue)
      BY <1>2 DEF GateInv, QueueExact
    <2>3. /\ h.slots = g.slots \ {i} /\ h.queue = g.queue
          /\ h.resolver = g.resolver /\ h.woken = g.woken
      BY <2>2 DEF MkGate, Without
    <2>4. h \in Gate
      BY <2>3 DEF Gate, MkGate
    <2>5. SlotsBounded(h)
      <3>1. IsFiniteSet(g.slots) /\ Cardinality(g.slots) <= StageLimit
        BY DEF GateInv, SlotsBounded
      <3>2. /\ IsFiniteSet(g.slots \ {i})
            /\ Cardinality(g.slots \ {i}) = Cardinality(g.slots) - 1
        BY <3>1, <1>2, FS_RemoveElement
      <3>3. Cardinality(g.slots) \in Nat
        BY <3>1, FS_CardinalityType
      <3> HIDE DEF h
      <3> QED
        BY <2>3, <3>1, <3>2, <3>3, StageLimitAssumption DEF SlotsBounded
    <2>6. QueueExact(h) /\ ResolverExact(h)
      BY <2>3 DEF GateInv, QueueExact, ResolverExact
    <2> QED
      BY <2>1, <2>4, <2>5, <2>6, DrainSound DEF Loose
  <1> QED
    BY <1>1, <1>2

\* waitForStageSlot keeps a gate sound.
LEMMA WaitForSlotSound ==
    ASSUME NEW g \in Gate, GateInv(g), NEW i \in Items,
           NEW who \in Who \cup {"display"}
    PROVE  WaitForSlot(g, i, who) \in Gate /\ GateInv(WaitForSlot(g, i, who))
  <1>1. CASE CanOccupy(g, i)
    <2> DEFINE h == MkGate(g.slots \cup {i}, g.queue, g.resolver, g.woken)
    <2>1. WaitForSlot(g, i, who) = h
      BY <1>1 DEF WaitForSlot
    <2>2. /\ h.slots = g.slots \cup {i} /\ h.queue = g.queue
          /\ h.resolver = g.resolver /\ h.woken = g.woken
      BY DEF MkGate
    <2>3. h \in Gate
      BY <2>2 DEF Gate, MkGate
    <2>4. CASE i \in g.slots
      BY <2>1, <2>2, <2>3, <2>4
         DEF GateInv, SlotsBounded, NoIdleSlot, QueueExact, ResolverExact
    <2>5. CASE i \notin g.slots
      <3>1. Cardinality(g.slots) < StageLimit /\ g.queue = <<>>
        BY <1>1, <2>5, FS_CardinalityType, StageLimitAssumption
           DEF CanOccupy, GateInv, NoIdleSlot, SlotsBounded
      <3>2. SlotsBounded(h)
        <4>1. IsFiniteSet(g.slots)
          BY DEF GateInv, SlotsBounded
        <4>2. /\ IsFiniteSet(g.slots \cup {i})
              /\ Cardinality(g.slots \cup {i}) = Cardinality(g.slots) + 1
          BY <4>1, <2>5, FS_AddElement
        <4>3. Cardinality(g.slots) \in Nat
          BY <4>1, FS_CardinalityType
        <4> HIDE DEF h
        <4> QED
          BY <2>2, <3>1, <4>2, <4>3, StageLimitAssumption DEF SlotsBounded
      <3>3. Ids(g.queue) = {}
        BY <3>1 DEF Ids
      <3>4. NoIdleSlot(h) /\ QueueExact(h) /\ ResolverExact(h)
        BY <2>2, <3>1, <3>3 DEF GateInv, NoIdleSlot, QueueExact, ResolverExact
      <3> QED
        BY <2>1, <2>3, <3>2, <3>4 DEF GateInv
    <2> QED
      BY <2>4, <2>5
  <1>2. CASE ~CanOccupy(g, i)
    <2> DEFINE q == IF i \in Ids(g.queue) THEN g.queue ELSE Append(g.queue, i)
               h == MkGate(g.slots, q, [g.resolver EXCEPT ![i] = who], g.woken)
    <2>1. WaitForSlot(g, i, who) = Drain(h)
      BY <1>2 DEF WaitForSlot
    <2>2. /\ h.slots = g.slots /\ h.queue = q
          /\ h.resolver = [g.resolver EXCEPT ![i] = who] /\ h.woken = g.woken
      BY DEF MkGate
    <2>3. q \in Seq(Items) /\ Ids(q) = Ids(g.queue) \cup {i}
      <3>1. CASE i \in Ids(g.queue)
        BY <3>1 DEF Gate
      <3>2. CASE i \notin Ids(g.queue)
        <4>1. q = Append(g.queue, i) /\ g.queue \in Seq(Items)
          BY <3>2 DEF Gate
        <4>2. /\ q \in Seq(Items) /\ DOMAIN q = 1..(Len(g.queue) + 1)
              /\ q[Len(g.queue) + 1] = i
              /\ \A j \in 1..Len(g.queue) : q[j] = g.queue[j]
              /\ DOMAIN g.queue = 1..Len(g.queue) /\ Len(g.queue) \in Nat
          BY <4>1
        <4> HIDE DEF q
        <4>3. ASSUME NEW x \in Ids(q) PROVE x \in Ids(g.queue) \cup {i}
          BY <4>2, <4>3 DEF Ids
        <4>4. ASSUME NEW x \in Ids(g.queue) \cup {i} PROVE x \in Ids(q)
          <5>1. CASE x = i
            BY <5>1, <4>2 DEF Ids
          <5>2. CASE x \in Ids(g.queue)
            <6>1. PICK j \in 1..Len(g.queue) : x = g.queue[j]
              BY <5>2, <4>2 DEF Ids
            <6> QED
              BY <6>1, <4>2 DEF Ids
          <5> QED
            BY <4>4, <5>1, <5>2
        <4> QED
          BY <4>2, <4>3, <4>4
      <3> QED
        BY <3>1, <3>2
    <2>4. i \notin g.slots
      BY <1>2 DEF CanOccupy
    <2>5. \A a, b \in DOMAIN q : q[a] = q[b] => a = b
      <3>1. CASE i \in Ids(g.queue)
        BY <3>1 DEF GateInv, QueueExact
      <3>2. CASE i \notin Ids(g.queue)
        <4>1. /\ DOMAIN q = 1..(Len(g.queue) + 1) /\ q[Len(g.queue) + 1] = i
              /\ \A j \in 1..Len(g.queue) : q[j] = g.queue[j]
              /\ DOMAIN g.queue = 1..Len(g.queue) /\ Len(g.queue) \in Nat
          BY <3>2 DEF Gate
        <4>2. \A j \in DOMAIN g.queue : g.queue[j] # i
          BY <3>2 DEF Ids
        <4> HIDE DEF q
        <4> QED
          BY <4>1, <4>2 DEF GateInv, QueueExact
      <3> QED
        BY <3>1, <3>2
    <2> HIDE DEF q
    <2>6. h \in Gate
      <3>1. h.resolver \in [Items -> Who \cup {"none", "display"}]
        BY <2>2 DEF Gate
      <3> QED
        BY <2>2, <2>3, <3>1 DEF Gate, MkGate
    <2>7. SlotsBounded(h)
      BY <2>2 DEF GateInv, SlotsBounded
    <2>8. QueueExact(h)
      BY <2>2, <2>3, <2>4, <2>5 DEF GateInv, QueueExact
    <2>9. ResolverExact(h)
      <3>1. who # "none"
        BY WhoAssumption
      <3>2. g.resolver \in [Items -> Who \cup {"none", "display"}]
        BY DEF Gate
      <3> QED
        BY <2>2, <2>3, <3>1, <3>2 DEF GateInv, ResolverExact
    <2> QED
      BY <2>1, <2>6, <2>7, <2>8, <2>9, DrainSound DEF Loose
  <1> QED
    BY <1>1, <1>2

\* One stage of releaseAllPipelineStages keeps a gate sound.
LEMMA DropRowSound ==
    ASSUME NEW g \in Gate, GateInv(g), NEW i \in Items
    PROVE  DropRow(g, i) \in Gate /\ GateInv(DropRow(g, i))
  <1> DEFINE r == ReleaseSlot(g, i)
             h == MkGate(r.slots, Without(r.queue, i),
                        [r.resolver EXCEPT ![i] = "none"], r.woken)
  <1>1. r \in Gate /\ GateInv(r)
    BY ReleaseSlotSound
  <1>2. DropRow(g, i) = Drain(h)
    BY DEF DropRow
  <1> HIDE DEF r
  <1>3. /\ h.slots = r.slots /\ h.queue = Without(r.queue, i)
        /\ h.resolver = [r.resolver EXCEPT ![i] = "none"] /\ h.woken = r.woken
    BY DEF MkGate
  <1>4. /\ Without(r.queue, i) \in Seq(Items)
        /\ Ids(Without(r.queue, i)) = Ids(r.queue) \ {i}
        /\ \A a, b \in DOMAIN Without(r.queue, i) :
             Without(r.queue, i)[a] = Without(r.queue, i)[b] => a = b
    BY <1>1, WithoutExact DEF Gate, GateInv, QueueExact
  <1>5. h \in Gate
    <2>1. h.resolver \in [Items -> Who \cup {"none", "display"}]
      BY <1>1, <1>3 DEF Gate
    <2> QED
      BY <1>1, <1>3, <1>4, <2>1 DEF Gate, MkGate
  <1>6. SlotsBounded(h)
    BY <1>1, <1>3 DEF GateInv, SlotsBounded
  <1>7. QueueExact(h)
    BY <1>1, <1>3, <1>4 DEF GateInv, QueueExact
  <1>8. ResolverExact(h)
    <2>1. r.resolver \in [Items -> Who \cup {"none", "display"}]
      BY <1>1 DEF Gate
    <2> QED
      BY <1>1, <1>3, <1>4, <2>1 DEF GateInv, ResolverExact
  <1> QED
    BY <1>2, <1>5, <1>6, <1>7, <1>8, DrainSound DEF Loose

\* acquirePipelineStage keeps every gate sound.
LEMMA AcquireStageSound ==
    ASSUME NEW p \in [Stages -> Gate], \A s \in Stages : GateInv(p[s]),
           NEW i \in Items, NEW s \in Stages, NEW who \in Who \cup {"display"}
    PROVE  /\ AcquireStage(p, i, s, who) \in [Stages -> Gate]
           /\ \A o \in Stages : GateInv(AcquireStage(p, i, s, who)[o])
  BY WaitForSlotSound, ReleaseSlotSound DEF AcquireStage

\* releaseAllPipelineStages keeps every gate sound.
LEMMA ReleaseAllSound ==
    ASSUME NEW p \in [Stages -> Gate], \A s \in Stages : GateInv(p[s]),
           NEW i \in Items
    PROVE  /\ ReleaseAll(p, i) \in [Stages -> Gate]
           /\ \A o \in Stages : GateInv(ReleaseAll(p, i)[o])
  BY DropRowSound DEF ReleaseAll

\* The gates of a page that was just loaded are sound.
LEMMA EmptyPipeSound ==
    EmptyPipe \in [Stages -> Gate] /\ \A s \in Stages : GateInv(EmptyPipe[s])
  <1>1. EmptyGate \in Gate
    BY DEF EmptyGate, MkGate, Gate
  <1>2. Ids(EmptyGate.queue) = {} /\ EmptyGate.slots = {} /\ EmptyGate.queue = <<>>
    BY DEF EmptyGate, MkGate, Ids
  <1>3. SlotsBounded(EmptyGate)
    BY <1>2, FS_EmptySet, StageLimitAssumption DEF SlotsBounded
  <1>4. QueueExact(EmptyGate) /\ NoIdleSlot(EmptyGate)
    BY <1>2 DEF QueueExact, NoIdleSlot
  <1>5. ResolverExact(EmptyGate)
    BY <1>2 DEF ResolverExact, EmptyGate, MkGate
  <1> QED
    BY <1>1, <1>3, <1>4, <1>5 DEF EmptyPipe, GateInv

\* For any rows and any limit, every stage gate stays within its limit, hands
\* its free slots on, and keeps slots, queue and resolvers in step, whatever
\* order rows enter and leave the stages of upload-pipeline.ts in.
THEOREM GatesAreSound == PipeSpec => [](PipeTypeOK /\ GatesSound)
  <1>1. PipeInit => PipeTypeOK /\ GatesSound
    BY EmptyPipeSound DEF PipeInit, PipeTypeOK, GatesSound
  <1>2. PipeTypeOK /\ GatesSound /\ [PipeNext]_pipe => (PipeTypeOK /\ GatesSound)'
    <2> SUFFICES ASSUME PipeTypeOK, GatesSound, [PipeNext]_pipe
                 PROVE  (PipeTypeOK /\ GatesSound)'
      OBVIOUS
    <2> USE DEF PipeTypeOK, GatesSound
    <2>1. ASSUME NEW i \in Items, NEW s \in Stages, NEW who \in Who,
                 PipeAcquire(i, s, who)
          PROVE  (PipeTypeOK /\ GatesSound)'
      BY <2>1, AcquireStageSound DEF PipeAcquire
    <2>2. ASSUME NEW i \in Items, NEW s \in Stages, NEW who \in Who,
                 PipeContinue(i, s, who)
          PROVE  (PipeTypeOK /\ GatesSound)'
      <3>1. pipe' = [pipe EXCEPT ![s].woken = @ \ {<<i, who>>}]
        BY <2>2 DEF PipeContinue, Resume
      <3>2. pipe' \in [Stages -> Gate]
        BY <3>1 DEF Gate
      <3>3. ASSUME NEW o \in Stages PROVE GateInv(pipe'[o])
        <4>1. /\ pipe'[o].slots = pipe[o].slots /\ pipe'[o].queue = pipe[o].queue
              /\ pipe'[o].resolver = pipe[o].resolver
          BY <3>1 DEF Gate
        <4> QED
          BY <4>1 DEF GateInv, SlotsBounded, NoIdleSlot, QueueExact, ResolverExact
      <3> QED
        BY <3>2, <3>3
    <2>3. ASSUME NEW i \in Items, PipeLeave(i)
          PROVE  (PipeTypeOK /\ GatesSound)'
      BY <2>3, ReleaseAllSound DEF PipeLeave
    <2>4. CASE UNCHANGED pipe
      BY <2>4
    <2> QED
      BY <2>1, <2>2, <2>3, <2>4 DEF PipeNext
  <1> QED
    BY <1>1, <1>2, PTL DEF PipeSpec

-----------------------------------------------------------------------------
(* The tray *)

Batches  == {"none", "uploading", "complete"}
Workers  == {"idle", "wait", "bytes", "response", "registered", "backoff"}
PhasePcs == {"none", "waitProc", "proc", "paint", "waitStore", "store"}
Resumers == {"none", "wait", "poll"}
Servers  == {"none", "stored", "deleted"}

State == [pipe : [Stages -> Gate], items : Seq(Items), batch : Batches,
          row : [Items -> Row], userPaused : BOOLEAN, pump : BOOLEAN,
          worker : [Items -> Workers], phases : [Items -> PhasePcs],
          strays : SUBSET Items, resumer : [Items -> Resumers],
          resuming : SUBSET Items, aborted : SUBSET Items,
          server : [Items -> Servers]]

\* The worker has the row's bytes in hand, or waits to.
Moving == {"wait", "bytes", "response", "backoff"}

\* How the fields of a row i of the batch fit together with its coroutines: r is
\* the row, w its worker, z its poll, and p says whether it is counted as polled.
Fits(i, r, w, z, p) ==
    /\ r.st = "queued" => r.local /\ w = "idle"
    /\ r.local => /\ i \in Uploads /\ ~r.fileId /\ ~r.reselect /\ z = "none" /\ ~p
                  /\ w \notin {"response", "registered"}
    /\ w \in Moving => r.st = "uploading" /\ ~r.fileId /\ z = "none" /\ ~p
    /\ p => r.fileId
    /\ r.reselect => /\ r.st = "error" /\ ~r.fileId /\ ~r.reproc
                     /\ w = "idle" /\ z = "none" /\ ~p
    /\ r.reproc => i \in Rebuild
    /\ r.sess => i \in Uploads
    /\ z # "none" /\ ~p => ~(r.st = "uploading" /\ r.fileId)

\* The polls on their way that resumingItemIds has forgotten.
Forgotten == {i \in Items : resumer[i] # "none" /\ i \notin resuming}

\* What no function of the tray changes: the counters, and which polls were
\* forgotten when the handler began.
Counters == [made |-> made, tries |-> tries, forgotten |-> Forgotten]

\* Row i was put in the tray at some time: it is a rebuild or a picked file.
Picked(i, m) == i \in Rebuild \/ i <= m.made

\* A row in its backoff has a retry left, a rebuild has no worker, a row of the
\* batch fits its coroutines, one that was never picked has none, and one with a
\* forgotten poll is not polled again.
RowOK(t, i, m) ==
    /\ t.worker[i] = "backoff" => m.tries[i] < MaxRetries
    /\ i \in Rebuild => t.worker[i] = "idle"
    /\ In(t, i) => Fits(i, t.row[i], t.worker[i], t.resumer[i], i \in t.resuming)
    /\ ~Picked(i, m) => /\ ~In(t, i) /\ t.worker[i] = "idle" /\ t.resumer[i] = "none"
                        /\ i \notin t.resuming
    /\ i \in m.forgotten =>
         /\ i \notin t.resuming
         /\ In(t, i) => ~(t.row[i].st = "uploading" /\ t.row[i].fileId)

Gated(t)   == \A s \in Stages : GateInv(t.pipe[s])
Settled(t) == t.batch = "complete" => \A i \in Ids(t.items) : t.row[i].st \in Terminal
Few(t)     == IsFiniteSet(t.resuming) /\ Cardinality(t.resuming) <= StageLimit

\* Good but for the number of polls.
Fine(t, m) == t \in State /\ Gated(t) /\ Settled(t) /\ \A i \in Items : RowOK(t, i, m)

Good(t, m) == Fine(t, m) /\ Few(t)

-----------------------------------------------------------------------------
(* Steps on a record                                                       *)

\* The fields of a state of the tray.
LEMMA StateFields ==
    ASSUME NEW t \in State
    PROVE  /\ t.pipe \in [Stages -> Gate] /\ t.items \in Seq(Items) /\ t.batch \in Batches
           /\ t.row \in [Items -> Row] /\ t.userPaused \in BOOLEAN /\ t.pump \in BOOLEAN
           /\ t.worker \in [Items -> Workers] /\ t.phases \in [Items -> PhasePcs]
           /\ t.strays \in SUBSET Items /\ t.resumer \in [Items -> Resumers]
           /\ t.resuming \in SUBSET Items /\ t.aborted \in SUBSET Items
           /\ t.server \in [Items -> Servers]
BY DEF State

\* The fields of a row.
LEMMA RowFields ==
    ASSUME NEW r \in Row
    PROVE  /\ r.st \in {"queued", "uploading"} \cup Terminal
           /\ r.local \in BOOLEAN /\ r.fileId \in BOOLEAN /\ r.sess \in BOOLEAN
           /\ r.reselect \in BOOLEAN /\ r.paused \in BOOLEAN /\ r.reproc \in BOOLEAN
BY DEF Row

\* A blank row is a row.
LEMMA BlankRow == Blank \in Row
BY DEF Blank, Row

\* The ids of a list of items are items.
LEMMA IdsIn ==
    ASSUME NEW q \in Seq(Items)
    PROVE  Ids(q) \subseteq Items
BY DEF Ids

\* What the rows and their coroutines are is the same in t and u.
SameRows(t, u) ==
    /\ u.items = t.items /\ u.row = t.row /\ u.worker = t.worker
    /\ u.resumer = t.resumer /\ u.resuming = t.resuming

\* A record with the same rows and coroutines and with sound gates is as good.
LEMMA Alike ==
    ASSUME NEW t, NEW u, NEW m, Good(t, m), u \in State, SameRows(t, u), Gated(u),
           u.batch = t.batch \/ Settled(u)
    PROVE  Good(u, m)
<1>1. \A i \in Items : RowOK(u, i, m)
  BY DEF Good, Fine, RowOK, SameRows, In
<1>2. Settled(u)
  BY DEF Good, Fine, Settled, SameRows
<1>3. Few(u)
  BY DEF Good, Few, SameRows
<1>. QED BY <1>1, <1>2, <1>3 DEF Good, Fine

\* Nothing but row i and its coroutines differs between t and u, except that
\* rows may have left the batch.
OnlyRow(t, u, i) ==
    \A j \in Items \ {i} :
         /\ In(u, j) => In(t, j)
         /\ u.row[j] = t.row[j] /\ u.worker[j] = t.worker[j]
         /\ u.resumer[j] = t.resumer[j]
         /\ j \in u.resuming <=> j \in t.resuming

\* A change of row i alone is a matter of row i.
LEMMA OneRow ==
    ASSUME NEW t, NEW u, NEW m, NEW i \in Items, Fine(t, m), u \in State,
           OnlyRow(t, u, i), RowOK(u, i, m), Gated(u), Settled(u)
    PROVE  Fine(u, m)
<1>1. ASSUME NEW j \in Items, j # i PROVE RowOK(u, j, m)
  <2>1. RowOK(t, j, m) BY DEF Fine
  <2>. QED BY <1>1, <2>1 DEF OnlyRow, RowOK, In
<1>. QED BY <1>1 DEF Fine

\* A batch that was not complete, or in which row i stays settled, is no
\* complete batch with rows to settle.
LEMMA OneSettled ==
    ASSUME NEW t, NEW u, NEW m, NEW i \in Items, Fine(t, m), u \in State, OnlyRow(t, u, i),
           u.batch = "complete" =>
             t.batch = "complete" /\ (In(u, i) => u.row[i].st \in Terminal)
    PROVE  Settled(u)
<1>1. Ids(u.items) \subseteq Items BY StateFields, IdsIn
<1>. QED BY <1>1 DEF Fine, Settled, OnlyRow, In

\* Fewer polls are few enough.
LEMMA FewerPolls ==
    ASSUME NEW t \in State, NEW u \in State, Few(t), u.resuming \subseteq t.resuming
    PROVE  Few(u)
<1>1. IsFiniteSet(u.resuming) /\ Cardinality(u.resuming) <= Cardinality(t.resuming)
  BY FS_Subset DEF Few
<1>2. Cardinality(u.resuming) \in Nat /\ Cardinality(t.resuming) \in Nat
  BY <1>1, FS_CardinalityType DEF Few
<1>. QED BY <1>1, <1>2, StageLimitAssumption DEF Few

-----------------------------------------------------------------------------
(* The functions several handlers call                                     *)

\* pumpUploadQueue up to its await only schedules its closure.
LEMMA PumpUploadGood ==
    ASSUME NEW t, NEW m, Good(t, m)
    PROVE  /\ Good(PumpUpload(t), m) /\ SameRows(t, PumpUpload(t))
           /\ PumpUpload(t).batch = t.batch /\ PumpUpload(t).pipe = t.pipe
           /\ PumpUpload(t).phases = t.phases /\ PumpUpload(t).strays = t.strays
<1>. DEFINE u == PumpUpload(t)
<1>0. t \in State BY DEF Good, Fine
<1>1. u \in State BY <1>0 DEF PumpUpload, State
<1>2. /\ SameRows(t, u) /\ u.pipe = t.pipe /\ u.batch = t.batch
      /\ u.phases = t.phases /\ u.strays = t.strays
  BY <1>0 DEF PumpUpload, State, SameRows
<1>3. Gated(u) BY <1>2 DEF Good, Fine, Gated
<1>. HIDE DEF u
<1>4. Good(u, m) BY <1>1, <1>2, <1>3, Alike
<1>. QED BY <1>2, <1>4 DEF u

\* maybeCompleteBatch settles the batch and nothing else.
LEMMA MaybeCompleteGood ==
    ASSUME NEW t, NEW m, Good(t, m)
    PROVE  Good(MaybeComplete(t), m) /\ SameRows(t, MaybeComplete(t))
<1>. DEFINE u == MaybeComplete(t)
<1>0. t \in State BY DEF Good, Fine
<1>1. u \in State BY <1>0 DEF MaybeComplete, State, Batches
<1>2. SameRows(t, u) /\ u.pipe = t.pipe
  BY <1>0 DEF MaybeComplete, State, SameRows
<1>3. Gated(u) BY <1>2 DEF Good, Fine, Gated
<1>4. u.batch = t.batch \/ Settled(u)
  <2>1. CASE t.batch = "uploading" /\ \A i \in Ids(t.items) : t.row[i].st \in Terminal
    BY <1>2, <2>1 DEF Settled, SameRows
  <2>2. CASE ~(t.batch = "uploading" /\ \A i \in Ids(t.items) : t.row[i].st \in Terminal)
    BY <2>2 DEF MaybeComplete
  <2>. QED BY <2>1, <2>2
<1>. HIDE DEF u
<1>5. Good(u, m) BY <1>1, <1>2, <1>3, <1>4, Alike
<1>. QED BY <1>2, <1>5 DEF u

\* Slots are dropped: nothing but the gates changes.
LEMMA ReleaseGood ==
    ASSUME NEW t \in State, Gated(t), NEW i \in Items
    PROVE  /\ Release(t, i) \in State /\ Gated(Release(t, i)) /\ SameRows(t, Release(t, i))
           /\ Release(t, i).batch = t.batch
           /\ Release(t, i).phases = t.phases /\ Release(t, i).strays = t.strays
<1>1. t.pipe \in [Stages -> Gate] BY StateFields
<1>2. /\ ReleaseAll(t.pipe, i) \in [Stages -> Gate]
      /\ \A o \in Stages : GateInv(ReleaseAll(t.pipe, i)[o])
  BY <1>1, ReleaseAllSound DEF Gated
<1>3. Release(t, i) \in State BY <1>2 DEF Release, State
<1>4. /\ SameRows(t, Release(t, i)) /\ Release(t, i).pipe = ReleaseAll(t.pipe, i)
      /\ Release(t, i).batch = t.batch
      /\ Release(t, i).phases = t.phases /\ Release(t, i).strays = t.strays
  BY DEF Release, State, SameRows
<1>. QED BY <1>2, <1>3, <1>4 DEF Gated

\* A stage is asked for.
LEMMA AcquireGood ==
    ASSUME NEW t \in State, Gated(t), NEW i \in Items, NEW s \in Stages,
           NEW who \in {"display", "phases", "resume"}
    PROVE  /\ AcquireStage(t.pipe, i, s, who) \in [Stages -> Gate]
           /\ \A o \in Stages : GateInv(AcquireStage(t.pipe, i, s, who)[o])
<1>1. t.pipe \in [Stages -> Gate] BY StateFields
<1>2. who \in Who \cup {"display"} BY CoroutinesAssumption
<1>. QED BY <1>1, <1>2, AcquireStageSound DEF Gated

-----------------------------------------------------------------------------
(* pumpProcessingQueue                                                     *)

\* What a run of pumpProcessingQueue leaves alone.
SameButPolls(t, u) ==
    /\ u.items = t.items /\ u.row = t.row /\ u.worker = t.worker
    /\ u.batch = t.batch /\ u.phases = t.phases /\ u.strays = t.strays

Startable(t, i) ==
    t.row[i].st = "uploading" /\ t.row[i].fileId /\ ~t.row[i].local

\* A poll is started for a row past its bytes.
LEMMA StartResumeFine ==
    ASSUME NEW t, NEW m, NEW i \in Items, Fine(t, m), Startable(t, i), In(t, i)
    PROVE  /\ Fine(StartResume(t, i), m) /\ SameButPolls(t, StartResume(t, i))
           /\ StartResume(t, i).resuming = t.resuming \cup {i}
<1>. DEFINE u == StartResume(t, i)
            z == IF CanOccupy(t.pipe["processing"], i) THEN "poll" ELSE "wait"
            p == AcquireStage(t.pipe, i, "processing", "resume")
<1>0. t \in State /\ Gated(t) /\ RowOK(t, i, m) BY DEF Fine
<1>1. "processing" \in Stages /\ "resume" \in {"display", "phases", "resume"} BY DEF Stages
<1>2. p \in [Stages -> Gate] /\ \A o \in Stages : GateInv(p[o])
  BY <1>0, <1>1, AcquireGood
<1>3. z \in Resumers BY DEF Resumers
<1>4. u = [t EXCEPT !.resuming = @ \cup {i}, !.resumer[i] = z, !.pipe = p]
  BY DEF StartResume
<1>. HIDE DEF u, z, p
<1>5. [t.resumer EXCEPT ![i] = z] \in [Items -> Resumers] /\ t.resuming \cup {i} \in SUBSET Items
  BY <1>0, <1>3, StateFields
<1>6. u \in State BY <1>0, <1>2, <1>4, <1>5 DEF State
<1>7. /\ u.resumer = [t.resumer EXCEPT ![i] = z] /\ u.resuming = t.resuming \cup {i}
      /\ u.pipe = p /\ SameButPolls(t, u)
  BY <1>0, <1>4 DEF State, SameButPolls
<1>8. t.resumer \in [Items -> Resumers] BY <1>0, StateFields
<1>9. OnlyRow(t, u, i) BY <1>7, <1>8 DEF OnlyRow, SameButPolls, In
<1>10. Settled(u) BY <1>7 DEF Fine, Settled, SameButPolls
<1>11. Gated(u) BY <1>2, <1>7 DEF Gated
<1>12. RowOK(u, i, m)
  <2>1. In(u, i) /\ u.row[i] = t.row[i] /\ u.worker[i] = t.worker[i]
    BY <1>7 DEF SameButPolls, In
  <2>2. Fits(i, t.row[i], t.worker[i], t.resumer[i], i \in t.resuming)
    BY <1>0 DEF RowOK
  <2>3. Fits(i, t.row[i], t.worker[i], u.resumer[i], i \in u.resuming)
    BY <1>7, <2>2 DEF Fits, Startable
  <2>4. i \notin m.forgotten BY <1>0 DEF RowOK, Startable
  <2>. QED BY <1>0, <2>1, <2>3, <2>4 DEF RowOK
<1>13. Fine(u, m) BY <1>6, <1>9, <1>10, <1>11, <1>12, OneRow
<1>. QED BY <1>7, <1>13 DEF u

\* The loop of pumpProcessingQueue over rows it may start.
LEMMA ResumeEach ==
    ASSUME NEW t, NEW m, Fine(t, m), NEW q \in Seq(Items),
           \A n \in DOMAIN q : In(t, q[n]) /\ Startable(t, q[n])
    PROVE  /\ Fine(Each(StartResume, t, q), m) /\ SameButPolls(t, Each(StartResume, t, q))
           /\ Each(StartResume, t, q).resuming \subseteq t.resuming \cup Ids(q)
<1>. DEFINE P(x) == /\ Fine(x, m) /\ SameButPolls(t, x)
                    /\ x.resuming \subseteq t.resuming \cup Ids(q)
            S == {x \in State : P(x)}
            F == [y \in S \X DOMAIN q |-> StartResume(y[1], q[y[2]])]
            Of(g) == g = [n \in 0..Len(q) |->
                            IF n = 0 THEN t ELSE StartResume(g[n - 1], q[n])]
            k == CHOOSE g : Of(g)
<1>0. Len(q) \in Nat /\ DOMAIN q = 1..Len(q) OBVIOUS
<1>1. \A x \in S, n \in DOMAIN q : F[<<x, n>>] = StartResume(x, q[n]) OBVIOUS
<1>2. t \in S BY DEF Fine, SameButPolls
<1>3. ASSUME NEW x \in S, NEW n \in DOMAIN q PROVE StartResume(x, q[n]) \in S
  <2>0. P(x) /\ q[n] \in Items /\ q[n] \in Ids(q) BY DEF Ids
  <2>1. In(x, q[n]) /\ Startable(x, q[n]) BY <2>0 DEF SameButPolls, In, Startable
  <2>2. /\ Fine(StartResume(x, q[n]), m) /\ SameButPolls(x, StartResume(x, q[n]))
        /\ StartResume(x, q[n]).resuming = x.resuming \cup {q[n]}
    BY <2>0, <2>1, StartResumeFine
  <2>3. SameButPolls(t, StartResume(x, q[n])) BY <2>0, <2>2 DEF SameButPolls
  <2>4. StartResume(x, q[n]) \in State BY <2>2 DEF Fine
  <2>. QED BY <2>0, <2>2, <2>3, <2>4
<1>. HIDE DEF S, F
<1>4. Closed(S, Len(q), F) BY <1>0, <1>1, <1>3 DEF Closed
<1>5. Of(k)
  <2>1. PICK g : RunOf(g, S, t, Len(q), F) BY <1>0, <1>2, <1>4, LoopExists
  <2>2. ASSUME NEW n \in 0..Len(q)
        PROVE  g[n] = IF n = 0 THEN t ELSE StartResume(g[n - 1], q[n])
    <3>1. n # 0 => n \in DOMAIN q /\ g[n - 1] \in S BY <1>0, <2>1 DEF RunOf
    <3>. QED BY <1>1, <2>1, <3>1 DEF RunOf
  <2>3. g = [n \in 0..Len(q) |-> g[n]] BY <2>1 DEF RunOf
  <2>4. Of(g) BY <2>2, <2>3
  <2>. QED BY <2>4
<1>6. Each(StartResume, t, q) = k[Len(q)] BY DEF Each
<1>. HIDE DEF k
<1>7. k[0] = t /\ \A n \in 1..Len(q) : k[n - 1] \in S => k[n] = F[<<k[n - 1], n>>]
  <2>1. \A n \in 0..Len(q) : k[n] = IF n = 0 THEN t ELSE StartResume(k[n - 1], q[n])
    BY <1>5
  <2>. QED BY <1>0, <1>1, <2>1
<1>8. \A n \in 0..Len(q) : k[n] \in S BY <1>0, <1>2, <1>4, <1>7, LoopTyped
<1>9. Each(StartResume, t, q) \in S BY <1>0, <1>6, <1>8
<1>. QED BY <1>9 DEF S

\* The first k entries of a list are at most k ids.
LEMMA FirstIds ==
    ASSUME NEW q \in Seq(Items), NEW k \in Nat, k <= Len(q)
    PROVE  /\ SubSeq(q, 1, k) \in Seq(Items)
           /\ \A n \in DOMAIN SubSeq(q, 1, k) : n \in DOMAIN q /\ SubSeq(q, 1, k)[n] = q[n]
           /\ IsFiniteSet(Ids(SubSeq(q, 1, k)))
           /\ Cardinality(Ids(SubSeq(q, 1, k))) <= k
<1>. DEFINE f == SubSeq(q, 1, k)
<1>1. f \in Seq(Items) /\ DOMAIN f = 1..k /\ \A n \in 1..k : n \in DOMAIN q /\ f[n] = q[n]
  OBVIOUS
<1>. HIDE DEF f
<1>2. IsFiniteSet(1..k) /\ Cardinality(1..k) = k BY FS_Interval
<1>3. f \in Surjection(1..k, Ids(f))
  <2>1. f \in [1..k -> Ids(f)] BY <1>1 DEF Ids
  <2>. QED BY <1>1, <2>1 DEF Surjection, Ids
<1>4. IsFiniteSet(Ids(f)) /\ Cardinality(Ids(f)) <= k
  BY <1>2, <1>3, FS_Surjection
<1>. QED BY <1>1, <1>4 DEF f

\* pumpProcessingQueue starts polls for the free places and no more.
LEMMA PumpProcessingGood ==
    ASSUME NEW t, NEW m, Good(t, m)
    PROVE  Good(PumpProcessing(t), m) /\ SameButPolls(t, PumpProcessing(t))
<1>0. t \in State /\ Fine(t, m) /\ Few(t) BY DEF Good, Fine
<1>1. CASE t.batch # "uploading"
  <2>1. PumpProcessing(t) = t BY <1>1 DEF PumpProcessing
  <2>. QED BY <2>1 DEF SameButPolls
<1>2. CASE t.batch = "uploading"
  <2>. DEFINE q == Resumables(t)
              free == StageLimit - Cardinality(t.resuming)
              k == IF Len(q) <= free THEN Len(q) ELSE free
              f == SubSeq(q, 1, k)
              u == Each(StartResume, t, f)
              C == {i \in Items \ t.resuming :
                      t.row[i].st = "uploading" /\ t.row[i].fileId /\ ~t.row[i].local}
  <2>1. PumpProcessing(t) = u BY <1>2 DEF PumpProcessing
  <2>2. /\ q \in Seq(Items)
        /\ \A n \in DOMAIN q : q[n] \in C /\ \E j \in DOMAIN t.items : q[n] = t.items[j]
    <3>1. q = Only(t.items, C) BY DEF Resumables
    <3>2. t.items \in Seq(Items) BY <1>0, StateFields
    <3>. HIDE DEF C, q
    <3>. QED BY <3>1, <3>2, OnlyOf
  <2>3. \A n \in DOMAIN q : In(t, q[n]) /\ Startable(t, q[n])
    <3>. HIDE DEF q
    <3>. QED BY <2>2 DEF In, Ids, Startable
  <2>4. Cardinality(t.resuming) \in Nat BY <1>0, FS_CardinalityType DEF Few
  <2>. HIDE DEF q
  <2>5. Len(q) \in Nat BY <2>2
  <2>6. free \in Nat BY <1>0, <2>4, StageLimitAssumption DEF Few
  <2>7. k \in Nat /\ k <= Len(q) /\ k <= free
    <3>. HIDE DEF free
    <3>. QED BY <2>5, <2>6
  <2>. HIDE DEF k
  <2>8. /\ f \in Seq(Items) /\ \A n \in DOMAIN f : n \in DOMAIN q /\ f[n] = q[n]
        /\ IsFiniteSet(Ids(f)) /\ Cardinality(Ids(f)) <= k
    BY <2>2, <2>7, FirstIds
  <2>. HIDE DEF f
  <2>9. \A n \in DOMAIN f : In(t, f[n]) /\ Startable(t, f[n]) BY <2>3, <2>8
  <2>10. Fine(u, m) /\ SameButPolls(t, u) /\ u.resuming \subseteq t.resuming \cup Ids(f)
    BY <1>0, <2>8, <2>9, ResumeEach
  <2>. HIDE DEF u
  <2>11. Few(u)
    <3>. DEFINE A == t.resuming \cup Ids(f)
    <3>1. IsFiniteSet(t.resuming) BY <1>0 DEF Few
    <3>2. /\ IsFiniteSet(A)
          /\ Cardinality(A) = Cardinality(t.resuming) + Cardinality(Ids(f))
                              - Cardinality(t.resuming \cap Ids(f))
      BY <2>8, <3>1, FS_Union
    <3>3. IsFiniteSet(t.resuming \cap Ids(f)) BY <3>1, FS_Intersection
    <3>4. /\ Cardinality(Ids(f)) \in Nat /\ Cardinality(t.resuming \cap Ids(f)) \in Nat
      BY <2>8, <3>3, FS_CardinalityType
    <3>5. IsFiniteSet(u.resuming) /\ Cardinality(u.resuming) <= Cardinality(A)
      BY <2>10, <3>2, FS_Subset
    <3>6. Cardinality(u.resuming) \in Nat BY <3>5, FS_CardinalityType
    <3>7. Cardinality(A) <= StageLimit
      BY <2>4, <2>7, <2>8, <3>2, <3>4, StageLimitAssumption
    <3>8. Cardinality(A) \in Nat BY <3>2, FS_CardinalityType
    <3>. HIDE DEF A
    <3>. QED BY <3>5, <3>6, <3>7, <3>8, StageLimitAssumption DEF Few
  <2>. QED BY <2>1, <2>10, <2>11 DEF Good
<1>. QED BY <1>1, <1>2

\* The end of a worker.
LEMMA AfterUploadGood ==
    ASSUME NEW t, NEW m, Good(t, m)
    PROVE  Good(AfterUpload(t), m)
<1>. DEFINE a == PumpUpload(t)
            b == PumpProcessing(a)
<1>1. Good(a, m) BY PumpUploadGood DEF SameRows
<1>2. Good(b, m)
  <2>. HIDE DEF a
  <2>. QED BY <1>1, PumpProcessingGood DEF SameButPolls
<1>3. AfterUpload(t) = MaybeComplete(b) BY DEF AfterUpload
<1>. HIDE DEF b
<1>. QED BY <1>1, <1>2, <1>3, MaybeCompleteGood DEF SameRows

-----------------------------------------------------------------------------
(* Cancels                                                                 *)

\* A row that fits its coroutines fits them without its worker, too.
LEMMA FitsIdle ==
    ASSUME NEW i, NEW r, NEW w, NEW z, NEW p, Fits(i, r, w, z, p)
    PROVE  Fits(i, r, "idle", z, p)
BY DEF Fits, Moving

\* A worker that ends leaves its row as it is.
LEMMA IdleFine ==
    ASSUME NEW t, NEW u, NEW m, NEW i \in Items, Good(t, m), u \in State, Gated(u),
           u.worker = [t.worker EXCEPT ![i] = "idle"], u.items = t.items, u.row = t.row,
           u.resumer = t.resumer, u.resuming = t.resuming,
           u.batch = t.batch
    PROVE  Good(u, m)
<1>0. t \in State /\ Fine(t, m) /\ RowOK(t, i, m) /\ Few(t) BY DEF Good, Fine
<1>1. t.worker \in [Items -> Workers] BY <1>0, StateFields
<1>2. u.worker[i] = "idle" /\ \A j \in Items \ {i} : u.worker[j] = t.worker[j] BY <1>1
<1>3. OnlyRow(t, u, i) BY <1>2 DEF OnlyRow, In
<1>4. RowOK(u, i, m) BY <1>0, <1>2, FitsIdle DEF RowOK, In
<1>5. Settled(u) BY <1>0 DEF Fine, Settled
<1>6. Few(u) BY <1>0 DEF Few
<1>. QED BY <1>0, <1>3, <1>4, <1>5, <1>6, OneRow DEF Good

\* abortUploadSession: the worker ends, the row is as it was.
LEMMA AbortSessionGood ==
    ASSUME NEW t, NEW m, NEW i \in Items, Good(t, m)
    PROVE  /\ Good(AbortSession(t, i), m) /\ AbortSession(t, i).items = t.items
           /\ AbortSession(t, i).row = t.row
<1>0. t \in State /\ Gated(t) BY DEF Good, Fine
<1>1. CASE ~HasSession(t, i)
  <2>1. AbortSession(t, i) = t BY <1>1 DEF AbortSession
  <2>. QED BY <2>1
<1>2. CASE HasSession(t, i)
  <2>. DEFINE u == AbortSession(t, i)
              p == ReleaseAll(t.pipe, i)
              x == IF t.phases[i] = "paint" THEN t.strays \cup {i} ELSE t.strays
  <2>1. u = [t EXCEPT !.worker[i] = "idle", !.phases[i] = "none", !.strays = x, !.pipe = p]
    BY <1>0, <1>2 DEF AbortSession, State
  <2>2. t.pipe \in [Stages -> Gate] BY <1>0, StateFields
  <2>3. p \in [Stages -> Gate] /\ \A o \in Stages : GateInv(p[o])
    BY <1>0, <2>2, ReleaseAllSound DEF Gated
  <2>4. /\ x \in SUBSET Items /\ [t.worker EXCEPT ![i] = "idle"] \in [Items -> Workers]
        /\ [t.phases EXCEPT ![i] = "none"] \in [Items -> PhasePcs]
    BY <1>0, StateFields DEF Workers, PhasePcs
  <2>. HIDE DEF u, p, x
  <2>5. u \in State BY <1>0, <2>1, <2>3, <2>4 DEF State
  <2>6. /\ u.worker = [t.worker EXCEPT ![i] = "idle"] /\ u.items = t.items /\ u.row = t.row
        /\ u.resumer = t.resumer /\ u.resuming = t.resuming
        /\ u.batch = t.batch /\ u.pipe = p
    BY <1>0, <2>1 DEF State
  <2>7. Gated(u) BY <2>3, <2>6 DEF Gated
  <2>8. Good(u, m) BY <2>5, <2>6, <2>7, IdleFine
  <2>. QED BY <2>6, <2>8 DEF u
<1>. QED BY <1>1, <1>2

\* The file of row i goes, its row and its coroutines stay.
LEMMA DeleteServerFileGood ==
    ASSUME NEW t, NEW m, NEW i \in Items, Good(t, m)
    PROVE  Good(DeleteServerFile(t, i), m)
<1>0. t \in State BY DEF Good, Fine
<1>1. CASE ~t.row[i].fileId
  <2>1. DeleteServerFile(t, i) = t BY <1>1 DEF DeleteServerFile
  <2>. QED BY <2>1
<1>2. CASE t.row[i].fileId
  <2>. DEFINE u == DeleteServerFile(t, i)
              S == [t.server EXCEPT ![FileOf[i]] = "deleted"]
  <2>1. u = [t EXCEPT !.server = S] BY <1>0, <1>2 DEF DeleteServerFile, State
  <2>2. t.server \in [Items -> Servers] /\ FileOf[i] \in Items
    BY <1>0, StateFields, FilesAssumption
  <2>3. S \in [Items -> Servers] BY <2>2 DEF Servers
  <2>. HIDE DEF u, S
  <2>4. u \in State BY <1>0, <2>1, <2>3 DEF State
  <2>5. SameRows(t, u) /\ u.pipe = t.pipe /\ u.batch = t.batch
    BY <1>0, <2>1 DEF State, SameRows
  <2>6. Gated(u) BY <2>5 DEF Good, Fine, Gated
  <2>7. Good(u, m) BY <2>4, <2>5, <2>6, Alike
  <2>. QED BY <2>7 DEF u
<1>. QED BY <1>1, <1>2

\* removeItemFromActiveBatch.
LEMMA RemoveRowGood ==
    ASSUME NEW t, NEW m, NEW i \in Items, Good(t, m)
    PROVE  Good(RemoveRow(t, i), m)
<1>. DEFINE left == Only(t.items, Items \ {i})
            p == ReleaseAll(t.pipe, i)
            b == IF left = <<>> THEN "none" ELSE t.batch
            gone == [t EXCEPT !.items = left, !.row[i] = Blank, !.aborted = @ \ {i},
                              !.pipe = p, !.batch = b]
<1>0. t \in State /\ Gated(t) /\ Fine(t, m) /\ RowOK(t, i, m) /\ Few(t) BY DEF Good, Fine
<1>1. RemoveRow(t, i) = PumpUpload(MaybeComplete(gone)) BY <1>0 DEF RemoveRow, State
<1>2. t.pipe \in [Stages -> Gate] /\ t.items \in Seq(Items) BY <1>0, StateFields
<1>3. p \in [Stages -> Gate] /\ \A o \in Stages : GateInv(p[o])
  BY <1>0, <1>2, ReleaseAllSound DEF Gated
<1>4. /\ left \in Seq(Items)
      /\ \A k \in DOMAIN left : left[k] # i /\ \E n \in DOMAIN t.items : left[k] = t.items[n]
  <2>. DEFINE S == Items \ {i}
  <2>1. left = Only(t.items, S) /\ i \notin S OBVIOUS
  <2>. HIDE DEF left, S
  <2>. QED BY <1>2, <2>1, OnlyOf
<1>5. b \in Batches /\ (b = "complete" => t.batch = "complete")
  BY <1>0, StateFields DEF Batches
<1>6. [t.row EXCEPT ![i] = Blank] \in [Items -> Row] /\ t.aborted \ {i} \in SUBSET Items
      /\ t.row \in [Items -> Row]
  BY <1>0, StateFields, BlankRow
<1>. HIDE DEF left, p, b
<1>7. gone \in State BY <1>0, <1>3, <1>4, <1>5, <1>6 DEF State
<1>8. /\ gone.items = left /\ gone.row = [t.row EXCEPT ![i] = Blank] /\ gone.pipe = p
      /\ gone.batch = b /\ gone.worker = t.worker /\ gone.resumer = t.resumer
      /\ gone.resuming = t.resuming
  BY <1>0 DEF State
<1>. HIDE DEF gone
<1>9. Ids(gone.items) \subseteq Ids(t.items) /\ ~In(gone, i) BY <1>4, <1>8 DEF Ids, In
<1>10. OnlyRow(t, gone, i) BY <1>6, <1>8, <1>9 DEF OnlyRow, In
<1>11. RowOK(gone, i, m) BY <1>0, <1>8, <1>9 DEF RowOK
<1>12. Settled(gone) BY <1>0, <1>5, <1>7, <1>8, <1>9, <1>10, OneSettled DEF In
<1>13. Gated(gone) /\ Few(gone) BY <1>0, <1>3, <1>8 DEF Gated, Few
<1>14. Good(gone, m) BY <1>0, <1>7, <1>10, <1>11, <1>12, <1>13, OneRow DEF Good
<1>15. Good(MaybeComplete(gone), m)
  BY <1>8, <1>14, MaybeCompleteGood DEF SameRows
<1>. QED BY <1>1, <1>15, PumpUploadGood DEF SameRows

\* cancelUploadItem for an upload.
LEMMA CancelUploadGood ==
    ASSUME NEW t, NEW m, NEW i \in Items, Good(t, m)
    PROVE  Good(CancelUpload(t, i), m)
<1>. DEFINE a == IF t.row[i].st = "uploading" THEN AbortSession(t, i) ELSE t
            d == DeleteServerFile(a, i)
<1>1. Good(a, m) BY AbortSessionGood
<1>. HIDE DEF a
<1>2. Good(d, m) BY <1>1, DeleteServerFileGood
<1>3. CancelUpload(t, i) = RemoveRow(d, i) BY DEF CancelUpload, a
<1>. HIDE DEF d
<1>. QED BY <1>2, <1>3, RemoveRowGood

\* The loop of cancelAllUploadItems.
LEMMA CancelEach ==
    ASSUME NEW t, NEW m, Good(t, m), NEW q \in Seq(Items)
    PROVE  Good(Each(CancelUpload, t, q), m)
<1>. DEFINE S == {x \in State : Good(x, m)}
            F == [y \in S \X DOMAIN q |-> CancelUpload(y[1], q[y[2]])]
            Of(g) == g = [n \in 0..Len(q) |->
                            IF n = 0 THEN t ELSE CancelUpload(g[n - 1], q[n])]
            k == CHOOSE g : Of(g)
<1>0. Len(q) \in Nat /\ DOMAIN q = 1..Len(q) OBVIOUS
<1>1. \A x \in S, n \in DOMAIN q : F[<<x, n>>] = CancelUpload(x, q[n]) OBVIOUS
<1>2. t \in S BY DEF Good, Fine
<1>3. ASSUME NEW x \in S, NEW n \in DOMAIN q PROVE CancelUpload(x, q[n]) \in S
  <2>0. Good(x, m) /\ q[n] \in Items OBVIOUS
  <2>1. Good(CancelUpload(x, q[n]), m) BY <2>0, CancelUploadGood
  <2>2. CancelUpload(x, q[n]) \in State BY <2>1 DEF Good, Fine
  <2>. QED BY <2>0, <2>1, <2>2
<1>. HIDE DEF S, F
<1>4. Closed(S, Len(q), F) BY <1>0, <1>1, <1>3 DEF Closed
<1>5. Of(k)
  <2>1. PICK g : RunOf(g, S, t, Len(q), F) BY <1>0, <1>2, <1>4, LoopExists
  <2>2. ASSUME NEW n \in 0..Len(q)
        PROVE  g[n] = IF n = 0 THEN t ELSE CancelUpload(g[n - 1], q[n])
    <3>1. n # 0 => n \in DOMAIN q /\ g[n - 1] \in S BY <1>0, <2>1 DEF RunOf
    <3>. QED BY <1>1, <2>1, <3>1 DEF RunOf
  <2>3. g = [n \in 0..Len(q) |-> g[n]] BY <2>1 DEF RunOf
  <2>4. Of(g) BY <2>2, <2>3
  <2>. QED BY <2>4
<1>6. Each(CancelUpload, t, q) = k[Len(q)] BY DEF Each
<1>. HIDE DEF k
<1>7. k[0] = t /\ \A n \in 1..Len(q) : k[n - 1] \in S => k[n] = F[<<k[n - 1], n>>]
  <2>1. \A n \in 0..Len(q) : k[n] = IF n = 0 THEN t ELSE CancelUpload(k[n - 1], q[n])
    BY <1>5
  <2>. QED BY <1>0, <1>1, <2>1
<1>8. \A n \in 0..Len(q) : k[n] \in S BY <1>0, <1>2, <1>4, <1>7, LoopTyped
<1>9. Each(CancelUpload, t, q) \in S BY <1>0, <1>6, <1>8
<1>. QED BY <1>9 DEF S

\* What cancelling rebuilds leaves alone.
SameFiles(t, u) == u.items = t.items

\* The cancelled rebuild keeps its row and its file.
LEMMA CancelRebuildGood ==
    ASSUME NEW t, NEW m, NEW i \in Items, Good(t, m), In(t, i), t.row[i].reproc
    PROVE  /\ Good(CancelRebuild(t, i), m) /\ SameFiles(t, CancelRebuild(t, i))
           /\ \A j \in Items : CancelRebuild(t, i).row[j].reproc = t.row[j].reproc
<1>. DEFINE u == CancelRebuild(t, i)
            p == ReleaseAll(t.pipe, i)
            r == [t.row[i] EXCEPT !.st = "cancelled"]
<1>0. t \in State /\ Gated(t) /\ Fine(t, m) /\ RowOK(t, i, m) /\ Few(t) BY DEF Good, Fine
<1>1. /\ t.pipe \in [Stages -> Gate] /\ t.row \in [Items -> Row]
      /\ t.resuming \in SUBSET Items /\ t.aborted \in SUBSET Items
  BY <1>0, StateFields
<1>2. p \in [Stages -> Gate] /\ \A o \in Stages : GateInv(p[o])
  BY <1>0, <1>1, ReleaseAllSound DEF Gated
<1>3. /\ r \in Row /\ r.st = "cancelled" /\ r.local = t.row[i].local
      /\ r.fileId = t.row[i].fileId /\ r.reselect = t.row[i].reselect
      /\ r.reproc = t.row[i].reproc /\ r.sess = t.row[i].sess
  BY <1>1 DEF Row, Terminal
<1>4. u = [t EXCEPT !.aborted = @ \cup {i}, !.row = [t.row EXCEPT ![i] = r], !.pipe = p,
                    !.resuming = @ \ {i}]
  BY <1>0 DEF CancelRebuild, State
<1>5. [t.row EXCEPT ![i] = r] \in [Items -> Row] BY <1>1, <1>3
<1>. HIDE DEF u, p, r
<1>6. u \in State BY <1>0, <1>1, <1>2, <1>4, <1>5 DEF State
<1>7. /\ u.row = [t.row EXCEPT ![i] = r] /\ u.pipe = p /\ u.resuming = t.resuming \ {i}
      /\ u.items = t.items /\ u.worker = t.worker
      /\ u.resumer = t.resumer /\ u.batch = t.batch
  BY <1>0, <1>4 DEF State
<1>8. u.row[i] = r /\ \A j \in Items \ {i} : u.row[j] = t.row[j] BY <1>1, <1>7
<1>9. OnlyRow(t, u, i) BY <1>7, <1>8 DEF OnlyRow, In
<1>10. RowOK(u, i, m)
  <2>1. Fits(i, t.row[i], t.worker[i], t.resumer[i], i \in t.resuming)
    BY <1>0 DEF RowOK
  <2>2. t.worker[i] = "idle" BY <1>0, <2>1 DEF RowOK, Fits
  <2>3. Fits(i, u.row[i], u.worker[i], u.resumer[i], i \in u.resuming)
    BY <1>3, <1>7, <1>8, <2>1, <2>2 DEF Fits, Moving
  <2>4. Picked(i, m) BY <1>0 DEF RowOK
  <2>5. i \notin u.resuming /\ u.row[i].st # "uploading" BY <1>3, <1>7, <1>8
  <2>. QED BY <1>7, <2>2, <2>3, <2>4, <2>5 DEF RowOK
<1>11. Settled(u)
  <2>1. u.row[i].st \in Terminal BY <1>3, <1>8 DEF Terminal
  <2>. QED BY <1>0, <1>6, <1>7, <1>9, <2>1, OneSettled
<1>12. Gated(u) BY <1>2, <1>7 DEF Gated
<1>13. Few(u) BY <1>0, <1>6, <1>7, FewerPolls
<1>14. Good(u, m) BY <1>0, <1>6, <1>9, <1>10, <1>11, <1>12, <1>13, OneRow DEF Good
<1>15. \A j \in Items : u.row[j].reproc = t.row[j].reproc BY <1>3, <1>8
<1>. QED BY <1>7, <1>14, <1>15 DEF u, SameFiles

\* The loop of cancelAllPendingHlsReprocess.
LEMMA RebuildEach ==
    ASSUME NEW t, NEW m, Good(t, m), NEW q \in Seq(Items),
           \A n \in DOMAIN q : In(t, q[n]) /\ t.row[q[n]].reproc
    PROVE  Good(Each(CancelRebuild, t, q), m) /\ SameFiles(t, Each(CancelRebuild, t, q))
<1>. DEFINE P(x) == /\ Good(x, m) /\ SameFiles(t, x)
                    /\ \A j \in Items : x.row[j].reproc = t.row[j].reproc
            S == {x \in State : P(x)}
            F == [y \in S \X DOMAIN q |-> CancelRebuild(y[1], q[y[2]])]
            Of(g) == g = [n \in 0..Len(q) |->
                            IF n = 0 THEN t ELSE CancelRebuild(g[n - 1], q[n])]
            k == CHOOSE g : Of(g)
<1>0. Len(q) \in Nat /\ DOMAIN q = 1..Len(q) OBVIOUS
<1>1. \A x \in S, n \in DOMAIN q : F[<<x, n>>] = CancelRebuild(x, q[n]) OBVIOUS
<1>2. t \in S BY DEF Good, Fine, SameFiles
<1>3. ASSUME NEW x \in S, NEW n \in DOMAIN q PROVE CancelRebuild(x, q[n]) \in S
  <2>0. P(x) /\ q[n] \in Items OBVIOUS
  <2>1. In(x, q[n]) /\ x.row[q[n]].reproc BY <2>0 DEF SameFiles, In
  <2>2. /\ Good(CancelRebuild(x, q[n]), m) /\ SameFiles(x, CancelRebuild(x, q[n]))
        /\ \A j \in Items : CancelRebuild(x, q[n]).row[j].reproc = x.row[j].reproc
    BY <2>0, <2>1, CancelRebuildGood
  <2>3. CancelRebuild(x, q[n]) \in State BY <2>2 DEF Good, Fine
  <2>4. SameFiles(t, CancelRebuild(x, q[n])) BY <2>0, <2>2 DEF SameFiles
  <2>5. \A j \in Items : CancelRebuild(x, q[n]).row[j].reproc = t.row[j].reproc
    BY <2>0, <2>2
  <2>. QED BY <2>2, <2>3, <2>4, <2>5
<1>. HIDE DEF S, F
<1>4. Closed(S, Len(q), F) BY <1>0, <1>1, <1>3 DEF Closed
<1>5. Of(k)
  <2>1. PICK g : RunOf(g, S, t, Len(q), F) BY <1>0, <1>2, <1>4, LoopExists
  <2>2. ASSUME NEW n \in 0..Len(q)
        PROVE  g[n] = IF n = 0 THEN t ELSE CancelRebuild(g[n - 1], q[n])
    <3>1. n # 0 => n \in DOMAIN q /\ g[n - 1] \in S BY <1>0, <2>1 DEF RunOf
    <3>. QED BY <1>1, <2>1, <3>1 DEF RunOf
  <2>3. g = [n \in 0..Len(q) |-> g[n]] BY <2>1 DEF RunOf
  <2>4. Of(g) BY <2>2, <2>3
  <2>. QED BY <2>4
<1>6. Each(CancelRebuild, t, q) = k[Len(q)] BY DEF Each
<1>. HIDE DEF k
<1>7. k[0] = t /\ \A n \in 1..Len(q) : k[n - 1] \in S => k[n] = F[<<k[n - 1], n>>]
  <2>1. \A n \in 0..Len(q) : k[n] = IF n = 0 THEN t ELSE CancelRebuild(k[n - 1], q[n])
    BY <1>5
  <2>. QED BY <1>0, <1>1, <2>1
<1>8. \A n \in 0..Len(q) : k[n] \in S BY <1>0, <1>2, <1>4, <1>7, LoopTyped
<1>9. Each(CancelRebuild, t, q) \in S BY <1>0, <1>6, <1>8
<1>. QED BY <1>9 DEF S

-----------------------------------------------------------------------------
(* The variables and the record                                            *)

\* Commit stores the record.
LEMMA Committed ==
    ASSUME NEW t \in State, Commit(t)
    PROVE  Now' = t
<1>1. t = [pipe |-> t.pipe, items |-> t.items, batch |-> t.batch, row |-> t.row,
           userPaused |-> t.userPaused, pump |-> t.pump, worker |-> t.worker,
           phases |-> t.phases, strays |-> t.strays, resumer |-> t.resumer,
           resuming |-> t.resuming, aborted |-> t.aborted, server |-> t.server]
  BY DEF State
<1>2. /\ pipe' = t.pipe /\ items' = t.items /\ batch' = t.batch /\ row' = t.row
      /\ userPaused' = t.userPaused /\ pump' = t.pump /\ worker' = t.worker
      /\ phases' = t.phases /\ strays' = t.strays /\ resumer' = t.resumer
      /\ resuming' = t.resuming /\ aborted' = t.aborted /\ server' = t.server
  BY DEF Commit
<1>. QED BY <1>1, <1>2 DEF Now

\* The fields of the record a handler starts with.
LEMMA NowFields ==
    /\ Now.pipe = pipe /\ Now.items = items /\ Now.batch = batch /\ Now.row = row
    /\ Now.userPaused = userPaused /\ Now.pump = pump /\ Now.worker = worker
    /\ Now.phases = phases /\ Now.strays = strays /\ Now.resumer = resumer
    /\ Now.resuming = resuming /\ Now.aborted = aborted /\ Now.server = server
BY DEF Now

\* The counters have their ranges.
Counts ==
    /\ tries \in [Items -> 0..MaxRetries] /\ bulk \in {"none", "all", "rebuilds"}
    /\ made \in 0..Cardinality(Uploads) /\ tracked \in 0..MaxRows

\* The inductive invariant of the tray.
TrayInv == Good(Now, Counters) /\ Counts

\* The polls a step starts are of rows with no poll on its way.
Unpolled == \A i \in Items : i \in resuming' \ resuming => resumer[i] = "none"

-----------------------------------------------------------------------------
(* The steps                                                               *)

\* What every step does.
Keeps == TrayInv' /\ Unpolled

\* The counters after the step, with the polls forgotten before it.
Later == [made |-> made', tries |-> tries', forgotten |-> Forgotten]

\* A good record is good at the start of the next handler, too, and the polls it
\* has were not forgotten before.
LEMMA Renewed ==
    ASSUME NEW t, Now' = t, Good(t, Later)
    PROVE  Good(Now', Counters') /\ Unpolled
<1>1. t \in State /\ Fine(t, Later) /\ \A i \in Items : RowOK(t, i, Later)
  BY DEF Good, Fine
<1>2. resumer' = t.resumer /\ resuming' = t.resuming BY DEF Now
<1>3. /\ Later.made = made' /\ Later.tries = tries' /\ Later.forgotten = Forgotten
      /\ Counters'.made = made' /\ Counters'.tries = tries'
      /\ Counters'.forgotten = {i \in Items : t.resumer[i] # "none" /\ i \notin t.resuming}
  BY <1>2 DEF Later, Counters, Forgotten
<1>4. ASSUME NEW i \in Items PROVE RowOK(t, i, Counters')
  <2>1. RowOK(t, i, Later) BY <1>1
  <2>2. Picked(i, Later) <=> Picked(i, Counters') BY <1>3 DEF Picked
  <2>3. i \in Counters'.forgotten =>
          /\ i \notin t.resuming
          /\ In(t, i) => ~(t.row[i].st = "uploading" /\ t.row[i].fileId)
    BY <1>3, <2>1 DEF RowOK, Fits
  <2>. QED BY <1>3, <2>1, <2>2, <2>3 DEF RowOK
<1>5. Good(t, Counters') BY <1>1, <1>4 DEF Good, Fine
<1>6. ASSUME NEW i \in Items, i \in resuming' \ resuming PROVE resumer[i] = "none"
  <2>1. RowOK(t, i, Later) /\ i \in t.resuming BY <1>1, <1>2, <1>6
  <2>2. i \notin Forgotten BY <1>3, <2>1 DEF RowOK
  <2>. QED BY <1>6, <2>2 DEF Forgotten
<1>. QED BY <1>5, <1>6 DEF Unpolled

\* A handler that ends with a good record.
LEMMA Stored ==
    ASSUME NEW t, TrayInv, Commit(t), Good(t, Later), Counts'
    PROVE  Keeps
<1>1. t \in State BY DEF Good, Fine
<1>2. Now' = t BY <1>1, Committed
<1>. QED BY <1>2, Renewed DEF Keeps, TrayInv

\* The same for a handler that counts nothing.
LEMMA StoredSame ==
    ASSUME NEW t, TrayInv, Commit(t), Good(t, Counters),
           UNCHANGED <<tries, made, tracked>>, bulk' \in {bulk, "none"}
    PROVE  Keeps
<1>1. Later = Counters BY DEF Counters, Later
<1>2. Counts' BY DEF TrayInv, Counts
<1>3. Good(t, Later) BY <1>1
<1>. QED BY <1>2, <1>3, Stored

\* What the invariant says of that record.
LEMMA NowGood ==
    ASSUME TrayInv
    PROVE  /\ Now \in State /\ Good(Now, Counters) /\ Fine(Now, Counters) /\ Gated(Now)
           /\ Settled(Now) /\ Few(Now) /\ \A i \in Items : RowOK(Now, i, Counters)
           /\ Counters.made = made /\ Counters.tries = tries /\ Counters.forgotten = Forgotten
BY DEF TrayInv, Good, Fine, Counters

\* A change of one row and its coroutines.
LEMMA AtRow ==
    ASSUME NEW t, NEW u, NEW m, NEW i \in Items, Good(t, m), u \in State, Gated(u),
           Picked(i, m), OnlyRow(t, u, i), u.resuming \subseteq t.resuming,
           u.worker[i] = "backoff" => m.tries[i] < MaxRetries,
           i \in Rebuild => u.worker[i] = "idle",
           In(u, i) => Fits(i, u.row[i], u.worker[i], u.resumer[i], i \in u.resuming),
           i \in m.forgotten /\ In(u, i) => ~(u.row[i].st = "uploading" /\ u.row[i].fileId),
           u.batch = "complete" =>
             t.batch = "complete" /\ (In(u, i) => u.row[i].st \in Terminal)
    PROVE  Good(u, m)
<1>1. t \in State /\ Fine(t, m) /\ Few(t) /\ RowOK(t, i, m) BY DEF Good, Fine
<1>2. RowOK(u, i, m) BY <1>1 DEF RowOK
<1>3. Settled(u) BY <1>1, OneSettled
<1>4. Few(u) BY <1>1, FewerPolls
<1>. QED BY <1>1, <1>2, <1>3, <1>4, OneRow DEF Good

\* What the invariant says of row i.
LEMMA NowRow ==
    ASSUME TrayInv, NEW i \in Items
    PROVE  /\ row \in [Items -> Row] /\ row[i] \in Row
           /\ worker \in [Items -> Workers] /\ worker[i] \in Workers
           /\ resumer \in [Items -> Resumers] /\ phases \in [Items -> PhasePcs]
           /\ server \in [Items -> Servers] /\ items \in Seq(Items)
           /\ pipe \in [Stages -> Gate]
           /\ worker[i] = "backoff" => tries[i] < MaxRetries
           /\ i \in Rebuild => worker[i] = "idle"
           /\ i \in Ids(items) =>
                Fits(i, row[i], worker[i], resumer[i], i \in resuming)
           /\ \/ i \in Ids(items) \/ worker[i] # "idle" \/ resumer[i] # "none"
              \/ i \in resuming
              => Picked(i, Counters)
           /\ batch = "complete" => (i \in Ids(items) => row[i].st \in Terminal)
           /\ \A s \in Stages : GateInv(pipe[s])
<1>1. /\ RowOK(Now, i, Counters) /\ Now \in State /\ Settled(Now) /\ Gated(Now)
      /\ Counters.tries = tries
  BY NowGood
<1>2. /\ row \in [Items -> Row] /\ worker \in [Items -> Workers]
      /\ resumer \in [Items -> Resumers] /\ phases \in [Items -> PhasePcs]
      /\ server \in [Items -> Servers] /\ items \in Seq(Items) /\ pipe \in [Stages -> Gate]
  BY <1>1, StateFields, NowFields
<1>3. row[i] \in Row /\ worker[i] \in Workers BY <1>2
<1>4. In(Now, i) <=> i \in Ids(items) BY NowFields DEF In
<1>5. \A s \in Stages : GateInv(pipe[s]) BY <1>1, NowFields DEF Gated
<1>. QED BY <1>1, <1>2, <1>3, <1>4, <1>5, NowFields DEF RowOK, Settled

\* A handler changes a row that has a worker or is in the batch.
LEMMA OwnRow ==
    ASSUME TrayInv, NEW u, NEW i \in Items, u \in State, Gated(u),
           Picked(i, Counters), OnlyRow(Now, u, i), u.resuming \subseteq resuming,
           u.worker[i] = "backoff" => tries[i] < MaxRetries,
           i \in Rebuild => u.worker[i] = "idle",
           In(u, i) => Fits(i, u.row[i], u.worker[i], u.resumer[i], i \in u.resuming),
           In(u, i) /\ u.resumer[i] = "none" /\ resumer[i] # "none"
             => u.row[i].st # "uploading",
           u.batch = "complete" =>
             batch = "complete" /\ (In(u, i) => u.row[i].st \in Terminal)
    PROVE  Good(u, Counters)
<1>1. Good(Now, Counters) /\ Counters.tries = tries /\ Counters.forgotten = Forgotten
  BY NowGood
<1>2. Now.resuming = resuming /\ Now.batch = batch BY NowFields
<1>3. u.worker[i] = "backoff" => Counters.tries[i] < MaxRetries BY <1>1
<1>4. u.resuming \subseteq Now.resuming BY <1>2
<1>5. u.batch = "complete" =>
        Now.batch = "complete" /\ (In(u, i) => u.row[i].st \in Terminal)
  BY <1>2
<1>6. i \in Counters.forgotten /\ In(u, i)
        => ~(u.row[i].st = "uploading" /\ u.row[i].fileId)
  BY <1>1 DEF Forgotten, Fits
<1>. QED BY <1>1, <1>3, <1>4, <1>5, <1>6, AtRow

\* setUploadBatchPaused.
LEMMA SetUploadBatchPausedKeeps ==
    ASSUME TrayInv, SetUploadBatchPaused
    PROVE  Keeps
<1>. DEFINE u == [Now EXCEPT !.userPaused = ~@]
<1>1. u \in State BY NowGood DEF State
<1>2. SameRows(Now, u) /\ u.pipe = Now.pipe /\ u.batch = Now.batch
  BY NowGood DEF State, SameRows
<1>3. Gated(u) BY <1>2, NowGood DEF Gated
<1>4. Commit(PumpUpload(u)) /\ UNCHANGED <<tries, bulk, made, tracked>>
  BY DEF SetUploadBatchPaused
<1>. HIDE DEF u
<1>5. Good(u, Counters) BY <1>1, <1>2, <1>3, NowGood, Alike
<1>6. Good(PumpUpload(u), Counters)
  BY <1>2, <1>5, PumpUploadGood, NowFields DEF SameRows
<1>. QED BY <1>4, <1>6, StoredSame

\* setUploadItemPaused: the row stays queued.
LEMMA SetUploadItemPausedKeeps ==
    ASSUME TrayInv, NEW i \in Items, SetUploadItemPaused(i)
    PROVE  Keeps
<1>. DEFINE u == [Now EXCEPT !.row[i].paused = ~@]
            r == [row[i] EXCEPT !.paused = ~@]
            v == IF row[i].paused THEN PumpUpload(u) ELSE u
<1>1. /\ row \in [Items -> Row] /\ row[i] \in Row /\ i \in Ids(items)
      /\ Fits(i, row[i], worker[i], resumer[i], i \in resuming)
      /\ Picked(i, Counters)
      /\ (worker[i] = "backoff" => tries[i] < MaxRetries)
      /\ (i \in Rebuild => worker[i] = "idle")
      /\ (batch = "complete" => row[i].st \in Terminal)
  BY NowRow DEF SetUploadItemPaused
<1>2. /\ r \in Row /\ r.st = row[i].st /\ r.local = row[i].local /\ r.fileId = row[i].fileId
      /\ r.reselect = row[i].reselect /\ r.reproc = row[i].reproc /\ r.sess = row[i].sess
  BY <1>1 DEF Row
<1>3. u = [Now EXCEPT !.row = [row EXCEPT ![i] = r]] BY NowGood, NowFields DEF State
<1>4. [row EXCEPT ![i] = r] \in [Items -> Row] BY <1>1, <1>2
<1>. HIDE DEF u, r
<1>5. u \in State BY <1>3, <1>4, NowGood DEF State
<1>6. /\ u.row = [row EXCEPT ![i] = r] /\ u.items = items /\ u.worker = worker
      /\ u.resumer = resumer /\ u.resuming = resuming
      /\ u.batch = batch /\ u.pipe = pipe
  BY <1>3, NowGood, NowFields DEF State
<1>7. u.row[i] = r /\ \A j \in Items \ {i} : u.row[j] = row[j] BY <1>1, <1>6
<1>8. OnlyRow(Now, u, i) BY <1>6, <1>7, NowFields DEF OnlyRow, In
<1>9. Gated(u) BY <1>6, NowGood, NowFields DEF Gated
<1>10. Fits(i, u.row[i], u.worker[i], u.resumer[i], i \in u.resuming)
  BY <1>1, <1>2, <1>6, <1>7 DEF Fits
<1>11. u.batch = "complete" => batch = "complete" /\ u.row[i].st \in Terminal
  BY <1>1, <1>2, <1>6, <1>7
<1>12. Good(u, Counters) BY <1>1, <1>5, <1>6, <1>8, <1>9, <1>10, <1>11, OwnRow
<1>13. Good(v, Counters) BY <1>6, <1>12, PumpUploadGood DEF SameRows
<1>14. Commit(v) /\ UNCHANGED <<tries, bulk, made, tracked>>
  BY DEF SetUploadItemPaused, u
<1>. HIDE DEF v
<1>. QED BY <1>13, <1>14, StoredSame

\* What differs is row i and its coroutines.
Mine(u, i) ==
    /\ u.items = items /\ u.resuming \in {resuming, resuming \ {i}}
    /\ \A j \in Items \ {i} :
         /\ u.row[j] = row[j] /\ u.worker[j] = worker[j]
         /\ u.resumer[j] = resumer[j]

\* The row after a handler fits its coroutines.
Proper(u, i) ==
    /\ Picked(i, Counters)
    /\ \A s \in Stages : GateInv(u.pipe[s])
    /\ u.worker[i] = "backoff" => tries[i] < MaxRetries
    /\ i \in Rebuild => u.worker[i] = "idle"
    /\ i \in Ids(items) =>
         /\ Fits(i, u.row[i], u.worker[i], u.resumer[i], i \in u.resuming)
         /\ u.batch = "complete" => u.row[i].st \in Terminal
         /\ u.resumer[i] = "none" /\ resumer[i] # "none" => u.row[i].st # "uploading"
    /\ u.batch = "complete" => batch = "complete"

\* A handler of row i that leaves the row and its coroutines proper.
LEMMA MineGood ==
    ASSUME TrayInv, NEW u \in State, NEW i \in Items, Mine(u, i), Proper(u, i)
    PROVE  Good(u, Counters)
<1>1. OnlyRow(Now, u, i) BY NowFields DEF OnlyRow, Mine, In
<1>2. Gated(u) BY DEF Gated, Proper
<1>3. In(u, i) <=> i \in Ids(items) BY DEF In, Mine
<1>4. u.resuming \subseteq resuming BY DEF Mine
<1>5. /\ Picked(i, Counters) /\ (u.worker[i] = "backoff" => tries[i] < MaxRetries)
      /\ (i \in Rebuild => u.worker[i] = "idle")
  BY DEF Proper
<1>6. In(u, i) => Fits(i, u.row[i], u.worker[i], u.resumer[i], i \in u.resuming)
  BY <1>3 DEF Proper
<1>7. /\ In(u, i) /\ u.resumer[i] = "none" /\ resumer[i] # "none"
           => u.row[i].st # "uploading"
      /\ u.batch = "complete" =>
           batch = "complete" /\ (In(u, i) => u.row[i].st \in Terminal)
  BY <1>3 DEF Proper
<1>. QED BY <1>1, <1>2, <1>4, <1>5, <1>6, <1>7, OwnRow

\* A step that leads to a good record.
LEMMA Reached ==
    ASSUME NEW t, TrayInv, Now' = t, Good(t, Counters),
           UNCHANGED <<tries, made, tracked>>, bulk' \in {"none", "all", "rebuilds"}
    PROVE  Keeps
<1>1. Later = Counters BY DEF Counters, Later
<1>2. Counts' BY DEF TrayInv, Counts
<1>3. Good(t, Later) BY <1>1
<1>. QED BY <1>2, <1>3, Renewed DEF Keeps, TrayInv

\* uploadFileWithProgress opens its session.
LEMMA StartTransferKeeps ==
    ASSUME TrayInv, NEW i \in Items, StartTransfer(i)
    PROVE  Keeps
<1>. DEFINE u == [Now EXCEPT !.worker = [worker EXCEPT ![i] = "bytes"]]
<1>1. /\ row \in [Items -> Row] /\ worker \in [Items -> Workers]
      /\ resumer \in [Items -> Resumers]
      /\ worker[i] = "wait" /\ Picked(i, Counters) /\ i \notin Rebuild
      /\ (i \in Ids(items) => Fits(i, row[i], worker[i], resumer[i], i \in resuming))
      /\ (batch = "complete" => (i \in Ids(items) => row[i].st \in Terminal))
  BY NowRow DEF StartTransfer
<1>2. u \in State
  <2>1. [worker EXCEPT ![i] = "bytes"] \in [Items -> Workers] BY <1>1 DEF Workers
  <2>. QED BY <2>1, NowGood DEF State
<1>3. /\ u.worker = [worker EXCEPT ![i] = "bytes"] /\ u.items = items /\ u.row = row
      /\ u.resumer = resumer /\ u.resuming = resuming
      /\ u.batch = batch /\ u.pipe = pipe
  BY NowGood, NowFields DEF State
<1>4. Now' = u BY DEF StartTransfer, Now
<1>. HIDE DEF u
<1>5. Mine(u, i) BY <1>1, <1>3 DEF Mine
<1>6. u.worker[i] = "bytes" BY <1>1, <1>3
<1>7. Proper(u, i)
  <2>1. i \in Ids(items) => Fits(i, row[i], "bytes", resumer[i], i \in resuming)
    BY <1>1 DEF Fits, Moving
  <2>. QED BY <1>1, <1>3, <1>6, <2>1, NowRow DEF Proper
<1>8. Good(u, Counters) BY <1>2, <1>5, <1>7, MineGood
<1>. QED BY <1>3, <1>4, <1>8, Reached DEF StartTransfer, TrayInv, Counts

\* The tray with other gates, another phases coroutine of row i and other strays.
Scene(i, p, f, x) ==
    [pipe |-> p, items |-> items, batch |-> batch, row |-> row,
     userPaused |-> userPaused, pump |-> pump, worker |-> worker,
     phases |-> [phases EXCEPT ![i] = f], strays |-> x, resumer |-> resumer,
     resuming |-> resuming, aborted |-> aborted, server |-> server]

\* A handler that touches no more than the gates and the phases coroutines.
LEMMA SceneryKeeps ==
    ASSUME TrayInv, NEW i \in Items, NEW p \in [Stages -> Gate],
           \A s \in Stages : GateInv(p[s]), NEW f \in PhasePcs, NEW x \in SUBSET Items,
           Commit(Scene(i, p, f, x)),
           UNCHANGED <<tries, bulk, made, tracked>>
    PROVE  Keeps
<1>. DEFINE u == Scene(i, p, f, x)
<1>1. Now \in State /\ Good(Now, Counters) BY NowGood
<1>2. [phases EXCEPT ![i] = f] \in [Items -> PhasePcs] BY <1>1, StateFields, NowFields
<1>3. u \in State BY <1>1, <1>2 DEF Now, Scene, State
<1>4. SameRows(Now, u) /\ u.pipe = p /\ u.batch = Now.batch
  BY DEF Now, Scene, SameRows
<1>. HIDE DEF u
<1>5. Gated(u) BY <1>4 DEF Gated
<1>6. Good(u, Counters) BY <1>1, <1>3, <1>4, <1>5, Alike
<1>7. Commit(u) BY DEF u
<1>. QED BY <1>6, <1>7, StoredSame

\* A continuation that runs leaves the gates sound.
LEMMA ResumeGates ==
    ASSUME TrayInv, NEW i, NEW s \in Stages, NEW who
    PROVE  /\ Resume(pipe, i, s, who) \in [Stages -> Gate]
           /\ \A o \in Stages : GateInv(Resume(pipe, i, s, who)[o])
<1>. DEFINE p == Resume(pipe, i, s, who)
<1>0. pipe \in [Stages -> Gate] /\ \A o \in Stages : GateInv(pipe[o])
  BY NowGood, StateFields, NowFields DEF Gated
<1>1. p = [pipe EXCEPT ![s].woken = @ \ {<<i, who>>}] BY DEF Resume
<1>2. p \in [Stages -> Gate]
  <2>1. pipe[s] \in Gate BY <1>0
  <2>2. [pipe[s] EXCEPT !.woken = @ \ {<<i, who>>}] \in Gate BY <2>1 DEF Gate
  <2>3. p = [pipe EXCEPT ![s] = [pipe[s] EXCEPT !.woken = @ \ {<<i, who>>}]]
    BY <1>0, <1>1
  <2>. HIDE DEF p
  <2>. QED BY <1>0, <2>2, <2>3
<1>3. ASSUME NEW o \in Stages PROVE GateInv(p[o])
  <2>1. /\ p[o].slots = pipe[o].slots /\ p[o].queue = pipe[o].queue
        /\ p[o].resolver = pipe[o].resolver
    BY <1>0, <1>1 DEF Gate
  <2>. HIDE DEF p
  <2>. QED BY <1>0, <2>1 DEF GateInv, SlotsBounded, NoIdleSlot, QueueExact, ResolverExact
<1>. QED BY <1>2, <1>3

\* A stage the tray asks for leaves the gates sound.
LEMMA AcquireNow ==
    ASSUME TrayInv, NEW i \in Items, NEW s \in Stages,
           NEW who \in {"display", "phases", "resume"}
    PROVE  /\ AcquireStage(pipe, i, s, who) \in [Stages -> Gate]
           /\ \A o \in Stages : GateInv(AcquireStage(pipe, i, s, who)[o])
<1>1. Now \in State /\ Gated(Now) /\ Now.pipe = pipe BY NowGood, NowFields
<1>2. /\ AcquireStage(Now.pipe, i, s, who) \in [Stages -> Gate]
      /\ \A o \in Stages : GateInv(AcquireStage(Now.pipe, i, s, who)[o])
  BY <1>1, AcquireGood
<1>. QED BY <1>1, <1>2

\* The gates after the bar of row i was drawn.
Shown(i, s) ==
    IF i \in aborted \/ ~Live(Now, i) THEN pipe ELSE AcquireStage(pipe, i, s, "display")

\* A progress bar that is drawn leaves the gates sound.
LEMMA ShownSound ==
    ASSUME TrayInv, NEW i \in Items, NEW s \in Stages
    PROVE  /\ Shown(i, s) \in [Stages -> Gate] /\ \A o \in Stages : GateInv(Shown(i, s)[o])
           /\ ShowProgress(Now, i, s) = [Now EXCEPT !.pipe = Shown(i, s)]
<1>1. pipe \in [Stages -> Gate] /\ \A o \in Stages : GateInv(pipe[o]) BY NowRow
<1>2. /\ AcquireStage(pipe, i, s, "display") \in [Stages -> Gate]
      /\ \A o \in Stages : GateInv(AcquireStage(pipe, i, s, "display")[o])
  BY AcquireNow
<1>3. ShowProgress(Now, i, s) = [Now EXCEPT !.pipe = Shown(i, s)]
  <2>1. Now.aborted = aborted /\ Now.pipe = pipe BY NowFields
  <2>2. [Now EXCEPT !.pipe = pipe] = Now BY DEF Now
  <2>3. CASE i \in aborted \/ ~Live(Now, i) BY <2>1, <2>2, <2>3 DEF ShowProgress, Shown
  <2>4. CASE ~(i \in aborted \/ ~Live(Now, i)) BY <2>1, <2>4 DEF ShowProgress, Shown
  <2>. QED BY <2>3, <2>4
<1>. QED BY <1>1, <1>2, <1>3 DEF Shown

\* The scene of a handler that changes no more than gates and phases.
LEMMA SceneOf ==
    ASSUME NEW i, NEW p, NEW f
    PROVE  [Now EXCEPT !.phases[i] = f, !.pipe = p] = Scene(i, p, f, strays)
<1>1. [Now EXCEPT !.phases[i] = f] = Scene(i, pipe, f, strays) BY DEF Now, Scene
<1>2. [Scene(i, pipe, f, strays) EXCEPT !.pipe = p] = Scene(i, p, f, strays) BY DEF Scene
<1>. QED BY <1>1, <1>2

\* The phases coroutines, the strays and a poll that is not the last.
LEMMA PhaseKeeps ==
    ASSUME TrayInv, NEW i \in Items,
           \/ PhaseEntered(i) \/ PhaseBeat(i) \/ PhasePainted(i) \/ PhaseStoring(i)
           \/ StrayPainted(i) \/ \E s \in Stages : PollProgress(i, s)
    PROVE  Keeps
<1>0. /\ "processing" \in Stages /\ "storing" \in Stages
      /\ "proc" \in PhasePcs /\ "paint" \in PhasePcs /\ "store" \in PhasePcs
      /\ "waitStore" \in PhasePcs
  BY DEF Stages, PhasePcs
<1>1. Now \in State /\ strays \in SUBSET Items /\ phases \in [Items -> PhasePcs]
  BY NowGood, NowFields, StateFields
<1>2. phases[i] \in PhasePcs BY <1>1
<1>3. CASE PhaseEntered(i)
  <2>. DEFINE p == Resume(pipe, i, "processing", "phases")
  <2>1. [Now EXCEPT !.phases[i] = "proc", !.pipe = Resume(@, i, "processing", "phases")]
        = Scene(i, p, "proc", strays)
    <3>1. [Now EXCEPT !.phases[i] = "proc", !.pipe = Resume(@, i, "processing", "phases")]
          = [Now EXCEPT !.phases[i] = "proc", !.pipe = p]
      BY NowFields
    <3>. HIDE DEF p
    <3>2. [Now EXCEPT !.phases[i] = "proc", !.pipe = p] = Scene(i, p, "proc", strays)
      BY SceneOf
    <3>. QED BY <3>1, <3>2
  <2>2. /\ Commit(Scene(i, p, "proc", strays))
        /\ UNCHANGED <<tries, bulk, made, tracked>>
    BY <1>3, <2>1 DEF PhaseEntered
  <2>3. p \in [Stages -> Gate] /\ \A s \in Stages : GateInv(p[s]) BY <1>0, ResumeGates
  <2>. HIDE DEF p
  <2>. QED BY <1>0, <1>1, <2>2, <2>3, SceneryKeeps
<1>4. CASE PhaseStoring(i)
  <2>. DEFINE p == Resume(pipe, i, "storing", "phases")
  <2>1. [Now EXCEPT !.phases[i] = "store", !.pipe = Resume(@, i, "storing", "phases")]
        = Scene(i, p, "store", strays)
    <3>1. [Now EXCEPT !.phases[i] = "store", !.pipe = Resume(@, i, "storing", "phases")]
          = [Now EXCEPT !.phases[i] = "store", !.pipe = p]
      BY NowFields
    <3>. HIDE DEF p
    <3>2. [Now EXCEPT !.phases[i] = "store", !.pipe = p] = Scene(i, p, "store", strays)
      BY SceneOf
    <3>. QED BY <3>1, <3>2
  <2>2. /\ Commit(Scene(i, p, "store", strays))
        /\ UNCHANGED <<tries, bulk, made, tracked>>
    BY <1>4, <2>1 DEF PhaseStoring
  <2>3. p \in [Stages -> Gate] /\ \A s \in Stages : GateInv(p[s]) BY <1>0, ResumeGates
  <2>. HIDE DEF p
  <2>. QED BY <1>0, <1>1, <2>2, <2>3, SceneryKeeps
<1>5. CASE PhaseBeat(i)
  <2>. DEFINE p == Shown(i, "processing")
  <2>1. [ShowProgress(Now, i, "processing") EXCEPT !.phases[i] = "paint"]
        = Scene(i, p, "paint", strays)
    <3>1. ShowProgress(Now, i, "processing") = [Now EXCEPT !.pipe = p]
      BY <1>0, ShownSound
    <3>. HIDE DEF p
    <3>. QED BY <3>1 DEF Now, Scene
  <2>2. /\ Commit(Scene(i, p, "paint", strays))
        /\ UNCHANGED <<tries, bulk, made, tracked>>
    BY <1>5, <2>1 DEF PhaseBeat
  <2>3. p \in [Stages -> Gate] /\ \A s \in Stages : GateInv(p[s]) BY <1>0, ShownSound
  <2>. HIDE DEF p
  <2>. QED BY <1>0, <1>1, <2>2, <2>3, SceneryKeeps
<1>6. CASE PhasePainted(i)
  <2>. DEFINE p == AcquireStage(pipe, i, "storing", "phases")
              f == IF CanOccupy(pipe["storing"], i) THEN "store" ELSE "waitStore"
  <2>1. [Now EXCEPT !.phases[i] = f, !.pipe = AcquireStage(@, i, "storing", "phases")]
        = Scene(i, p, f, strays)
    <3>1. [Now EXCEPT !.phases[i] = f, !.pipe = AcquireStage(@, i, "storing", "phases")]
          = [Now EXCEPT !.phases[i] = f, !.pipe = p]
      BY NowFields
    <3>. HIDE DEF p, f
    <3>2. [Now EXCEPT !.phases[i] = f, !.pipe = p] = Scene(i, p, f, strays)
      BY SceneOf
    <3>. QED BY <3>1, <3>2
  <2>2. /\ Commit(Scene(i, p, f, strays))
        /\ UNCHANGED <<tries, bulk, made, tracked>>
    BY <1>6, <2>1 DEF PhasePainted
  <2>3. p \in [Stages -> Gate] /\ \A s \in Stages : GateInv(p[s]) BY <1>0, AcquireNow
  <2>4. f \in PhasePcs BY <1>0
  <2>. HIDE DEF p, f
  <2>. QED BY <1>1, <2>2, <2>3, <2>4, SceneryKeeps
<1>7. CASE StrayPainted(i)
  <2>. DEFINE p == AcquireStage(pipe, i, "storing", "display")
              x == strays \ {i}
  <2>1. [Now EXCEPT !.strays = @ \ {i}, !.pipe = AcquireStage(@, i, "storing", "display")]
        = Scene(i, p, phases[i], x)
    <3>1. [Now EXCEPT !.strays = @ \ {i}, !.pipe = AcquireStage(@, i, "storing", "display")]
          = [Now EXCEPT !.strays = x, !.pipe = p]
      BY NowFields
    <3>. HIDE DEF p, x
    <3>2. [Now EXCEPT !.strays = x] = Scene(i, pipe, phases[i], x)
      BY <1>1 DEF Now, Scene
    <3>3. [Scene(i, pipe, phases[i], x) EXCEPT !.pipe = p] = Scene(i, p, phases[i], x)
      BY DEF Scene
    <3>. QED BY <3>1, <3>2, <3>3
  <2>2. /\ Commit(Scene(i, p, phases[i], x))
        /\ UNCHANGED <<tries, bulk, made, tracked>>
    BY <1>7, <2>1 DEF StrayPainted
  <2>3. p \in [Stages -> Gate] /\ \A s \in Stages : GateInv(p[s]) BY <1>0, AcquireNow
  <2>4. x \in SUBSET Items BY <1>1
  <2>. HIDE DEF p, x
  <2>. QED BY <1>2, <2>2, <2>3, <2>4, SceneryKeeps
<1>8. ASSUME NEW s \in Stages, PollProgress(i, s) PROVE Keeps
  <2>. DEFINE p == Shown(i, s)
  <2>1. ShowProgress(Now, i, s)
        = Scene(i, p, phases[i], strays)
    <3>1. ShowProgress(Now, i, s) = [Now EXCEPT !.pipe = p] BY ShownSound
    <3>. HIDE DEF p
    <3>. QED BY <1>1, <3>1 DEF Now, Scene
  <2>2. /\ Commit(Scene(i, p, phases[i], strays))
        /\ UNCHANGED <<tries, bulk, made, tracked>>
    BY <1>8, <2>1 DEF PollProgress
  <2>3. p \in [Stages -> Gate] /\ \A o \in Stages : GateInv(p[o]) BY ShownSound
  <2>. HIDE DEF p
  <2>. QED BY <1>1, <1>2, <2>2, <2>3, SceneryKeeps
<1>. QED BY <1>3, <1>4, <1>5, <1>6, <1>7, <1>8

-----------------------------------------------------------------------------
(* The worker and the poll of a row                                        *)

\* r is q but for its status and its pause.
Likewise(r, q) ==
    /\ r.local = q.local /\ r.fileId = q.fileId /\ r.sess = q.sess
    /\ r.reselect = q.reselect /\ r.reproc = q.reproc

\* A new status changes the status only.
LEMMA MarkFields ==
    ASSUME NEW t \in State, NEW i \in Items, NEW st \in {"uploading"} \cup Terminal
    PROVE  /\ Mark(t, i, st) \in State
           /\ Likewise(Mark(t, i, st).row[i], t.row[i])
           /\ In(t, i) => Mark(t, i, st).row[i].st = st
           /\ \A j \in Items \ {i} : Mark(t, i, st).row[j] = t.row[j]
           /\ Mark(t, i, st).pipe = t.pipe /\ Mark(t, i, st).items = t.items
           /\ Mark(t, i, st).batch = t.batch /\ Mark(t, i, st).worker = t.worker
           /\ Mark(t, i, st).resumer = t.resumer /\ Mark(t, i, st).resuming = t.resuming
<1>. DEFINE r == [t.row[i] EXCEPT !.st = st]
            u == [t EXCEPT !.row = [t.row EXCEPT ![i] = r]]
<1>1. t.row \in [Items -> Row] /\ t.row[i] \in Row BY StateFields
<1>2. r \in Row /\ Likewise(r, t.row[i]) /\ r.st = st BY <1>1 DEF Row, Likewise
<1>3. CASE In(t, i)
  <2>1. Mark(t, i, st) = u BY <1>3 DEF Mark, State
  <2>2. [t.row EXCEPT ![i] = r] \in [Items -> Row] BY <1>1, <1>2
  <2>. HIDE DEF r
  <2>3. u \in State BY <2>2 DEF State
  <2>4. /\ u.row = [t.row EXCEPT ![i] = r] /\ u.pipe = t.pipe /\ u.items = t.items
        /\ u.batch = t.batch /\ u.worker = t.worker /\ u.resumer = t.resumer
        /\ u.resuming = t.resuming
    BY DEF State
  <2>. HIDE DEF u
  <2>5. u.row[i] = r /\ \A j \in Items \ {i} : u.row[j] = t.row[j] BY <1>1, <2>4
  <2>. QED BY <1>2, <2>1, <2>3, <2>4, <2>5
<1>4. CASE ~In(t, i)
  <2>1. Mark(t, i, st) = t BY <1>4 DEF Mark
  <2>. QED BY <1>4, <2>1 DEF Likewise
<1>. QED BY <1>3, <1>4

\* onResumableSessionReady: the row remembers its session.
LEMMA SessionReadyKeeps ==
    ASSUME TrayInv, NEW i \in Items, SessionReady(i)
    PROVE  Keeps
<1>. DEFINE r == [row[i] EXCEPT !.sess = TRUE]
            u == [Now EXCEPT !.row = [row EXCEPT ![i] = r]]
<1>1. /\ row \in [Items -> Row] /\ row[i] \in Row
      /\ worker[i] = "bytes" /\ Picked(i, Counters) /\ i \notin Rebuild
      /\ Fits(i, row[i], worker[i], resumer[i], i \in resuming)
      /\ (batch = "complete" => row[i].st \in Terminal)
      /\ i \in Uploads
  BY NowRow, RowsAssumption DEF SessionReady
<1>2. /\ r \in Row /\ r.st = row[i].st /\ r.local = row[i].local
      /\ r.fileId = row[i].fileId /\ r.reselect = row[i].reselect /\ r.reproc = row[i].reproc
  BY <1>1 DEF Row
<1>3. [row EXCEPT ![i] = r] \in [Items -> Row] BY <1>1, <1>2
<1>4. Now' = u
  <2>1. /\ row' = [row EXCEPT ![i] = r]
        /\ UNCHANGED <<pipe, items, batch, userPaused, pump, worker, tries, phases,
                       strays, resumer, resuming, aborted, server, bulk, made, tracked>>
    BY <1>1 DEF SessionReady
  <2>. HIDE DEF r
  <2>. QED BY <2>1 DEF Now
<1>. HIDE DEF r
<1>5. u \in State BY <1>3, NowGood DEF State
<1>6. /\ u.row = [row EXCEPT ![i] = r] /\ u.items = items /\ u.worker = worker
      /\ u.resumer = resumer /\ u.resuming = resuming
      /\ u.batch = batch /\ u.pipe = pipe
  BY NowGood, NowFields DEF State
<1>. HIDE DEF u
<1>7. u.row[i] = r BY <1>1, <1>6
<1>8. Mine(u, i) BY <1>1, <1>6 DEF Mine
<1>9. Fits(i, r, worker[i], resumer[i], i \in resuming) BY <1>1, <1>2 DEF Fits
<1>10. Proper(u, i) BY <1>1, <1>2, <1>6, <1>7, <1>9, NowRow DEF Proper
<1>11. Good(u, Counters) BY <1>5, <1>8, <1>10, MineGood
<1>. QED BY <1>4, <1>6, <1>11, Reached DEF SessionReady, TrayInv, Counts

\* The server stores the file: the tray does not know it yet.
LEMMA ServerStoresKeeps ==
    ASSUME TrayInv, NEW i \in Items, ServerStores(i)
    PROVE  Keeps
<1>. DEFINE S == [server EXCEPT ![i] = "stored"]
            u == [Now EXCEPT !.server = S]
<1>1. Now' = u BY DEF ServerStores, Now
<1>2. S \in [Items -> Servers] BY NowRow DEF Servers
<1>. HIDE DEF S
<1>3. u \in State BY <1>2, NowGood DEF State
<1>4. SameRows(Now, u) /\ u.pipe = Now.pipe /\ u.batch = Now.batch
  BY NowGood DEF State, SameRows
<1>. HIDE DEF u
<1>5. Gated(u) BY <1>4, NowGood DEF Gated
<1>6. Good(u, Counters) BY <1>3, <1>4, <1>5, NowGood, Alike
<1>. QED BY <1>1, <1>6, Reached DEF ServerStores, TrayInv, Counts

\* reattachUploadFile: the row has its File again and no worker.
LEMMA ReattachUploadFileKeeps ==
    ASSUME TrayInv, NEW i \in Items, ReattachUploadFile(i)
    PROVE  Keeps
<1>. DEFINE r == [row[i] EXCEPT !.local = TRUE, !.st = "uploading", !.reselect = FALSE]
            u == [Now EXCEPT !.row = [row EXCEPT ![i] = r], !.batch = "uploading"]
<1>1. /\ row \in [Items -> Row] /\ row[i] \in Row /\ Picked(i, Counters)
      /\ Fits(i, row[i], worker[i], resumer[i], i \in resuming)
      /\ i \in Ids(items) /\ row[i].reselect /\ row[i].sess
      /\ (i \in Rebuild => worker[i] = "idle")
      /\ (worker[i] = "backoff" => tries[i] < MaxRetries)
  BY NowRow DEF ReattachUploadFile
<1>2. /\ r \in Row /\ r.st = "uploading" /\ r.local /\ ~r.reselect
      /\ r.fileId = row[i].fileId /\ r.sess = row[i].sess /\ r.reproc = row[i].reproc
  BY <1>1 DEF Row
<1>3. [row EXCEPT ![i] = r] \in [Items -> Row] BY <1>1, <1>2
<1>4. [Now EXCEPT !.row[i] = [@ EXCEPT !.local = TRUE, !.st = "uploading", !.reselect = FALSE],
                  !.batch = "uploading"] = u
  BY <1>1, NowGood, NowFields DEF State
<1>. HIDE DEF r
<1>5. u \in State BY <1>3, NowGood DEF State, Batches
<1>6. /\ u.row = [row EXCEPT ![i] = r] /\ u.items = items /\ u.worker = worker
      /\ u.resumer = resumer /\ u.resuming = resuming
      /\ u.batch = "uploading" /\ u.pipe = pipe
  BY NowGood, NowFields DEF State
<1>7. Commit(PumpUpload(u)) /\ UNCHANGED <<tries, bulk, made, tracked>>
  BY <1>4 DEF ReattachUploadFile
<1>. HIDE DEF u
<1>8. u.row[i] = r BY <1>1, <1>6
<1>9. Mine(u, i) BY <1>1, <1>6 DEF Mine
<1>10. Fits(i, r, worker[i], resumer[i], i \in resuming)
  BY <1>1, <1>2 DEF Fits, Moving
<1>11. Proper(u, i) BY <1>1, <1>2, <1>6, <1>8, <1>10, NowRow DEF Proper
<1>12. Good(u, Counters) BY <1>5, <1>9, <1>11, MineGood
<1>13. Good(PumpUpload(u), Counters)
  BY <1>6, <1>12, PumpUploadGood DEF SameRows
<1>. QED BY <1>7, <1>13, StoredSame

\* The poll is granted its stage.
LEMMA ResumeEnteredKeeps ==
    ASSUME TrayInv, NEW i \in Items, ResumeEntered(i)
    PROVE  Keeps
<1>. DEFINE p == Resume(pipe, i, "processing", "resume")
            u == [Now EXCEPT !.resumer = [resumer EXCEPT ![i] = "poll"], !.pipe = p]
<1>1. /\ row \in [Items -> Row] /\ row[i] \in Row /\ Picked(i, Counters)
      /\ resumer[i] = "wait" /\ resumer \in [Items -> Resumers]
      /\ (i \in Ids(items) => Fits(i, row[i], worker[i], resumer[i], i \in resuming))
      /\ (batch = "complete" => (i \in Ids(items) => row[i].st \in Terminal))
      /\ (i \in Rebuild => worker[i] = "idle")
      /\ (worker[i] = "backoff" => tries[i] < MaxRetries)
  BY NowRow DEF ResumeEntered
<1>2. p \in [Stages -> Gate] /\ \A o \in Stages : GateInv(p[o])
  BY ResumeGates DEF Stages
<1>3. [resumer EXCEPT ![i] = "poll"] \in [Items -> Resumers] BY <1>1 DEF Resumers
<1>4. [Now EXCEPT !.resumer[i] = "poll", !.pipe = Resume(@, i, "processing", "resume")] = u
  BY NowFields
<1>. HIDE DEF p
<1>5. u \in State BY <1>2, <1>3, NowGood DEF State
<1>6. /\ u.resumer = [resumer EXCEPT ![i] = "poll"] /\ u.items = items /\ u.worker = worker
      /\ u.row = row /\ u.resuming = resuming
      /\ u.batch = batch /\ u.pipe = p
  BY NowGood, NowFields DEF State
<1>7. Commit(u) /\ UNCHANGED <<tries, bulk, made, tracked>> BY <1>4 DEF ResumeEntered
<1>. HIDE DEF u
<1>8. u.resumer[i] = "poll" BY <1>1, <1>6
<1>9. Mine(u, i) BY <1>1, <1>6 DEF Mine
<1>10. i \in Ids(items) => Fits(i, row[i], worker[i], "poll", i \in resuming)
  BY <1>1 DEF Fits
<1>11. Proper(u, i) BY <1>1, <1>2, <1>6, <1>8, <1>10 DEF Proper
<1>12. Good(u, Counters) BY <1>5, <1>9, <1>11, MineGood
<1>. QED BY <1>6, <1>7, <1>12, StoredSame

\* The end of the backoff: one more try, or the worker ends.
LEMMA RetryTransferKeeps ==
    ASSUME TrayInv, NEW i \in Items, RetryTransfer(i)
    PROVE  Keeps
<1>1. /\ row \in [Items -> Row] /\ worker \in [Items -> Workers] /\ Picked(i, Counters)
      /\ worker[i] = "backoff" /\ i \notin Rebuild /\ tries[i] < MaxRetries
      /\ (i \in Ids(items) => Fits(i, row[i], worker[i], resumer[i], i \in resuming))
      /\ (batch = "complete" => (i \in Ids(items) => row[i].st \in Terminal))
  BY NowRow DEF RetryTransfer
<1>2. CASE batch = "none" \/ (i \in Ids(items) /\ row[i].st = "cancelled")
  <2>. DEFINE u == [Now EXCEPT !.worker = [worker EXCEPT ![i] = "idle"]]
  <2>1. [Now EXCEPT !.worker[i] = "idle"] = u BY NowFields
  <2>2. Commit(AfterUpload(u)) /\ UNCHANGED <<tries, bulk, made, tracked>>
    BY <1>2, <2>1 DEF RetryTransfer
  <2>3. [worker EXCEPT ![i] = "idle"] \in [Items -> Workers] BY <1>1 DEF Workers
  <2>4. u \in State BY <2>3, NowGood DEF State
  <2>5. /\ u.worker = [Now.worker EXCEPT ![i] = "idle"] /\ u.items = Now.items
        /\ u.row = Now.row /\ u.resumer = Now.resumer /\ u.resuming = Now.resuming
        /\ u.batch = Now.batch /\ u.pipe = Now.pipe
    BY NowGood, NowFields DEF State
  <2>. HIDE DEF u
  <2>6. Gated(u) BY <2>5, NowGood DEF Gated
  <2>7. Good(u, Counters) BY <2>4, <2>5, <2>6, NowGood, IdleFine
  <2>8. Good(AfterUpload(u), Counters)
    BY <2>5, <2>7, AfterUploadGood, NowFields
  <2>. QED BY <2>2, <2>8, StoredSame
<1>3. CASE ~(batch = "none" \/ (i \in Ids(items) /\ row[i].st = "cancelled"))
  <2>. DEFINE u == [Now EXCEPT !.worker = [worker EXCEPT ![i] = "wait"]]
  <2>1. /\ worker' = [worker EXCEPT ![i] = "wait"] /\ tries' = [tries EXCEPT ![i] = @ + 1]
        /\ UNCHANGED <<pipe, items, batch, row, userPaused, pump, phases, strays,
                       resumer, resuming, aborted, server, bulk, made, tracked>>
    BY <1>3 DEF RetryTransfer
  <2>2. Now' = u BY <2>1 DEF Now
  <2>3. [worker EXCEPT ![i] = "wait"] \in [Items -> Workers] BY <1>1 DEF Workers
  <2>4. u \in State BY <2>3, NowGood DEF State
  <2>5. /\ u.worker = [worker EXCEPT ![i] = "wait"] /\ u.items = items /\ u.row = row
        /\ u.resumer = resumer /\ u.resuming = resuming
        /\ u.batch = batch /\ u.pipe = pipe
    BY NowGood, NowFields DEF State
  <2>. HIDE DEF u
  <2>6. u.worker[i] = "wait" BY <1>1, <2>5
  <2>7. Mine(u, i) BY <1>1, <2>5 DEF Mine
  <2>8. i \in Ids(items) => Fits(i, row[i], "wait", resumer[i], i \in resuming)
    BY <1>1 DEF Fits, Moving
  <2>9. Proper(u, i) BY <1>1, <2>5, <2>6, <2>8, NowRow DEF Proper
  <2>10. Good(u, Counters) BY <2>4, <2>7, <2>9, MineGood
  <2>11. Counts /\ tries \in [Items -> 0..MaxRetries] BY DEF TrayInv, Counts
  <2>12. tries' \in [Items -> 0..MaxRetries] /\ \A j \in Items \ {i} : tries'[j] = tries[j]
    <3>1. tries[i] + 1 \in 0..MaxRetries BY <1>1, <2>11, LimitsAssumption
    <3>. QED BY <2>1, <2>11, <3>1
  <2>13. Counts' BY <2>1, <2>11, <2>12 DEF Counts
  <2>14. ASSUME NEW j \in Items PROVE RowOK(u, j, Later)
    <3>1. RowOK(u, j, Counters) BY <2>10 DEF Good, Fine
    <3>2. /\ Later.tries = tries' /\ Later.made = Counters.made
          /\ Counters.tries = tries /\ Later.forgotten = Counters.forgotten
      BY <2>1 DEF Counters, Later
    <3>3. Picked(j, Later) <=> Picked(j, Counters) BY <3>2 DEF Picked
    <3>4. u.worker[j] = "backoff" => Later.tries[j] < MaxRetries
      BY <2>6, <2>12, <3>1, <3>2 DEF RowOK
    <3>. QED BY <3>1, <3>2, <3>3, <3>4 DEF RowOK
  <2>15. Good(u, Later) BY <2>10, <2>14 DEF Good, Fine
  <2>. QED BY <2>2, <2>13, <2>15, Renewed DEF Keeps, TrayInv
<1>. QED BY <1>2, <1>3

\* The last poll settles the row and frees its place.
LEMMA ResumeDoneKeeps ==
    ASSUME TrayInv, NEW i \in Items, NEW result \in Terminal, ResumeDone(i, result)
    PROVE  Keeps
<1>. DEFINE a == Mark(Now, i, result)
            t == [a EXCEPT !.resumer[i] = "none", !.resuming = @ \ {i}]
            u == Release(t, i)
<1>1. /\ row \in [Items -> Row] /\ row[i] \in Row /\ Picked(i, Counters)
      /\ resumer[i] = "poll" /\ resumer \in [Items -> Resumers]
      /\ (i \in Ids(items) => Fits(i, row[i], worker[i], resumer[i], i \in resuming))
      /\ (batch = "complete" => (i \in Ids(items) => row[i].st \in Terminal))
      /\ (i \in Rebuild => worker[i] = "idle")
      /\ (worker[i] = "backoff" => tries[i] < MaxRetries)
  BY NowRow DEF ResumeDone
<1>2. /\ a \in State /\ Likewise(a.row[i], row[i])
      /\ (i \in Ids(items) => a.row[i].st = result)
      /\ (\A j \in Items \ {i} : a.row[j] = row[j])
      /\ a.pipe = pipe /\ a.items = items /\ a.batch = batch /\ a.worker = worker
      /\ a.resumer = resumer /\ a.resuming = resuming
  <2>1. Now \in State BY NowGood
  <2>2. In(Now, i) <=> i \in Ids(items) BY NowFields DEF In
  <2>. HIDE DEF a
  <2>3. /\ a \in State /\ Likewise(a.row[i], Now.row[i]) /\ (In(Now, i) => a.row[i].st = result)
        /\ (\A j \in Items \ {i} : a.row[j] = Now.row[j])
        /\ a.pipe = Now.pipe /\ a.items = Now.items /\ a.batch = Now.batch
        /\ a.worker = Now.worker /\ a.resumer = Now.resumer
        /\ a.resuming = Now.resuming
    <3>1. result \in {"uploading"} \cup Terminal OBVIOUS
    <3>. QED BY <2>1, <3>1, MarkFields DEF a
  <2>. QED BY <2>2, <2>3, NowFields
<1>3. Commit(MaybeComplete(PumpProcessing(u))) /\ UNCHANGED <<tries, bulk, made, tracked>>
  BY DEF ResumeDone
<1>. HIDE DEF a
<1>4. /\ [a.resumer EXCEPT ![i] = "none"] \in [Items -> Resumers]
      /\ a.resuming \ {i} \in SUBSET Items
  BY <1>2, StateFields DEF Resumers
<1>5. t \in State BY <1>2, <1>4 DEF State
<1>6. /\ t.resumer = [resumer EXCEPT ![i] = "none"] /\ t.resuming = resuming \ {i}
      /\ t.pipe = pipe /\ t.items = items /\ t.batch = batch /\ t.worker = worker
      /\ t.row = a.row
  BY <1>2 DEF State
<1>. HIDE DEF t
<1>7. Gated(t) BY <1>6, NowRow DEF Gated
<1>8. u \in State /\ Gated(u) /\ SameRows(t, u) /\ u.batch = batch
  BY <1>5, <1>6, <1>7, ReleaseGood
<1>. HIDE DEF u
<1>9. Mine(u, i) BY <1>1, <1>2, <1>6, <1>8 DEF Mine, SameRows
<1>10. /\ u.row[i] = a.row[i] /\ u.worker[i] = worker[i] /\ u.resumer[i] = "none"
       /\ i \notin u.resuming
  BY <1>1, <1>6, <1>8 DEF SameRows
<1>11. i \in Ids(items) => Fits(i, a.row[i], worker[i], "none", i \in u.resuming)
  BY <1>1, <1>2, <1>10 DEF Fits, Moving, Likewise, Terminal
<1>12. i \in Ids(items) => u.row[i].st # "uploading" BY <1>2, <1>10 DEF Terminal
<1>13. Proper(u, i) BY <1>1, <1>2, <1>8, <1>10, <1>11, <1>12 DEF Proper, Gated
<1>14. Good(u, Counters) BY <1>8, <1>9, <1>13, MineGood
<1>15. Good(PumpProcessing(u), Counters) BY <1>14, PumpProcessingGood
<1>16. Good(MaybeComplete(PumpProcessing(u)), Counters) BY <1>15, MaybeCompleteGood
<1>. QED BY <1>3, <1>16, StoredSame

\* The attempt failed: the row is an error, or backs off with a retry left.
LEMMA FailKeeps ==
    ASSUME TrayInv, NEW i \in Items, NEW retry \in BOOLEAN, Fail(i, retry)
    PROVE  Keeps
<1>. DEFINE x == IF Outlives(phases[i]) THEN strays \cup {i} ELSE strays
            d == Release(Now, i)
            t == [d EXCEPT !.phases[i] = "none", !.strays = x]
            st == IF retry THEN "uploading" ELSE "error"
            w == IF retry THEN "backoff" ELSE "idle"
            a == Mark(t, i, st)
            u == [a EXCEPT !.worker[i] = w]
<1>1. /\ worker \in [Items -> Workers] /\ Picked(i, Counters) /\ i \notin Rebuild
      /\ worker[i] \in {"bytes", "response"}
      /\ (i \in Ids(items) => Fits(i, row[i], worker[i], resumer[i], i \in resuming))
      /\ (batch = "complete" => (i \in Ids(items) => row[i].st \in Terminal))
      /\ strays \in SUBSET Items /\ (retry => tries[i] < MaxRetries)
  BY NowRow, NowGood, NowFields, StateFields DEF Fail
<1>2. d \in State /\ Gated(d) /\ SameRows(Now, d) /\ d.batch = Now.batch /\ d.strays = Now.strays
  BY NowGood, ReleaseGood
<1>3. IF retry THEN Commit(u) ELSE Commit(AfterUpload(u))
  <2>1. [Release(Now, i) EXCEPT !.phases[i] = "none",
                                !.strays = IF Outlives(phases[i]) THEN @ \cup {i} ELSE @] = t
    BY <1>2, NowFields
  <2>2. CASE retry
    <3>1. Commit([Mark(t, i, "uploading") EXCEPT !.worker[i] = "backoff"])
      BY <2>1, <2>2 DEF Fail
    <3>. QED BY <2>2, <3>1
  <2>3. CASE ~retry
    <3>1. Commit(AfterUpload([Mark(t, i, "error") EXCEPT !.worker[i] = "idle"]))
      BY <2>1, <2>3 DEF Fail
    <3>. QED BY <2>3, <3>1
  <2>. QED BY <2>2, <2>3
<1>4. UNCHANGED <<tries, bulk, made, tracked>> BY DEF Fail
<1>5. x \in SUBSET Items BY <1>1
<1>6. st \in {"uploading"} \cup Terminal /\ w \in Workers BY DEF Terminal, Workers
<1>. HIDE DEF d, x
<1>7. [d.phases EXCEPT ![i] = "none"] \in [Items -> PhasePcs]
  BY <1>2, StateFields DEF PhasePcs
<1>8. t \in State BY <1>2, <1>5, <1>7 DEF State
<1>9. /\ t.pipe = d.pipe /\ t.items = items /\ t.batch = batch /\ t.row = row
      /\ t.worker = worker /\ t.resumer = resumer /\ t.resuming = resuming
  <2>1. /\ t.pipe = d.pipe /\ t.items = d.items /\ t.batch = d.batch /\ t.row = d.row
        /\ t.worker = d.worker /\ t.resumer = d.resumer /\ t.resuming = d.resuming
    BY <1>2 DEF State
  <2>. HIDE DEF t
  <2>. QED BY <1>2, <2>1, NowFields DEF SameRows
<1>. HIDE DEF t, st
<1>10. /\ a \in State /\ Likewise(a.row[i], row[i]) /\ (i \in Ids(items) => a.row[i].st = st)
       /\ (\A j \in Items \ {i} : a.row[j] = row[j])
       /\ a.pipe = d.pipe /\ a.items = items /\ a.batch = batch /\ a.worker = worker
       /\ a.resumer = resumer /\ a.resuming = resuming
  BY <1>6, <1>8, <1>9, MarkFields DEF In
<1>. HIDE DEF a, w
<1>11. [a.worker EXCEPT ![i] = w] \in [Items -> Workers] BY <1>1, <1>6, <1>10
<1>12. u \in State BY <1>10, <1>11 DEF State
<1>13. /\ u.worker = [worker EXCEPT ![i] = w] /\ u.items = items /\ u.row = a.row
       /\ u.resumer = resumer /\ u.resuming = resuming
       /\ u.batch = batch /\ u.pipe = d.pipe
  BY <1>10 DEF State
<1>. HIDE DEF u
<1>14. u.worker[i] = w BY <1>1, <1>13
<1>15. Mine(u, i) BY <1>1, <1>10, <1>13 DEF Mine
<1>16. i \in Ids(items) => Fits(i, a.row[i], w, resumer[i], i \in resuming)
  BY <1>1, <1>10 DEF Fits, Moving, Likewise, st, w
<1>17. i \in Ids(items) => batch # "complete"
  BY <1>1 DEF Fits, Moving, Terminal
<1>18. \A s \in Stages : GateInv(d.pipe[s]) BY <1>2 DEF Gated
<1>19. w = "backoff" => tries[i] < MaxRetries BY <1>1 DEF w
<1>20. Proper(u, i) BY <1>1, <1>13, <1>14, <1>16, <1>17, <1>18, <1>19 DEF Proper
<1>21. Good(u, Counters) BY <1>12, <1>15, <1>20, MineGood
<1>22. Good(AfterUpload(u), Counters)
  BY <1>13, <1>21, AfterUploadGood
<1>23. CASE retry BY <1>3, <1>4, <1>13, <1>21, <1>23, StoredSame
<1>24. CASE ~retry BY <1>3, <1>4, <1>22, <1>24, StoredSame
<1>. QED BY <1>23, <1>24

\* releaseUploadByteSlot of a row whose last byte is out.
LEMMA ByteSlotGood ==
    ASSUME TrayInv, NEW i \in Items, worker[i] = "bytes", NEW w \in {"bytes", "response"},
           NEW v, v = [Now EXCEPT !.worker = [worker EXCEPT ![i] = w]]
    PROVE  /\ Good(ReleaseByteSlot(v, i), Counters)
           /\ ReleaseByteSlot(v, i).worker[i] = w /\ ReleaseByteSlot(v, i).items = items
           /\ In(ReleaseByteSlot(v, i), i) => ~ReleaseByteSlot(v, i).row[i].local
<1>1. /\ worker \in [Items -> Workers] /\ row \in [Items -> Row] /\ row[i] \in Row
      /\ Picked(i, Counters) /\ i \notin Rebuild
      /\ (i \in Ids(items) => Fits(i, row[i], worker[i], resumer[i], i \in resuming))
      /\ (batch = "complete" => (i \in Ids(items) => row[i].st \in Terminal))
  BY NowRow
<1>2. [worker EXCEPT ![i] = w] \in [Items -> Workers] BY <1>1 DEF Workers
<1>3. v \in State BY <1>2, NowGood DEF State
<1>4. /\ v.worker = [worker EXCEPT ![i] = w] /\ v.items = items /\ v.row = row
      /\ v.resumer = resumer /\ v.resuming = resuming
      /\ v.batch = batch /\ v.pipe = pipe
  BY NowGood, NowFields DEF State
<1>5. In(v, i) <=> i \in Ids(items) BY <1>4 DEF In
<1>6. i \in Ids(items) => batch # "complete" BY <1>1 DEF Fits, Moving, Terminal
<1>7. CASE ~In(v, i) \/ ~row[i].local
  <2>1. ReleaseByteSlot(v, i) = v BY <1>4, <1>7 DEF ReleaseByteSlot
  <2>2. Mine(v, i) BY <1>1, <1>4 DEF Mine
  <2>3. v.worker[i] = w BY <1>1, <1>4
  <2>4. i \in Ids(items) => Fits(i, row[i], w, resumer[i], i \in resuming)
    BY <1>1, <1>5, <1>7 DEF Fits, Moving
  <2>5. Proper(v, i) BY <1>1, <1>4, <1>6, <2>3, <2>4, NowRow DEF Proper
  <2>6. Good(v, Counters) BY <1>3, <2>2, <2>5, MineGood
  <2>. QED BY <1>4, <1>5, <1>7, <2>1, <2>3, <2>6
<1>8. CASE In(v, i) /\ row[i].local
  <2>. DEFINE r == [row[i] EXCEPT !.local = FALSE]
              u == [v EXCEPT !.row = [row EXCEPT ![i] = r]]
  <2>1. /\ r \in Row /\ r.st = row[i].st /\ ~r.local /\ r.sess = row[i].sess
        /\ r.fileId = row[i].fileId /\ r.reselect = row[i].reselect /\ r.reproc = row[i].reproc
    BY <1>1 DEF Row
  <2>2. [row EXCEPT ![i] = r] \in [Items -> Row] BY <1>1, <2>1
  <2>3. [v EXCEPT !.row[i].local = FALSE] = u BY <1>4
  <2>4. ReleaseByteSlot(v, i) = PumpProcessing(PumpUpload(u))
    BY <1>4, <1>8, <2>3 DEF ReleaseByteSlot
  <2>. HIDE DEF r
  <2>5. u \in State BY <1>3, <2>2 DEF State
  <2>6. /\ u.row = [row EXCEPT ![i] = r] /\ u.worker = v.worker /\ u.items = items
        /\ u.resumer = resumer /\ u.resuming = resuming
        /\ u.batch = batch /\ u.pipe = pipe
    BY <1>3, <1>4 DEF State
  <2>. HIDE DEF u
  <2>7. u.row[i] = r /\ u.worker[i] = w BY <1>1, <1>4, <2>6
  <2>8. Mine(u, i) BY <1>1, <1>4, <2>6 DEF Mine
  <2>9. Fits(i, r, w, resumer[i], i \in resuming)
    BY <1>1, <1>5, <1>8, <2>1 DEF Fits, Moving
  <2>10. Proper(u, i) BY <1>1, <1>6, <2>6, <2>7, <2>9, NowRow DEF Proper
  <2>11. Good(u, Counters) BY <2>5, <2>8, <2>10, MineGood
  <2>12. Good(PumpUpload(u), Counters) /\ SameRows(u, PumpUpload(u)) BY <2>11, PumpUploadGood
  <2>13. /\ Good(PumpProcessing(PumpUpload(u)), Counters)
         /\ SameButPolls(PumpUpload(u), PumpProcessing(PumpUpload(u)))
    BY <2>12, PumpProcessingGood
  <2>. QED BY <2>1, <2>4, <2>6, <2>7, <2>12, <2>13 DEF SameRows, SameButPolls
<1>. QED BY <1>7, <1>8

\* The phases coroutine starts: gates and phases only.
LEMMA StartPhasesGood ==
    ASSUME NEW t, NEW m, Good(t, m), NEW i \in Items
    PROVE  Good(StartPhases(t, i), m) /\ SameRows(t, StartPhases(t, i))
<1>. DEFINE f == IF CanOccupy(t.pipe["processing"], i) THEN "proc" ELSE "waitProc"
            p == AcquireStage(t.pipe, i, "processing", "phases")
            u == StartPhases(t, i)
<1>0. t \in State /\ Gated(t) BY DEF Good, Fine
<1>1. p \in [Stages -> Gate] /\ \A o \in Stages : GateInv(p[o])
  BY <1>0, AcquireGood DEF Stages
<1>2. [t.phases EXCEPT ![i] = f] \in [Items -> PhasePcs] BY <1>0, StateFields DEF PhasePcs
<1>3. u = [t EXCEPT !.phases = [t.phases EXCEPT ![i] = f], !.pipe = p]
  BY <1>0 DEF StartPhases, State
<1>. HIDE DEF u, p, f
<1>4. u \in State BY <1>0, <1>1, <1>2, <1>3 DEF State
<1>5. SameRows(t, u) /\ u.pipe = p /\ u.batch = t.batch
  BY <1>0, <1>3 DEF State, SameRows
<1>6. Gated(u) BY <1>1, <1>5 DEF Gated
<1>7. Good(u, m) BY <1>4, <1>5, <1>6, Alike
<1>. QED BY <1>5, <1>7 DEF u

\* The last byte is out: the row gives its byte slot back.
LEMMA BytesDoneKeeps ==
    ASSUME TrayInv, NEW i \in Items, BytesDone(i)
    PROVE  Keeps
<1>. DEFINE v == [Now EXCEPT !.worker = [worker EXCEPT ![i] = "response"]]
            t == ReleaseByteSlot(v, i)
            p == AcquireStage(t.pipe, i, "processing", "display")
            u == IF i \in Generic THEN StartPhases(t, i) ELSE [t EXCEPT !.pipe = p]
<1>1. worker[i] = "bytes" /\ UNCHANGED <<tries, bulk, made, tracked>> BY DEF BytesDone
<1>2. Commit(u)
  <2>1. [Now EXCEPT !.worker[i] = "response"] = v BY NowFields
  <2>. QED BY <2>1 DEF BytesDone
<1>3. Good(t, Counters) BY <1>1, ByteSlotGood
<1>. HIDE DEF t
<1>4. Good(u, Counters)
  <2>1. CASE i \in Generic BY <1>3, <2>1, StartPhasesGood DEF SameRows
  <2>2. CASE i \notin Generic
    <3>. DEFINE x == [t EXCEPT !.pipe = p]
    <3>0. t \in State /\ Gated(t) BY <1>3 DEF Good, Fine
    <3>1. p \in [Stages -> Gate] /\ \A o \in Stages : GateInv(p[o])
      BY <3>0, AcquireGood DEF Stages
    <3>. HIDE DEF p
    <3>2. x \in State BY <3>0, <3>1 DEF State
    <3>3. SameRows(t, x) /\ x.pipe = p /\ x.batch = t.batch BY <3>0 DEF State, SameRows
    <3>. HIDE DEF x
    <3>4. Gated(x) BY <3>1, <3>3 DEF Gated
    <3>5. Good(x, Counters) BY <1>3, <3>2, <3>3, <3>4, Alike
    <3>. QED BY <1>3, <2>2, <3>3, <3>5 DEF SameRows, x
  <2>. QED BY <2>1, <2>2
<1>. HIDE DEF u
<1>. QED BY <1>1, <1>2, <1>4, StoredSame

\* registerUploadServerFile.
LEMMA RegisterFields ==
    ASSUME NEW t \in State, NEW i \in Items
    PROVE  /\ Register(t, i) \in State
           /\ Register(t, i).pipe = t.pipe /\ Register(t, i).items = t.items
           /\ Register(t, i).batch = t.batch /\ Register(t, i).worker = t.worker
           /\ Register(t, i).resumer = t.resumer /\ Register(t, i).resuming = t.resuming
           /\ Register(t, i).row[i].st = t.row[i].st
           /\ Register(t, i).row[i].local = t.row[i].local
           /\ Register(t, i).row[i].sess = t.row[i].sess
           /\ Register(t, i).row[i].reselect = t.row[i].reselect
           /\ Register(t, i).row[i].reproc = t.row[i].reproc
           /\ In(t, i) => Register(t, i).row[i].fileId
           /\ \A j \in Items \ {i} : Register(t, i).row[j] = t.row[j]
<1>. DEFINE a == [t EXCEPT !.server = [t.server EXCEPT ![i] = "stored"]]
            r == [t.row[i] EXCEPT !.fileId = TRUE]
            u == [a EXCEPT !.row = [t.row EXCEPT ![i] = r]]
<1>1. /\ t.row \in [Items -> Row] /\ t.row[i] \in Row /\ t.server \in [Items -> Servers]
  BY StateFields
<1>2. [t.server EXCEPT ![i] = "stored"] \in [Items -> Servers] BY <1>1 DEF Servers
<1>3. a \in State BY <1>2 DEF State
<1>4. /\ a.row = t.row /\ a.pipe = t.pipe
      /\ a.items = t.items /\ a.batch = t.batch /\ a.worker = t.worker
      /\ a.resumer = t.resumer /\ a.resuming = t.resuming
  BY DEF State
<1>5. [t EXCEPT !.server[i] = "stored"] = a OBVIOUS
<1>. HIDE DEF a
<1>6. CASE In(t, i)
  <2>1. /\ r \in Row /\ r.fileId /\ r.st = t.row[i].st /\ r.local = t.row[i].local
        /\ r.sess = t.row[i].sess /\ r.reselect = t.row[i].reselect
        /\ r.reproc = t.row[i].reproc
    BY <1>1 DEF Row
  <2>2. [t.row EXCEPT ![i] = r] \in [Items -> Row] BY <1>1, <2>1
  <2>3. Register(t, i) = u BY <1>4, <1>5, <1>6 DEF Register
  <2>. HIDE DEF r
  <2>4. u \in State BY <1>3, <2>2 DEF State
  <2>5. /\ u.row = [t.row EXCEPT ![i] = r] /\ u.pipe = a.pipe
        /\ u.items = a.items /\ u.batch = a.batch /\ u.worker = a.worker
        /\ u.resumer = a.resumer /\ u.resuming = a.resuming
    BY <1>3 DEF State
  <2>. HIDE DEF u
  <2>6. u.row[i] = r /\ \A j \in Items \ {i} : u.row[j] = t.row[j] BY <1>1, <2>5
  <2>. QED BY <1>4, <2>1, <2>3, <2>4, <2>5, <2>6
<1>7. CASE ~In(t, i)
  <2>1. Register(t, i) = a BY <1>5, <1>7 DEF Register
  <2>. QED BY <1>3, <1>4, <1>7, <2>1
<1>. QED BY <1>6, <1>7

\* The worker of row i is through: t is the tray before, v once the file is known.
LEMMA FinishGood ==
    ASSUME NEW t, NEW m, Good(t, m), NEW i \in Items, Picked(i, m),
           NEW v \in State, Gated(v), v.items = t.items, v.batch = t.batch,
           v.worker = t.worker, v.resumer = t.resumer, v.resuming = t.resuming,
           \A j \in Items \ {i} : v.row[j] = t.row[j],
           In(t, i) => /\ Fits(i, v.row[i], "idle", v.resumer[i], i \in v.resuming)
                       /\ ~v.row[i].reselect
                       /\ t.batch = "complete" => v.row[i].st \in Terminal,
           NEW awaits \in BOOLEAN, awaits /\ In(t, i) => i \notin m.forgotten
    PROVE  Good(FinishUpload(v, i, awaits), m)
<1>. DEFINE a == Release(v, i)
            o == [a EXCEPT !.worker[i] = "idle", !.phases[i] = "none"]
            u == IF awaits THEN o ELSE Mark(o, i, "done")
<1>1. a \in State /\ Gated(a) /\ SameRows(v, a) /\ a.batch = v.batch BY ReleaseGood
<1>2. FinishUpload(v, i, awaits) = AfterUpload(u) BY DEF FinishUpload
<1>. HIDE DEF a
<1>3. /\ [a.worker EXCEPT ![i] = "idle"] \in [Items -> Workers]
      /\ [a.phases EXCEPT ![i] = "none"] \in [Items -> PhasePcs]
      /\ a.worker \in [Items -> Workers]
  BY <1>1, StateFields DEF Workers, PhasePcs
<1>4. o \in State BY <1>1, <1>3 DEF State
<1>5. /\ o.worker = [a.worker EXCEPT ![i] = "idle"] /\ o.pipe = a.pipe /\ o.items = a.items
      /\ o.batch = a.batch /\ o.row = a.row /\ o.resumer = a.resumer
      /\ o.resuming = a.resuming
  BY <1>1 DEF State
<1>. HIDE DEF o
<1>6. o.worker[i] = "idle" /\ \A j \in Items \ {i} : o.worker[j] = t.worker[j]
  BY <1>1, <1>3, <1>5 DEF SameRows
<1>7. In(o, i) <=> In(t, i) BY <1>1, <1>5 DEF In, SameRows
<1>8. /\ u \in State /\ u.pipe = a.pipe /\ u.items = t.items /\ u.batch = t.batch
      /\ u.worker = o.worker /\ u.resumer = t.resumer /\ u.resuming = t.resuming
      /\ Likewise(u.row[i], v.row[i])
      /\ (In(t, i) => (awaits /\ u.row[i].st = v.row[i].st) \/ u.row[i].st = "done")
      /\ \A j \in Items \ {i} : u.row[j] = t.row[j]
  <2>1. CASE awaits BY <1>1, <1>4, <1>5, <2>1 DEF SameRows, Likewise
  <2>2. CASE ~awaits
    <3>1. "done" \in {"uploading"} \cup Terminal BY DEF Terminal
    <3>2. u = Mark(o, i, "done") BY <2>2
    <3>. HIDE DEF u
    <3>3. /\ u \in State /\ Likewise(u.row[i], o.row[i]) /\ (In(o, i) => u.row[i].st = "done")
          /\ (\A j \in Items \ {i} : u.row[j] = o.row[j]) /\ u.pipe = o.pipe
          /\ u.items = o.items /\ u.batch = o.batch /\ u.worker = o.worker
          /\ u.resumer = o.resumer /\ u.resuming = o.resuming
      BY <1>4, <3>1, <3>2, MarkFields
    <3>. QED BY <1>1, <1>5, <1>7, <3>3 DEF SameRows
  <2>. QED BY <2>1, <2>2
<1>. HIDE DEF u
<1>9. OnlyRow(t, u, i) BY <1>6, <1>8 DEF OnlyRow, In
<1>10. Gated(u) BY <1>1, <1>8 DEF Gated
<1>11. In(u, i) <=> In(t, i) BY <1>8 DEF In
<1>12. u.worker[i] = "idle" BY <1>6, <1>8
<1>13. In(u, i) => Fits(i, u.row[i], u.worker[i], u.resumer[i], i \in u.resuming)
  BY <1>8, <1>11, <1>12 DEF Fits, Likewise, Moving
<1>14. u.batch = "complete" =>
         t.batch = "complete" /\ (In(u, i) => u.row[i].st \in Terminal)
  BY <1>8, <1>11 DEF Terminal
<1>15. u.resuming \subseteq t.resuming BY <1>8
<1>16. u.worker[i] = "backoff" => m.tries[i] < MaxRetries BY <1>12
<1>17. i \in m.forgotten /\ In(u, i) => ~(u.row[i].st = "uploading" /\ u.row[i].fileId)
  BY <1>8, <1>11
<1>18. Good(u, m)
  BY <1>8, <1>9, <1>10, <1>12, <1>13, <1>14, <1>15, <1>16, <1>17, AtRow
<1>. QED BY <1>2, <1>18, AfterUploadGood

\* The worker of a generic upload returns.
LEMMA PhaseFinishedKeeps ==
    ASSUME TrayInv, NEW i \in Items, PhaseFinished(i)
    PROVE  Keeps
<1>. DEFINE v == ShowProgress(Now, i, "storing")
            u == FinishUpload(v, i, FALSE)
<1>1. /\ Picked(i, Counters) /\ worker[i] = "registered"
      /\ (i \in Ids(items) => Fits(i, row[i], worker[i], resumer[i], i \in resuming))
      /\ (batch = "complete" => (i \in Ids(items) => row[i].st \in Terminal))
  BY NowRow DEF PhaseFinished
<1>2. Commit(u) /\ UNCHANGED <<tries, bulk, made, tracked>> BY DEF PhaseFinished
<1>3. /\ Shown(i, "storing") \in [Stages -> Gate]
      /\ \A o \in Stages : GateInv(Shown(i, "storing")[o])
      /\ v = [Now EXCEPT !.pipe = Shown(i, "storing")]
  BY ShownSound DEF Stages
<1>. HIDE DEF v
<1>4. v \in State BY <1>3, NowGood DEF State
<1>5. /\ v.pipe = Shown(i, "storing") /\ v.items = Now.items /\ v.batch = Now.batch
      /\ v.worker = Now.worker /\ v.resumer = Now.resumer /\ v.resuming = Now.resuming
      /\ v.row = Now.row
  BY <1>3, NowGood DEF State
<1>6. Gated(v) BY <1>3, <1>5 DEF Gated
<1>7. In(Now, i) => /\ Fits(i, v.row[i], "idle", v.resumer[i], i \in v.resuming)
                    /\ ~v.row[i].reselect
                    /\ Now.batch = "complete" => v.row[i].st \in Terminal
  <2>1. In(Now, i) <=> i \in Ids(items) BY NowFields DEF In
  <2>2. In(Now, i) => Fits(i, row[i], "idle", resumer[i], i \in resuming) /\ ~row[i].reselect
    BY <1>1, <2>1 DEF Fits, Moving
  <2>. QED BY <1>1, <1>5, <2>1, <2>2, NowFields
<1>8. Good(u, Counters) BY <1>1, <1>4, <1>5, <1>6, <1>7, NowGood, FinishGood
<1>. HIDE DEF u
<1>. QED BY <1>2, <1>8, StoredSame

\* The server has stored the file of row i, whose bytes are out.
LEMMA RegisteredGood ==
    ASSUME NEW t, NEW m, Good(t, m), NEW i \in Items, Picked(i, m), i \notin Rebuild,
           t.worker[i] \in {"bytes", "response"},
           In(t, i) => ~t.row[i].local /\ i \notin m.forgotten,
           NEW awaits \in BOOLEAN
    PROVE  /\ Good([Register(t, i) EXCEPT !.worker[i] = "registered"], m)
           /\ Good(FinishUpload(Register(t, i), i, awaits), m)
<1>. DEFINE v == Register(t, i)
            u == [v EXCEPT !.worker[i] = "registered"]
            f == FinishUpload(v, i, awaits)
<1>0. t \in State /\ Gated(t) /\ RowOK(t, i, m) BY DEF Good, Fine
<1>1. /\ v \in State /\ v.pipe = t.pipe /\ v.items = t.items /\ v.batch = t.batch
      /\ v.worker = t.worker /\ v.resumer = t.resumer /\ v.resuming = t.resuming
      /\ v.row[i].st = t.row[i].st
      /\ v.row[i].local = t.row[i].local /\ v.row[i].sess = t.row[i].sess
      /\ v.row[i].reselect = t.row[i].reselect /\ v.row[i].reproc = t.row[i].reproc
      /\ (In(t, i) => v.row[i].fileId)
      /\ \A j \in Items \ {i} : v.row[j] = t.row[j]
  BY <1>0, RegisterFields
<1>. HIDE DEF v
<1>2. Gated(v) BY <1>0, <1>1 DEF Gated
<1>3. In(t, i) => Fits(i, t.row[i], t.worker[i], t.resumer[i], i \in t.resuming)
  BY <1>0 DEF RowOK
<1>4. In(t, i) => /\ t.row[i].st = "uploading" /\ ~t.row[i].reselect
                  /\ t.batch # "complete" /\ t.resumer[i] = "none" /\ i \notin t.resuming
  <2>1. In(t, i) => /\ t.row[i].st = "uploading" /\ ~t.row[i].reselect
                    /\ t.resumer[i] = "none" /\ i \notin t.resuming
    BY <1>3 DEF Fits, Moving
  <2>. QED BY <2>1 DEF Good, Fine, Settled, In, Terminal
<1>5. In(t, i) => \A w \in {"idle", "registered"} :
                     Fits(i, v.row[i], w, v.resumer[i], i \in v.resuming)
  BY <1>1, <1>3, <1>4 DEF Fits, Moving
<1>6. Good(f, m)
  <2>1. In(t, i) => /\ Fits(i, v.row[i], "idle", v.resumer[i], i \in v.resuming)
                    /\ ~v.row[i].reselect
                    /\ t.batch = "complete" => v.row[i].st \in Terminal
    BY <1>1, <1>4, <1>5
  <2>. QED BY <1>1, <1>2, <2>1, FinishGood
<1>. HIDE DEF f
<1>7. /\ [v.worker EXCEPT ![i] = "registered"] \in [Items -> Workers]
      /\ t.worker \in [Items -> Workers]
  BY <1>0, <1>1, StateFields DEF Workers
<1>8. u \in State BY <1>1, <1>7 DEF State
<1>9. /\ u.worker = [t.worker EXCEPT ![i] = "registered"] /\ u.pipe = t.pipe
      /\ u.items = t.items /\ u.batch = t.batch /\ u.row = v.row /\ u.resumer = t.resumer
      /\ u.resuming = t.resuming
  BY <1>1 DEF State
<1>. HIDE DEF u
<1>10. u.worker[i] = "registered" BY <1>7, <1>9
<1>11. OnlyRow(t, u, i) BY <1>1, <1>7, <1>9 DEF OnlyRow, In
<1>12. Gated(u) BY <1>0, <1>9 DEF Gated
<1>13. In(u, i) <=> In(t, i) BY <1>9 DEF In
<1>14. In(u, i) => Fits(i, u.row[i], u.worker[i], u.resumer[i], i \in u.resuming)
  BY <1>1, <1>5, <1>9, <1>10, <1>13
<1>15. u.batch = "complete" =>
         t.batch = "complete" /\ (In(u, i) => u.row[i].st \in Terminal)
  BY <1>4, <1>9, <1>13
<1>16. u.resuming \subseteq t.resuming BY <1>9
<1>17. u.worker[i] = "backoff" => m.tries[i] < MaxRetries BY <1>10
<1>18. Good(u, m)
  BY <1>8, <1>11, <1>12, <1>13, <1>14, <1>15, <1>16, <1>17, AtRow
<1>. QED BY <1>6, <1>18 DEF u, f, v

\* The server has answered a multipart upload.
LEMMA RespondOkKeeps ==
    ASSUME TrayInv, NEW i \in Items, NEW awaits \in BOOLEAN, RespondOk(i, awaits)
    PROVE  Keeps
<1>. DEFINE a == [Register(Now, i) EXCEPT !.worker[i] = "registered"]
            f == FinishUpload(Register(Now, i), i, awaits)
            u == IF i \in Generic THEN a ELSE f
<1>1. /\ Picked(i, Counters) /\ i \notin Rebuild /\ worker[i] = "response"
      /\ (i \in Ids(items) => Fits(i, row[i], worker[i], resumer[i], i \in resuming))
  BY NowRow DEF RespondOk
<1>2. Commit(u) /\ UNCHANGED <<tries, bulk, made, tracked>> BY DEF RespondOk
<1>3. In(Now, i) => ~Now.row[i].local /\ i \notin Counters.forgotten
  <2>1. In(Now, i) => ~row[i].local /\ resumer[i] = "none"
    BY <1>1, NowFields DEF In, Fits, Moving
  <2>. QED BY <2>1, NowGood, NowFields DEF Forgotten
<1>4. Now.worker[i] \in {"bytes", "response"} /\ Good(Now, Counters)
  BY <1>1, NowFields, NowGood
<1>5. Good(a, Counters) /\ Good(f, Counters) BY <1>1, <1>3, <1>4, RegisteredGood
<1>. HIDE DEF a, f
<1>6. Good(u, Counters) BY <1>5
<1>. HIDE DEF u
<1>. QED BY <1>2, <1>6, StoredSame

\* The session of a resumable upload is completed.
LEMMA ResumableOkKeeps ==
    ASSUME TrayInv, NEW i \in Items, NEW awaits \in BOOLEAN, ResumableOk(i, awaits)
    PROVE  Keeps
<1>. DEFINE t == ReleaseByteSlot(Now, i)
            s == StartPhases(t, i)
            a == [Register(s, i) EXCEPT !.worker[i] = "registered"]
            f == FinishUpload(Register(t, i), i, awaits)
            u == IF i \in Generic THEN a ELSE f
<1>1. /\ Picked(i, Counters) /\ i \notin Rebuild /\ worker[i] = "bytes"
      /\ worker \in [Items -> Workers]
      /\ (i \in Ids(items) => resumer[i] = "none")
  BY NowRow DEF ResumableOk, Fits, Moving
<1>2. Commit(u) /\ UNCHANGED <<tries, bulk, made, tracked>> BY DEF ResumableOk
<1>3. /\ Good(t, Counters) /\ t.worker[i] = "bytes"
      /\ (In(t, i) => ~t.row[i].local) /\ t.items = items
  <2>1. Now = [Now EXCEPT !.worker = [worker EXCEPT ![i] = "bytes"]] BY <1>1 DEF Now
  <2>. QED BY <1>1, <2>1, ByteSlotGood
<1>. HIDE DEF t
<1>4. In(t, i) => i \notin Counters.forgotten
  BY <1>1, <1>3, NowGood DEF In, Forgotten
<1>5. /\ Good(s, Counters) /\ s.worker[i] = "bytes"
      /\ (In(s, i) => ~s.row[i].local /\ i \notin Counters.forgotten)
  BY <1>3, <1>4, StartPhasesGood DEF SameRows, In
<1>. HIDE DEF s
<1>6. Good(a, Counters) /\ Good(f, Counters) BY <1>1, <1>3, <1>4, <1>5, RegisteredGood
<1>. HIDE DEF a, f
<1>7. Good(u, Counters) BY <1>6
<1>. HIDE DEF u
<1>. QED BY <1>2, <1>7, StoredSame

-----------------------------------------------------------------------------
(* Handlers of several rows                                                *)

\* The types of the variables, from the invariant.
LEMMA NowTyped ==
    ASSUME TrayInv
    PROVE  /\ pipe \in [Stages -> Gate] /\ items \in Seq(Items) /\ batch \in Batches
           /\ row \in [Items -> Row] /\ userPaused \in BOOLEAN /\ pump \in BOOLEAN
           /\ worker \in [Items -> Workers] /\ phases \in [Items -> PhasePcs]
           /\ strays \in SUBSET Items /\ resumer \in [Items -> Resumers]
           /\ resuming \in SUBSET Items /\ aborted \in SUBSET Items
           /\ server \in [Items -> Servers]
BY NowGood, NowFields, StateFields

\* A list has finitely many ids.
LEMMA IdsFinite ==
    ASSUME NEW q \in Seq(Items)
    PROVE  IsFiniteSet(Ids(q))
<1>1. Len(q) \in Nat /\ Len(q) <= Len(q) /\ SubSeq(q, 1, Len(q)) = q OBVIOUS
<1>. QED BY <1>1, FirstIds

\* claimNextQueued: the claimed rows were queued.
LEMMA PumpRunKeeps ==
    ASSUME TrayInv, NEW slots \in 1..FileSlots, PumpRun(slots)
    PROVE  Keeps
<1>. DEFINE inFlight == Cardinality({i \in Ids(items) : row[i].st = "uploading" /\ row[i].local})
            C        == {i \in Items : row[i].st = "queued" /\ ~row[i].paused}
            queued   == Only(items, C)
            free     == IF inFlight < slots THEN slots - inFlight ELSE 0
            k        == IF Len(queued) <= free THEN Len(queued) ELSE free
            claimed  == IF batch = "uploading" /\ ~userPaused
                        THEN {queued[j] : j \in 1..k} ELSE {}
            R        == [i \in Items |-> IF i \in claimed
                                         THEN [row[i] EXCEPT !.st = "uploading"] ELSE row[i]]
            W        == [i \in Items |-> IF i \in claimed THEN "wait" ELSE worker[i]]
            T        == [i \in Items |-> IF i \in claimed THEN 0 ELSE tries[i]]
            u        == [pipe |-> pipe, items |-> items, batch |-> batch, row |-> R,
                         userPaused |-> userPaused, pump |-> FALSE, worker |-> W,
                         phases |-> phases, strays |-> strays, resumer |-> resumer,
                         resuming |-> resuming, aborted |-> aborted, server |-> server]
<1>1. /\ row' = R /\ worker' = W /\ tries' = T /\ pump' = FALSE
      /\ UNCHANGED <<pipe, items, batch, userPaused, phases, strays, resumer, resuming,
                     aborted, server, bulk, made, tracked>>
  BY DEF PumpRun
<1>2. /\ Now \in State /\ items \in Seq(Items) /\ row \in [Items -> Row]
      /\ worker \in [Items -> Workers] /\ Gated(Now) /\ Few(Now) /\ Settled(Now)
      /\ tries \in [Items -> 0..MaxRetries] /\ Counts
  BY NowGood, NowFields, StateFields DEF TrayInv, Counts
<1>3. /\ queued \in Seq(Items)
      /\ \A n \in DOMAIN queued : queued[n] \in C /\ \E j \in DOMAIN items : queued[n] = items[j]
  <2>. HIDE DEF C
  <2>. QED BY <1>2, OnlyOf
<1>4. inFlight \in Nat
  <2>. DEFINE A == {i \in Ids(items) : row[i].st = "uploading" /\ row[i].local}
  <2>1. IsFiniteSet(Ids(items)) /\ A \subseteq Ids(items) BY <1>2, IdsFinite
  <2>. HIDE DEF A
  <2>2. IsFiniteSet(A) BY <2>1, FS_Subset
  <2>3. Cardinality(A) \in Nat BY <2>2, FS_CardinalityType
  <2>. QED BY <2>3 DEF A
<1>. HIDE DEF queued, inFlight
<1>5. \A j \in 1..k : j \in DOMAIN queued
  <2>1. Len(queued) \in Nat /\ DOMAIN queued = 1..Len(queued) BY <1>3
  <2>2. free \in Nat BY <1>4
  <2>. HIDE DEF free
  <2>3. k \in Nat /\ k <= Len(queued) BY <2>1, <2>2
  <2>. HIDE DEF k
  <2>. QED BY <2>1, <2>3
<1>6. \A i \in claimed : /\ i \in Items /\ i \in Ids(items) /\ row[i].st = "queued"
                         /\ batch = "uploading"
  <2>. HIDE DEF k
  <2>. QED BY <1>3, <1>5 DEF Ids
<1>. HIDE DEF claimed
<1>7. R \in [Items -> Row] /\ W \in [Items -> Workers]
  <2>1. \A i \in Items : [row[i] EXCEPT !.st = "uploading"] \in Row BY <1>2 DEF Row
  <2>. QED BY <1>2, <2>1 DEF Workers
<1>8. T \in [Items -> 0..MaxRetries]
  <2>1. 0 \in 0..MaxRetries BY LimitsAssumption
  <2>. QED BY <1>2, <2>1
<1>9. \A i \in Items \ claimed : R[i] = row[i] /\ W[i] = worker[i] /\ T[i] = tries[i] OBVIOUS
<1>10. \A i \in claimed :
         /\ R[i].st = "uploading" /\ R[i].local = row[i].local /\ R[i].fileId = row[i].fileId
         /\ R[i].sess = row[i].sess /\ R[i].reselect = row[i].reselect
         /\ R[i].reproc = row[i].reproc /\ W[i] = "wait"
  <2>. SUFFICES ASSUME NEW i \in claimed
                PROVE  /\ R[i].st = "uploading" /\ R[i].local = row[i].local
                       /\ R[i].fileId = row[i].fileId /\ R[i].sess = row[i].sess
                       /\ R[i].reselect = row[i].reselect
                       /\ R[i].reproc = row[i].reproc /\ W[i] = "wait"
    OBVIOUS
  <2>1. i \in Items /\ row[i] \in Row BY <1>2, <1>6
  <2>2. R[i] = [row[i] EXCEPT !.st = "uploading"] /\ W[i] = "wait" BY <2>1
  <2>. HIDE DEF R, W
  <2>. QED BY <2>1, <2>2 DEF Row
<1>. HIDE DEF R, W, T
<1>11. Now' = u BY <1>1 DEF Now
<1>12. u \in State BY <1>7, NowTyped DEF State
<1>13. /\ u.row = R /\ u.worker = W /\ u.items = items /\ u.resumer = resumer
       /\ u.resuming = resuming /\ u.batch = batch /\ u.pipe = pipe
  OBVIOUS
<1>. HIDE DEF u
<1>14. Later.tries = T /\ Later.made = made /\ Later.forgotten = Counters.forgotten
  BY <1>1 DEF Counters, Later
<1>15. ASSUME NEW i \in Items PROVE RowOK(u, i, Later)
  <2>1. RowOK(Now, i, Counters) /\ Counters.tries = tries /\ Counters.made = made BY NowGood
  <2>2. Picked(i, Later) <=> Picked(i, Counters) BY <1>14, <2>1 DEF Picked
  <2>3. (In(u, i) <=> i \in Ids(items)) /\ (In(Now, i) <=> i \in Ids(items))
    BY <1>13, NowFields DEF In
  <2>4. CASE i \notin claimed
    BY <1>9, <1>13, <1>14, <2>1, <2>2, <2>3, <2>4, NowFields DEF RowOK
  <2>5. CASE i \in claimed
    <3>1. Fits(i, row[i], worker[i], resumer[i], i \in resuming) /\ Picked(i, Counters)
      BY <1>6, <2>5, NowRow
    <3>2. Fits(i, R[i], W[i], resumer[i], i \in resuming)
      BY <1>6, <1>10, <2>5, <3>1 DEF Fits, Moving
    <3>3. i \in Uploads BY <1>6, <2>5, <3>1 DEF Fits
    <3>4. i \notin Rebuild BY <3>3, RowsAssumption
    <3>5. ~R[i].fileId /\ i \notin resuming /\ resumer[i] = "none"
      BY <1>6, <1>10, <2>5, <3>1 DEF Fits
    <3>. QED BY <1>10, <1>13, <2>2, <2>5, <3>1, <3>2, <3>4, <3>5 DEF RowOK
  <2>. QED BY <2>4, <2>5
<1>16. Gated(u) /\ Few(u) BY <1>2, <1>13, NowFields DEF Gated, Few
<1>17. Settled(u)
  <2>1. Ids(items) \subseteq Items BY <1>2, IdsIn
  <2>. QED BY <1>2, <1>6, <1>9, <1>13, <2>1, NowFields DEF Settled
<1>18. Good(u, Later) BY <1>12, <1>15, <1>16, <1>17 DEF Good, Fine
<1>19. Counts' BY <1>1, <1>2, <1>8 DEF Counts
<1>. QED BY <1>11, <1>18, <1>19, Renewed DEF Keeps, TrayInv

\* dismissUploadBatch: the rows of a complete batch go.
LEMMA DismissUploadBatchKeeps ==
    ASSUME TrayInv, DismissUploadBatch
    PROVE  Keeps
<1>. DEFINE B == [i \in Items |-> Blank]
            u == [pipe |-> pipe, items |-> <<>>, batch |-> "none", row |-> B,
                  userPaused |-> userPaused, pump |-> pump, worker |-> worker,
                  phases |-> phases, strays |-> strays, resumer |-> resumer,
                  resuming |-> resuming, aborted |-> aborted, server |-> server]
<1>1. /\ batch' = "none" /\ items' = <<>> /\ row' = B
      /\ UNCHANGED <<pipe, userPaused, pump, worker, tries, phases, strays,
                     resumer, resuming, aborted, server, bulk, made, tracked>>
  BY DEF DismissUploadBatch
<1>2. B \in [Items -> Row] BY BlankRow
<1>. HIDE DEF B
<1>3. Now' = u BY <1>1 DEF Now
<1>4. u \in State
  <2>1. <<>> \in Seq(Items) /\ "none" \in Batches BY DEF Batches
  <2>. QED BY <1>2, <2>1, NowTyped DEF State
<1>5. /\ u.items = <<>> /\ u.batch = "none" /\ u.worker = worker /\ u.resumer = resumer
      /\ u.resuming = resuming /\ u.pipe = pipe
  OBVIOUS
<1>. HIDE DEF u
<1>6. Ids(u.items) = {} BY <1>5 DEF Ids
<1>7. ASSUME NEW i \in Items PROVE RowOK(u, i, Counters)
  <2>1. RowOK(Now, i, Counters) BY NowGood
  <2>. QED BY <1>5, <1>6, <2>1, NowFields DEF RowOK, In
<1>8. Gated(u) /\ Few(u) BY <1>5, NowGood, NowFields DEF Gated, Few
<1>9. Settled(u) BY <1>5 DEF Settled
<1>10. Good(u, Counters) BY <1>4, <1>7, <1>8, <1>9 DEF Good, Fine
<1>11. bulk' \in {"none", "all", "rebuilds"} BY <1>1 DEF TrayInv, Counts
<1>. QED BY <1>1, <1>3, <1>5, <1>10, <1>11, Reached

\* retryUploadItem and retryFailedUploadItems: settled rows with their File are
\* queued again.
LEMMA RetryRowsKeeps ==
    ASSUME TrayInv, NEW R \in SUBSET Items, \A i \in R : CanRetry(i), RetryRows(R)
    PROVE  Keeps
<1>. DEFINE Q == [i \in Items |-> IF i \in R THEN [row[i] EXCEPT !.st = "queued",
                                                                 !.fileId = FALSE]
                                  ELSE row[i]]
            u == [Now EXCEPT !.row = Q, !.aborted = @ \ R, !.batch = "uploading"]
<1>1. Commit(PumpUpload(u)) /\ UNCHANGED <<tries, bulk, made, tracked>> BY DEF RetryRows
<1>2. \A i \in Items : row[i] \in Row /\ worker[i] \in Workers BY NowTyped
<1>3. \A i \in R :
        /\ Q[i] \in Row /\ Q[i].st = "queued" /\ ~Q[i].fileId /\ Q[i].local = row[i].local
        /\ Q[i].sess = row[i].sess /\ Q[i].reselect = row[i].reselect
        /\ Q[i].reproc = row[i].reproc
  <2>. SUFFICES ASSUME NEW i \in R
                PROVE  /\ Q[i] \in Row /\ Q[i].st = "queued" /\ ~Q[i].fileId
                       /\ Q[i].local = row[i].local /\ Q[i].sess = row[i].sess
                       /\ Q[i].reselect = row[i].reselect /\ Q[i].reproc = row[i].reproc
    OBVIOUS
  <2>1. Q[i] = [row[i] EXCEPT !.st = "queued", !.fileId = FALSE] /\ row[i] \in Row BY <1>2
  <2>. HIDE DEF Q
  <2>. QED BY <2>1 DEF Row
<1>4. \A i \in Items \ R : Q[i] = row[i] OBVIOUS
<1>5. Q \in [Items -> Row]
  <2>1. Q = [i \in Items |-> Q[i]] OBVIOUS
  <2>. HIDE DEF Q
  <2>. QED BY <1>2, <1>3, <1>4, <2>1
<1>. HIDE DEF Q
<1>6. u \in State BY <1>5, NowGood DEF State, Batches
<1>7. /\ u.row = Q /\ u.worker = worker /\ u.items = items /\ u.resumer = resumer
      /\ u.resuming = resuming /\ u.batch = "uploading" /\ u.pipe = pipe
  BY NowGood, NowFields DEF State
<1>. HIDE DEF u
<1>8. ASSUME NEW i \in Items PROVE RowOK(u, i, Counters)
  <2>1. RowOK(Now, i, Counters) BY NowGood
  <2>2. (In(u, i) <=> i \in Ids(items)) /\ (In(Now, i) <=> i \in Ids(items))
    BY <1>7, NowFields DEF In
  <2>3. CASE i \notin R BY <1>4, <1>7, <2>1, <2>2, <2>3, NowFields DEF RowOK
  <2>4. CASE i \in R
    <3>1. /\ i \in Ids(items) /\ row[i].st \in {"error", "cancelled"}
          /\ row[i].local /\ ~row[i].reselect
      BY <2>4 DEF CanRetry
    <3>2. Fits(i, row[i], worker[i], resumer[i], i \in resuming) /\ Picked(i, Counters)
      BY <3>1, NowRow
    <3>3. worker[i] = "idle" BY <1>2, <3>1, <3>2 DEF Fits, Moving, Workers
    <3>4. Fits(i, Q[i], worker[i], resumer[i], i \in resuming)
      BY <1>3, <2>4, <3>1, <3>2, <3>3 DEF Fits, Moving
    <3>. QED BY <1>3, <1>7, <2>1, <2>4, <3>2, <3>3, <3>4, NowFields DEF RowOK
  <2>. QED BY <2>3, <2>4
<1>9. Gated(u) /\ Few(u) BY <1>7, NowGood, NowFields DEF Gated, Few
<1>10. Settled(u) BY <1>7 DEF Settled
<1>11. Good(u, Counters) BY <1>6, <1>8, <1>9, <1>10 DEF Good, Fine
<1>12. Good(PumpUpload(u), Counters)
  BY <1>7, <1>11, PumpUploadGood DEF SameRows
<1>. QED BY <1>1, <1>12, StoredSame

\* clearCancelledHlsReprocessItems: rows go, the others stay as they are.
LEMMA ClearCancelledRebuildsKeeps ==
    ASSUME TrayInv, ClearCancelledRebuilds
    PROVE  Keeps
<1>. DEFINE gone == {i \in Items : row[i].reproc /\ row[i].st = "cancelled"}
            S    == Items \ gone
            left == Only(items, S)
            Q    == [i \in Items |-> IF i \in Ids(left) THEN row[i] ELSE Blank]
            b    == IF left = <<>> THEN "none" ELSE batch
            u    == [Now EXCEPT !.items = left, !.row = Q, !.batch = b]
<1>1. Commit(MaybeComplete(u)) /\ UNCHANGED <<tries, bulk, made, tracked>>
  <2>1. [Now EXCEPT !.items = left, !.row = Q,
                    !.batch = IF left = <<>> THEN "none" ELSE @] = u
    BY NowFields
  <2>. QED BY <2>1 DEF ClearCancelledRebuilds
<1>2. /\ left \in Seq(Items)
      /\ \A k \in DOMAIN left : \E n \in DOMAIN items : left[k] = items[n]
  <2>. HIDE DEF S
  <2>. QED BY NowTyped, OnlyOf
<1>. HIDE DEF left
<1>3. Q \in [Items -> Row] BY NowTyped, BlankRow
<1>4. b \in Batches /\ (b = "complete" => batch = "complete") BY NowTyped DEF Batches
<1>5. \A i \in Ids(left) : i \in Items /\ i \in Ids(items) /\ Q[i] = row[i]
  BY <1>2 DEF Ids
<1>. HIDE DEF Q, b
<1>6. u \in State BY <1>2, <1>3, <1>4, NowGood DEF State
<1>7. /\ u.row = Q /\ u.items = left /\ u.batch = b /\ u.worker = worker
      /\ u.resumer = resumer /\ u.resuming = resuming /\ u.pipe = pipe
  BY NowGood, NowFields DEF State
<1>. HIDE DEF u
<1>8. ASSUME NEW i \in Items PROVE RowOK(u, i, Counters)
  <2>1. RowOK(Now, i, Counters) BY NowGood
  <2>2. In(u, i) => In(Now, i) /\ u.row[i] = row[i] BY <1>5, <1>7, NowFields DEF In
  <2>. QED BY <1>7, <2>1, <2>2, NowFields DEF RowOK
<1>9. Gated(u) /\ Few(u) BY <1>7, NowGood, NowFields DEF Gated, Few
<1>10. Settled(u) BY <1>4, <1>5, <1>7, NowGood, NowFields DEF Settled
<1>11. Good(u, Counters) BY <1>6, <1>8, <1>9, <1>10 DEF Good, Fine
<1>12. Good(MaybeComplete(u), Counters)
  BY <1>7, <1>11, MaybeCompleteGood DEF SameRows
<1>. QED BY <1>1, <1>12, StoredSame

\* trackHlsReprocessFiles: a row for a file that is on the server.
LEMMA TrackKeeps ==
    ASSUME TrayInv, NEW i \in Rebuild, NEW b \in BOOLEAN, Track(i, b)
    PROVE  Keeps
<1>. DEFINE kept == IF batch = "none" THEN <<>> ELSE items
            q == Append(kept, i)
            r == [Blank EXCEPT !.st = "uploading", !.fileId = TRUE, !.reproc = b]
            u == [Now EXCEPT !.items = q, !.batch = "uploading", !.aborted = @ \ {i},
                             !.row = [row EXCEPT ![i] = r]]
<1>0. i \in Items BY RowsAssumption
<1>1. /\ worker[i] = "idle" /\ resumer[i] = "none"
      /\ i \notin resuming /\ made + tracked < MaxRows /\ tracked' = tracked + 1
      /\ UNCHANGED <<tries, bulk, made>>
  BY DEF Track
<1>2. Commit(PumpProcessing(u))
  <2>1. [Now EXCEPT !.items = q, !.batch = "uploading", !.aborted = @ \ {i}, !.row[i] = r] = u
    BY NowFields
  <2>. QED BY <2>1 DEF Track
<1>3. /\ r \in Row /\ r.st = "uploading" /\ r.fileId /\ ~r.local /\ ~r.reselect /\ ~r.sess
      /\ (r.reproc => i \in Rebuild)
  BY DEF Blank, Row
<1>4. q \in Seq(Items) /\ Ids(q) \subseteq Ids(items) \cup {i}
  <2>1. kept \in Seq(Items) /\ Ids(kept) \subseteq Ids(items) BY NowTyped DEF Ids
  <2>. HIDE DEF kept
  <2>2. q \in Seq(Items) BY <1>0, <2>1
  <2>3. ASSUME NEW n \in DOMAIN q PROVE q[n] \in Ids(kept) \cup {i}
    <3>1. DOMAIN q = 1..(Len(kept) + 1) /\ Len(kept) \in Nat BY <2>1
    <3>2. CASE n = Len(kept) + 1 BY <2>1, <3>2
    <3>3. CASE n # Len(kept) + 1
      <4>1. n \in 1..Len(kept) BY <3>1, <3>3
      <4>2. n \in DOMAIN kept /\ q[n] = kept[n] BY <2>1, <4>1
      <4>. QED BY <4>2 DEF Ids
    <3>. QED BY <3>2, <3>3
  <2>4. Ids(q) \subseteq Ids(kept) \cup {i}
    <3>. HIDE DEF q
    <3>. QED BY <2>3 DEF Ids
  <2>. QED BY <2>1, <2>2, <2>4
<1>. HIDE DEF q, r
<1>5. [row EXCEPT ![i] = r] \in [Items -> Row] BY <1>3, NowTyped
<1>6. u \in State BY <1>0, <1>4, <1>5, NowGood DEF State, Batches
<1>7. /\ u.row = [row EXCEPT ![i] = r] /\ u.items = q /\ u.batch = "uploading"
      /\ u.worker = worker /\ u.resumer = resumer /\ u.resuming = resuming
      /\ u.pipe = pipe
  BY NowGood, NowFields DEF State
<1>. HIDE DEF u
<1>8. u.row[i] = r /\ \A j \in Items \ {i} : u.row[j] = row[j] BY <1>0, <1>7, NowTyped
<1>9. OnlyRow(Now, u, i) BY <1>4, <1>7, <1>8, NowFields DEF OnlyRow, In
<1>10. Gated(u) BY <1>7, NowGood, NowFields DEF Gated
<1>11. Picked(i, Counters) BY DEF Picked
<1>12. Fits(i, r, worker[i], resumer[i], i \in resuming) BY <1>1, <1>3 DEF Fits, Moving
<1>13. Good(u, Counters) BY <1>0, <1>1, <1>6, <1>7, <1>8, <1>9, <1>10, <1>11, <1>12, OwnRow
<1>14. Good(PumpProcessing(u), Counters)
  BY <1>7, <1>13, PumpProcessingGood DEF SameButPolls
<1>15. Later = Counters BY <1>1 DEF Counters, Later
<1>16. Counts'
  <2>1. Counts BY DEF TrayInv
  <2>2. made \in Nat /\ tracked \in Nat /\ MaxRows \in Nat
    <3>1. Cardinality(Uploads) \in Nat BY RowsAssumption, FS_CardinalityType
    <3>. QED BY <2>1, <3>1, LimitsAssumption DEF Counts
  <2>3. tracked + 1 \in 0..MaxRows BY <1>1, <2>2
  <2>. QED BY <1>1, <2>1, <2>3 DEF Counts
<1>17. Good(PumpProcessing(u), Later) BY <1>14, <1>15
<1>. QED BY <1>2, <1>16, <1>17, Stored

\* startUploadBatch: new rows for files that were never picked before.
LEMMA StartUploadBatchKeeps ==
    ASSUME TrayInv, NEW n \in 1..Cardinality(Uploads), StartUploadBatch(n)
    PROVE  Keeps
<1>. DEFINE new   == [j \in 1..n |-> made + j]
            kept  == IF batch = "uploading" THEN items ELSE <<>>
            fresh == [i \in Items |->
                        IF i \in Ids(new) THEN [Blank EXCEPT !.local = TRUE]
                        ELSE IF i \in Ids(kept) THEN row[i] ELSE Blank]
            q     == kept \o new
            u     == [Now EXCEPT !.items = q, !.row = fresh, !.batch = "uploading"]
<1>1. /\ made + n <= Cardinality(Uploads) /\ made' = made + n
      /\ UNCHANGED <<tries, bulk, tracked>> /\ Commit(PumpUpload(u))
  BY DEF StartUploadBatch
<1>2. /\ made \in Nat /\ n \in Nat \ {0} /\ Cardinality(Uploads) \in Nat
      /\ Uploads = 1..Cardinality(Uploads)
  <2>1. Cardinality(Uploads) \in Nat BY RowsAssumption, FS_CardinalityType
  <2>. QED BY <2>1, RowsAssumption DEF TrayInv, Counts
<1>3. \A j \in 1..n : made + j \in Uploads /\ ~(made + j <= made) /\ made + j <= made + n
  BY <1>1, <1>2
<1>4. new \in Seq(Items) /\ \A i \in Ids(new) : /\ i \in Items /\ i \in Uploads
                                                /\ ~(i <= made) /\ i <= made + n
  <2>1. \A j \in 1..n : made + j \in Items BY <1>3, RowsAssumption
  <2>. QED BY <1>2, <1>3, <2>1 DEF Ids
<1>5. kept \in Seq(Items) /\ Ids(kept) \subseteq Ids(items) BY NowTyped DEF Ids
<1>. HIDE DEF new, kept
<1>6. q \in Seq(Items) /\ Ids(q) \subseteq Ids(kept) \cup Ids(new)
  <2>1. q \in Seq(Items) BY <1>4, <1>5
  <2>2. ASSUME NEW k \in DOMAIN q PROVE q[k] \in Ids(kept) \cup Ids(new)
    <3>1. /\ Len(kept) \in Nat /\ Len(new) \in Nat /\ DOMAIN q = 1..(Len(kept) + Len(new))
          /\ DOMAIN kept = 1..Len(kept) /\ DOMAIN new = 1..Len(new)
      BY <1>4, <1>5
    <3>2. CASE k <= Len(kept)
      <4>1. k \in DOMAIN kept /\ q[k] = kept[k] BY <1>4, <1>5, <3>1, <3>2
      <4>. QED BY <4>1 DEF Ids
    <3>3. CASE ~(k <= Len(kept))
      <4>1. k - Len(kept) \in DOMAIN new /\ q[k] = new[k - Len(kept)]
        BY <1>4, <1>5, <3>1, <3>3
      <4>. QED BY <4>1 DEF Ids
    <3>. QED BY <3>2, <3>3
  <2>. HIDE DEF q
  <2>3. Ids(q) \subseteq Ids(kept) \cup Ids(new) BY <2>2 DEF Ids
  <2>. QED BY <2>1, <2>3
<1>7. fresh \in [Items -> Row]
  <2>1. [Blank EXCEPT !.local = TRUE] \in Row BY DEF Blank, Row
  <2>. QED BY <2>1, BlankRow, NowTyped
<1>8. ASSUME NEW i \in Items
      PROVE  /\ i \in Ids(new) =>
                  /\ fresh[i].st = "queued" /\ fresh[i].local /\ ~fresh[i].fileId
                  /\ ~fresh[i].sess /\ ~fresh[i].reselect /\ ~fresh[i].reproc
             /\ i \notin Ids(new) /\ i \in Ids(kept) => fresh[i] = row[i]
  <2>1. i \in Ids(new) => fresh[i] = [Blank EXCEPT !.local = TRUE] OBVIOUS
  <2>2. i \notin Ids(new) /\ i \in Ids(kept) => fresh[i] = row[i] OBVIOUS
  <2>. HIDE DEF fresh
  <2>. QED BY <2>1, <2>2 DEF Blank
<1>. HIDE DEF q, fresh
<1>9. u \in State BY <1>6, <1>7, NowGood DEF State, Batches
<1>10. /\ u.row = fresh /\ u.items = q /\ u.batch = "uploading" /\ u.worker = worker
       /\ u.resumer = resumer /\ u.resuming = resuming /\ u.pipe = pipe
  BY NowGood, NowFields DEF State
<1>. HIDE DEF u
<1>11. /\ Later.made = made + n /\ Later.tries = tries
       /\ Later.forgotten = Forgotten /\ Counters.forgotten = Forgotten
  BY <1>1 DEF Counters, Later
<1>12. ASSUME NEW i \in Items PROVE RowOK(u, i, Later)
  <2>1. RowOK(Now, i, Counters) /\ Counters.made = made /\ Counters.tries = tries BY NowGood
  <2>2. In(u, i) => i \in Ids(kept) \cup Ids(new) BY <1>6, <1>10 DEF In
  <2>3. In(Now, i) <=> i \in Ids(items) BY NowFields DEF In
  <2>4. CASE i \in Ids(new)
    <3>1. i \in Uploads /\ i \notin Rebuild BY <1>4, <2>4, RowsAssumption
    <3>2. ~Picked(i, Counters) /\ Picked(i, Later)
      BY <1>4, <1>11, <2>1, <2>4, <3>1 DEF Picked
    <3>3. worker[i] = "idle" /\ resumer[i] = "none" /\ i \notin resuming
      BY <2>1, <3>2, NowFields DEF RowOK
    <3>4. Fits(i, fresh[i], worker[i], resumer[i], i \in resuming)
      BY <1>8, <2>4, <3>1, <3>3 DEF Fits, Moving
    <3>5. i \notin Forgotten BY <3>3 DEF Forgotten
    <3>. QED BY <1>10, <1>11, <3>1, <3>2, <3>3, <3>4, <3>5 DEF RowOK
  <2>5. CASE i \notin Ids(new)
    <3>1. In(u, i) => In(Now, i) /\ fresh[i] = row[i] BY <1>5, <1>8, <2>2, <2>3, <2>5
    <3>2. ~Picked(i, Later) => ~Picked(i, Counters)
      <4>1. CASE i \in Rebuild BY <4>1 DEF Picked
      <4>2. CASE i \notin Rebuild
        <5>1. i \in Nat BY <1>2, <4>2, RowsAssumption
        <5>. QED BY <1>2, <1>11, <2>1, <4>2, <5>1 DEF Picked
      <4>. QED BY <4>1, <4>2
    <3>. QED BY <1>10, <1>11, <2>1, <3>1, <3>2, NowFields DEF RowOK
  <2>. QED BY <2>4, <2>5
<1>13. Gated(u) /\ Few(u) BY <1>10, NowGood, NowFields DEF Gated, Few
<1>14. Settled(u) BY <1>10 DEF Settled
<1>15. Good(u, Later) BY <1>9, <1>12, <1>13, <1>14 DEF Good, Fine
<1>16. Good(PumpUpload(u), Later)
  BY <1>10, <1>15, PumpUploadGood DEF SameRows
<1>17. Counts'
  <2>1. made + n \in 0..Cardinality(Uploads) BY <1>1, <1>2
  <2>. QED BY <1>1, <2>1 DEF TrayInv, Counts
<1>. QED BY <1>1, <1>16, <1>17, Stored

\* internalFromPersisted and reconcileRestoredItems: what a row of the batch is
\* once the page was reloaded.
LEMMA RestoredFits ==
    ASSUME TrayInv, NEW i \in Items, i \in Ids(items), NEW r,
           r = IF batch = "complete" THEN FromPersisted(row[i]) ELSE Reconciled(row[i])
    PROVE  /\ r \in Row /\ Fits(i, r, "idle", "none", FALSE)
           /\ batch = "complete" => r.st \in Terminal
           /\ r.st = "uploading" => row[i].st = "uploading" /\ row[i].fileId
<1>. DEFINE o == row[i]
            p == FromPersisted(o)
<1>1. /\ o \in Row /\ Fits(i, o, worker[i], resumer[i], i \in resuming)
      /\ (batch = "complete" => o.st \in Terminal)
  BY NowRow
<1>. HIDE DEF o
<1>2. /\ p \in Row /\ p.st = o.st /\ ~p.local /\ p.fileId = o.fileId /\ p.sess = o.sess
      /\ p.reselect = o.reselect /\ ~p.reproc
  BY <1>1 DEF FromPersisted, Row
<1>. HIDE DEF p
<1>3. o.reselect => o.st = "error" /\ ~o.fileId BY <1>1 DEF Fits
<1>4. o.sess => i \in Uploads BY <1>1 DEF Fits
<1>5. CASE batch = "complete" \/ (batch # "complete" /\ o.st # "queued"
                                   /\ ~(o.st = "uploading" /\ ~o.fileId))
  <2>1. r = p
    <3>1. CASE batch = "complete" BY <3>1 DEF o, p
    <3>2. CASE batch # "complete" /\ o.st # "queued" /\ ~(o.st = "uploading" /\ ~o.fileId)
      <4>1. r = Reconciled(o) BY <3>2 DEF o
      <4>. QED BY <3>2, <4>1 DEF Reconciled, p
    <3>. QED BY <1>5, <3>1, <3>2
  <2>2. r.st # "queued" BY <1>1, <1>2, <1>5, <2>1 DEF Terminal
  <2>3. r.st = "uploading" => o.st = "uploading" /\ o.fileId
    BY <1>1, <1>2, <1>5, <2>1 DEF Terminal
  <2>. QED BY <1>1, <1>2, <1>3, <1>4, <2>1, <2>2, <2>3 DEF Fits, Moving, o
<1>6. CASE batch # "complete" /\ o.st = "queued"
  <2>1. r = [p EXCEPT !.st = "cancelled"] BY <1>6 DEF Reconciled, p, o
  <2>2. /\ r \in Row /\ r.st = "cancelled" /\ ~r.local /\ r.fileId = p.fileId
        /\ r.sess = p.sess /\ r.reselect = p.reselect /\ ~r.reproc
    BY <1>2, <2>1 DEF Row, Terminal
  <2>3. ~r.reselect BY <1>2, <1>3, <1>6, <2>2
  <2>. QED BY <1>2, <1>4, <1>6, <2>2, <2>3 DEF Fits, Moving
<1>7. CASE batch # "complete" /\ o.st = "uploading" /\ ~o.fileId
  <2>1. r = [p EXCEPT !.st = "error", !.reselect = @ \/ o.sess]
    BY <1>7 DEF Reconciled, p, o
  <2>2. o.sess \in BOOLEAN /\ p.reselect \in BOOLEAN BY <1>1, <1>2 DEF Row
  <2>3. /\ r \in Row /\ r.st = "error" /\ ~r.local /\ r.fileId = p.fileId
        /\ r.sess = p.sess /\ ~r.reproc
    <3>. DEFINE b == p.reselect \/ o.sess
    <3>1. b \in BOOLEAN BY <2>2
    <3>2. r = [p EXCEPT !.st = "error", !.reselect = b] BY <2>1
    <3>. HIDE DEF b
    <3>. QED BY <1>2, <3>1, <3>2 DEF Row, Terminal
  <2>. QED BY <1>2, <1>4, <1>7, <2>3 DEF Fits, Moving
<1>. QED BY <1>5, <1>6, <1>7

\* The page is reloaded: the rows are restored without coroutines.
LEMMA ReloadKeeps ==
    ASSUME TrayInv, Reload
    PROVE  Keeps
<1>. DEFINE back(i) == IF batch = "complete" THEN FromPersisted(row[i]) ELSE Reconciled(row[i])
            Q == [i \in Items |-> IF i \in Ids(items) THEN back(i) ELSE Blank]
            W == [i \in Items |-> "idle"]
            P == [i \in Items |-> "none"]
            t == [Now EXCEPT !.pipe = EmptyPipe, !.userPaused = FALSE, !.pump = FALSE,
                             !.row = Q, !.worker = W, !.phases = P, !.strays = {},
                             !.resumer = P, !.resuming = {}, !.aborted = {}]
            u == IF batch = "uploading" THEN MaybeComplete(PumpProcessing(t)) ELSE t
<1>1. Commit(u) /\ bulk' = "none" /\ UNCHANGED <<tries, made, tracked>> BY DEF Reload
<1>2. ASSUME NEW i \in Items
      PROVE  /\ Q[i] \in Row
             /\ i \in Ids(items) =>
                  /\ Fits(i, Q[i], "idle", "none", FALSE)
                  /\ batch = "complete" => Q[i].st \in Terminal
                  /\ Q[i].st = "uploading" => row[i].st = "uploading" /\ row[i].fileId
  <2>1. CASE i \in Ids(items)
    <3>1. Q[i] = IF batch = "complete" THEN FromPersisted(row[i]) ELSE Reconciled(row[i])
      BY <2>1
    <3>. HIDE DEF Q
    <3>. QED BY <2>1, <3>1, RestoredFits
  <2>2. CASE i \notin Ids(items) BY <2>2, BlankRow
  <2>. QED BY <2>1, <2>2
<1>3. Q \in [Items -> Row]
  <2>1. Q = [i \in Items |-> Q[i]] OBVIOUS
  <2>. HIDE DEF Q
  <2>. QED BY <1>2, <2>1
<1>4. W \in [Items -> Workers] /\ P \in [Items -> PhasePcs] /\ P \in [Items -> Resumers]
  BY DEF Workers, PhasePcs, Resumers
<1>5. \A i \in Items : W[i] = "idle" /\ P[i] = "none" OBVIOUS
<1>. HIDE DEF Q, W, P
<1>6. t \in State BY <1>3, <1>4, EmptyPipeSound, NowGood DEF State
<1>7. /\ t.row = Q /\ t.worker = W /\ t.resumer = P /\ t.resuming = {} /\ t.pipe = EmptyPipe
      /\ t.items = items /\ t.batch = batch
  BY NowGood, NowFields DEF State
<1>. HIDE DEF t
<1>8. ASSUME NEW i \in Items PROVE RowOK(t, i, Counters)
  <2>1. RowOK(Now, i, Counters) BY NowGood
  <2>2. (In(t, i) <=> i \in Ids(items)) /\ (In(Now, i) <=> i \in Ids(items))
    BY <1>7, NowFields DEF In
  <2>3. t.worker[i] = "idle" /\ t.resumer[i] = "none" /\ i \notin t.resuming BY <1>5, <1>7
  <2>4. In(t, i) => Fits(i, t.row[i], t.worker[i], t.resumer[i], i \in t.resuming)
    <3>. SUFFICES ASSUME In(t, i)
                  PROVE  Fits(i, t.row[i], t.worker[i], t.resumer[i], i \in t.resuming)
      OBVIOUS
    <3>1. Fits(i, t.row[i], "idle", "none", FALSE) BY <1>2, <1>7, <2>2
    <3>. QED BY <2>3, <3>1 DEF Fits, Moving
  <2>5. i \in Counters.forgotten /\ In(t, i) => t.row[i].st # "uploading"
    BY <1>2, <1>7, <2>1, <2>2, NowFields DEF RowOK
  <2>. QED BY <1>7, <2>1, <2>2, <2>3, <2>4, <2>5, NowFields DEF RowOK
<1>9. Gated(t) BY <1>7, EmptyPipeSound DEF Gated
<1>10. Few(t)
  <2>1. IsFiniteSet({}) /\ Cardinality({}) = 0 BY FS_EmptySet
  <2>. QED BY <1>7, <2>1, StageLimitAssumption DEF Few
<1>11. Settled(t)
  <2>1. Ids(items) \subseteq Items BY NowTyped, IdsIn
  <2>. QED BY <1>2, <1>7, <2>1 DEF Settled
<1>12. Good(t, Counters) BY <1>6, <1>8, <1>9, <1>10, <1>11 DEF Good, Fine
<1>13. Good(PumpProcessing(t), Counters)
  BY <1>7, <1>12, PumpProcessingGood DEF SameButPolls
<1>14. Good(MaybeComplete(PumpProcessing(t)), Counters)
  BY <1>13, MaybeCompleteGood DEF SameRows
<1>15. Good(u, Counters) BY <1>7, <1>12, <1>14
<1>. HIDE DEF u
<1>. QED BY <1>1, <1>15, StoredSame

-----------------------------------------------------------------------------
(* The handlers that cancel                                                *)

\* The rejected workers reach their finally.
LEMMA AfterAbortGood ==
    ASSUME NEW t, NEW m, Good(t, m), NEW cancelled
    PROVE  Good(AfterAbort(t, cancelled), m)
BY AfterUploadGood DEF AfterAbort

\* cancelUploadItem, for a rebuild and for an upload.
LEMMA CancelUploadItemKeeps ==
    ASSUME TrayInv, NEW i \in Items, CancelUploadItem(i)
    PROVE  Keeps
<1>. DEFINE c == CancelRebuild(Now, i)
            b == PumpProcessing(MaybeComplete(c))
            d == CancelUpload(Now, i)
            a == AfterAbort(d, <<i>>)
            u == IF row[i].reproc THEN b ELSE a
<1>1. /\ i \in Ids(items) /\ row[i].st # "done" /\ Commit(u)
      /\ UNCHANGED <<tries, bulk, made, tracked>>
  BY DEF CancelUploadItem
<1>2. Good(Now, Counters) /\ In(Now, i) /\ Now.row = row
  BY <1>1, NowGood, NowFields DEF In
<1>3. CASE row[i].reproc
  <2>1. Good(c, Counters)
    BY <1>2, <1>3, CancelRebuildGood
  <2>. HIDE DEF c
  <2>2. Good(MaybeComplete(c), Counters)
    BY <2>1, MaybeCompleteGood DEF SameRows
  <2>3. Good(b, Counters)
    BY <2>2, PumpProcessingGood DEF SameButPolls
  <2>4. Commit(b) BY <1>1, <1>3
  <2>. HIDE DEF b
  <2>. QED BY <1>1, <2>3, <2>4, StoredSame
<1>4. CASE ~row[i].reproc
  <2>1. Good(d, Counters) BY <1>2, CancelUploadGood
  <2>. HIDE DEF d
  <2>2. Good(a, Counters) BY <2>1, AfterAbortGood
  <2>3. Commit(a) BY <1>1, <1>4
  <2>. HIDE DEF a
  <2>. QED BY <1>1, <2>2, <2>3, StoredSame
<1>. QED BY <1>3, <1>4

\* Rows of the batch, oldest first.
LEMMA OwnRows ==
    ASSUME TrayInv, NEW S, NEW q, q = Only(items, S)
    PROVE  q \in Seq(Items) /\ \A n \in DOMAIN q : q[n] \in S /\ q[n] \in Ids(items)
<1>1. items \in Seq(Items) BY NowTyped
<1>2. /\ q \in Seq(Items)
      /\ \A n \in DOMAIN q : q[n] \in S /\ \E k \in DOMAIN items : q[n] = items[k]
  BY <1>1, OnlyOf
<1>. QED BY <1>2 DEF Ids

\* cancelAllUploadItems: each pending row is cancelled.
LEMMA CancelAllUploadItemsKeeps ==
    ASSUME TrayInv, CancelAllUploadItems
    PROVE  Keeps
<1>. DEFINE q == Only(items, {i \in Items : Pending(i)})
            d == Each(CancelUpload, Now, q)
            u == AfterAbort(d, q)
<1>1. Commit(u) /\ UNCHANGED <<tries, bulk, made, tracked>> BY DEF CancelAllUploadItems
<1>2. q \in Seq(Items) BY OwnRows
<1>. HIDE DEF q
<1>3. Good(d, Counters) BY <1>2, NowGood, CancelEach
<1>. HIDE DEF d
<1>4. Good(u, Counters) BY <1>3, AfterAbortGood
<1>. HIDE DEF u
<1>. QED BY <1>1, <1>4, StoredSame

\* The server has answered cancelAllHlsReprocess.
LEMMA CancelAllAnsweredKeeps ==
    ASSUME TrayInv, NEW ok \in BOOLEAN, CancelAllAnswered(ok)
    PROVE  Keeps
<1>. DEFINE A == {i \in Items : row[i].reproc /\ Pending(i)}
            rebuilds == Only(items, A)
            others   == Only(items, {i \in Items : ~row[i].reproc /\ Pending(i)})
            c        == Each(CancelRebuild, Now, rebuilds)
            t        == IF ok THEN MaybeComplete(c) ELSE Now
            d        == Each(CancelUpload, t, others)
            a        == AfterAbort(d, others)
            u        == IF bulk = "rebuilds" \/ t.batch # "uploading" THEN t ELSE a
<1>1. Commit(u) /\ bulk' = "none" /\ UNCHANGED <<tries, made, tracked>>
  BY DEF CancelAllAnswered
<1>2. /\ rebuilds \in Seq(Items)
      /\ \A n \in DOMAIN rebuilds : In(Now, rebuilds[n]) /\ Now.row[rebuilds[n]].reproc
  <2>1. \A i \in A : row[i].reproc OBVIOUS
  <2>2. /\ rebuilds \in Seq(Items)
        /\ \A n \in DOMAIN rebuilds : rebuilds[n] \in A /\ rebuilds[n] \in Ids(items)
    <3>. HIDE DEF A
    <3>. QED BY OwnRows
  <2>. HIDE DEF A, rebuilds
  <2>. QED BY <2>1, <2>2, NowFields DEF In
<1>3. others \in Seq(Items) BY OwnRows
<1>. HIDE DEF rebuilds, others
<1>4. Good(c, Counters) BY <1>2, NowGood, RebuildEach
<1>. HIDE DEF c
<1>5. Good(t, Counters) BY <1>4, NowGood, MaybeCompleteGood
<1>. HIDE DEF t
<1>6. Good(d, Counters) BY <1>3, <1>5, CancelEach
<1>. HIDE DEF d
<1>7. Good(a, Counters) BY <1>6, AfterAbortGood
<1>. HIDE DEF a
<1>8. Good(u, Counters) BY <1>5, <1>7
<1>. HIDE DEF u
<1>. QED BY <1>1, <1>8, StoredSame

\* cancelAllHlsReprocess is sent: nothing else changes.
LEMMA CancelAllRebuildsKeeps ==
    ASSUME TrayInv, NEW rows \in {"all", "rebuilds"}, CancelAllRebuilds(rows)
    PROVE  Keeps
<1>1. /\ bulk' = rows
      /\ UNCHANGED <<pipe, items, batch, row, userPaused, pump, worker, tries, phases,
                     strays, resumer, resuming, aborted, server, made, tracked>>
  BY DEF CancelAllRebuilds
<1>2. Now' = Now BY <1>1 DEF Now
<1>3. Good(Now, Counters) BY NowGood
<1>. QED BY <1>1, <1>2, <1>3, Reached

\* removeUploadBatchItem: the row goes, and the file it names with it.
LEMMA RemoveUploadBatchItemKeeps ==
    ASSUME TrayInv, NEW i \in Items, RemoveUploadBatchItem(i)
    PROVE  Keeps
<1>. DEFINE d == DeleteServerFile(Now, i)
            u == RemoveRow(d, i)
<1>1. Commit(u) /\ UNCHANGED <<tries, bulk, made, tracked>> BY DEF RemoveUploadBatchItem
<1>2. Good(d, Counters) BY NowGood, DeleteServerFileGood
<1>. HIDE DEF d
<1>3. Good(u, Counters) BY <1>2, RemoveRowGood
<1>. HIDE DEF u
<1>. QED BY <1>1, <1>3, StoredSame

-----------------------------------------------------------------------------
(* The tray as a whole                                                     *)

\* The tray starts empty: no file is picked and no row has a coroutine.
LEMMA InitTray ==
    ASSUME Init
    PROVE  TrayInv
<1>1. /\ items = <<>> /\ batch = "none" /\ row = [i \in Items |-> Blank]
      /\ userPaused = FALSE /\ pump = FALSE /\ worker = [i \in Items |-> "idle"]
      /\ phases = [i \in Items |-> "none"] /\ strays = {}
      /\ resumer = [i \in Items |-> "none"] /\ resuming = {} /\ aborted = {}
      /\ server = [i \in Items |-> IF i \in Rebuild THEN "stored" ELSE "none"]
  BY DEF Init
<1>2. /\ tries = [i \in Items |-> 0] /\ bulk = "none" /\ made = 0 /\ tracked = 0
      /\ pipe = EmptyPipe
  BY DEF Init, PipeInit
<1>3. Now \in State
  <2>1. pipe \in [Stages -> Gate] BY <1>2, EmptyPipeSound
  <2>2. row \in [Items -> Row] BY <1>1, BlankRow
  <2>3. server \in [Items -> Servers] BY <1>1 DEF Servers
  <2>4. worker \in [Items -> Workers] /\ phases \in [Items -> PhasePcs]
        /\ resumer \in [Items -> Resumers]
    BY <1>1 DEF Workers, PhasePcs, Resumers
  <2>5. items \in Seq(Items) /\ batch \in Batches BY <1>1 DEF Batches
  <2>. QED BY <1>1, <2>1, <2>2, <2>3, <2>4, <2>5 DEF Now, State
<1>4. Gated(Now) BY <1>2, EmptyPipeSound, NowFields DEF Gated
<1>5. Ids(items) = {} BY <1>1 DEF Ids
<1>6. Settled(Now) /\ \A i \in Items : ~In(Now, i) BY <1>5, NowFields DEF Settled, In
<1>7. Few(Now) BY <1>1, NowFields, FS_EmptySet, StageLimitAssumption DEF Few
<1>8. ASSUME NEW i \in Items PROVE RowOK(Now, i, Counters)
  <2>1. Now.worker[i] = "idle" /\ Now.resumer[i] = "none" /\ i \notin Now.resuming
    BY <1>1, NowFields
  <2>. QED BY <1>6, <2>1 DEF RowOK
<1>9. Counts
  <2>1. Cardinality(Uploads) \in Nat BY RowsAssumption, FS_CardinalityType
  <2>. QED BY <1>2, <2>1, LimitsAssumption DEF Counts
<1>. QED BY <1>3, <1>4, <1>6, <1>7, <1>8, <1>9 DEF TrayInv, Good, Fine

\* Every step of the user keeps the tray's invariant.
LEMMA UserStepKeeps ==
    ASSUME TrayInv, UserStep
    PROVE  Keeps
<1>1. ASSUME NEW n \in 1..Cardinality(Uploads), StartUploadBatch(n) PROVE Keeps
  BY <1>1, StartUploadBatchKeeps
<1>2. ASSUME NEW i \in Rebuild, NEW reproc \in BOOLEAN, Track(i, reproc) PROVE Keeps
  BY <1>2, TrackKeeps
<1>3. CASE DismissUploadBatch BY <1>3, DismissUploadBatchKeeps
<1>4. CASE SetUploadBatchPaused BY <1>4, SetUploadBatchPausedKeeps
<1>5. ASSUME NEW i \in Items, SetUploadItemPaused(i) PROVE Keeps
  BY <1>5, SetUploadItemPausedKeeps
<1>6. ASSUME NEW i \in Items, CancelUploadItem(i) PROVE Keeps
  BY <1>6, CancelUploadItemKeeps
<1>7. CASE CancelAllUploadItems BY <1>7, CancelAllUploadItemsKeeps
<1>8. CASE ClearCancelledRebuilds BY <1>8, ClearCancelledRebuildsKeeps
<1>9. ASSUME NEW rows \in {"all", "rebuilds"}, CancelAllRebuilds(rows) PROVE Keeps
  BY <1>9, CancelAllRebuildsKeeps
<1>10. ASSUME NEW i \in Items, RemoveUploadBatchItem(i) PROVE Keeps
  BY <1>10, RemoveUploadBatchItemKeeps
<1>11. ASSUME NEW i \in Items, RetryUploadItem(i) PROVE Keeps
  <2>1. CanRetry(i) /\ RetryRows({i}) BY <1>11 DEF RetryUploadItem
  <2>2. {i} \in SUBSET Items /\ \A j \in {i} : CanRetry(j) BY <2>1
  <2>. QED BY <2>1, <2>2, RetryRowsKeeps
<1>12. CASE RetryFailedUploadItems
  <2>. DEFINE R == {i \in Items : CanRetry(i) /\ row[i].st = "error"}
  <2>1. RetryRows(R) BY <1>12 DEF RetryFailedUploadItems
  <2>2. R \in SUBSET Items /\ \A j \in R : CanRetry(j) OBVIOUS
  <2>. HIDE DEF R
  <2>. QED BY <2>1, <2>2, RetryRowsKeeps
<1>13. ASSUME NEW i \in Items, ReattachUploadFile(i) PROVE Keeps
  BY <1>13, ReattachUploadFileKeeps
<1>14. CASE Reload BY <1>14, ReloadKeeps
<1>. QED
  BY <1>1, <1>2, <1>3, <1>4, <1>5, <1>6, <1>7, <1>8, <1>9, <1>10, <1>11, <1>12,
     <1>13, <1>14
  DEF UserStep

\* Every step of row i's coroutines keeps the tray's invariant.
LEMMA RowStepKeeps ==
    ASSUME TrayInv, NEW i \in Items,
           \/ StartTransfer(i) \/ SessionReady(i) \/ ServerStores(i)
           \/ TransferStep(i) \/ RetryTransfer(i)
           \/ PhaseStep(i)
           \/ StrayPainted(i)
           \/ ResumeEntered(i)
           \/ \E s \in Stages : PollProgress(i, s)
           \/ \E r \in Terminal : ResumeDone(i, r)
    PROVE  Keeps
<1>1. CASE StartTransfer(i) BY <1>1, StartTransferKeeps
<1>2. CASE SessionReady(i) BY <1>2, SessionReadyKeeps
<1>3. CASE TransferStep(i)
  <2>1. CASE BytesDone(i) BY <2>1, BytesDoneKeeps
  <2>2. ASSUME NEW awaits \in BOOLEAN, RespondOk(i, awaits) PROVE Keeps
    BY <2>2, RespondOkKeeps
  <2>3. ASSUME NEW awaits \in BOOLEAN, ResumableOk(i, awaits) PROVE Keeps
    BY <2>3, ResumableOkKeeps
  <2>4. ASSUME NEW retry \in BOOLEAN, Fail(i, retry) PROVE Keeps
    BY <2>4, FailKeeps
  <2>. QED BY <1>3, <2>1, <2>2, <2>3, <2>4 DEF TransferStep
<1>4. CASE RetryTransfer(i) BY <1>4, RetryTransferKeeps
<1>5. CASE PhaseStep(i)
  <2>1. CASE PhaseFinished(i) BY <2>1, PhaseFinishedKeeps
  <2>2. CASE PhaseEntered(i) \/ PhaseBeat(i) \/ PhasePainted(i) \/ PhaseStoring(i)
    BY <2>2, PhaseKeeps
  <2>. QED BY <1>5, <2>1, <2>2 DEF PhaseStep
<1>6. CASE StrayPainted(i) BY <1>6, PhaseKeeps
<1>7. CASE ResumeEntered(i) BY <1>7, ResumeEnteredKeeps
<1>8. CASE \E s \in Stages : PollProgress(i, s) BY <1>8, PhaseKeeps
<1>9. ASSUME NEW r \in Terminal, ResumeDone(i, r) PROVE Keeps
  BY <1>9, ResumeDoneKeeps
<1>10. CASE ServerStores(i) BY <1>10, ServerStoresKeeps
<1>. QED BY <1>1, <1>2, <1>3, <1>4, <1>5, <1>6, <1>7, <1>8, <1>9, <1>10

\* Every step keeps the tray's invariant and polls no row that is polled.
LEMMA NextKeeps ==
    ASSUME TrayInv, Next
    PROVE  Keeps
<1>1. CASE UserStep BY <1>1, UserStepKeeps
<1>2. ASSUME NEW ok \in BOOLEAN, CancelAllAnswered(ok) PROVE Keeps
  BY <1>2, CancelAllAnsweredKeeps
<1>3. ASSUME NEW slots \in 1..FileSlots, PumpRun(slots) PROVE Keeps
  BY <1>3, PumpRunKeeps
<1>4. ASSUME NEW i \in Items,
             \/ StartTransfer(i) \/ SessionReady(i) \/ ServerStores(i)
             \/ TransferStep(i) \/ RetryTransfer(i)
             \/ PhaseStep(i)
             \/ StrayPainted(i)
             \/ ResumeEntered(i)
             \/ \E s \in Stages : PollProgress(i, s)
             \/ \E r \in Terminal : ResumeDone(i, r)
      PROVE  Keeps
  BY <1>4, RowStepKeeps
<1>. QED BY <1>1, <1>2, <1>3, <1>4 DEF Next

\* The tray's invariant is inductive.
LEMMA TrayInductive == Spec => []TrayInv
<1>1. Init => TrayInv BY InitTray
<1>2. TrayInv /\ [Next]_vars => TrayInv'
  <2>1. TrayInv /\ Next => TrayInv' BY NextKeeps DEF Keeps
  <2>2. TrayInv /\ UNCHANGED vars => TrayInv'
    <3>. SUFFICES ASSUME TrayInv, UNCHANGED vars PROVE TrayInv' OBVIOUS
    <3>1. Now' = Now BY DEF vars, Now
    <3>2. Counters' = Counters BY DEF vars, Counters, Forgotten
    <3>3. Counts' BY DEF vars, Counts, TrayInv
    <3>. QED BY <3>1, <3>2, <3>3 DEF TrayInv
  <2>. QED BY <2>1, <2>2
<1>. QED BY <1>1, <1>2, PTL DEF Spec

\* upload-manager.ts and upload-pipeline.ts: every variable of the tray keeps its
\* shape, and no row is retried more than UPLOAD_MAX_RETRIES times.
THEOREM TrayTypeOK == Spec => []TypeOK
<1>1. TrayInv => TypeOK
  <2>. SUFFICES ASSUME TrayInv PROVE TypeOK OBVIOUS
  <2>1. Now \in State BY NowGood
  <2>2. /\ pipe \in [Stages -> Gate] /\ items \in Seq(Items) /\ batch \in Batches
        /\ row \in [Items -> Row] /\ userPaused \in BOOLEAN /\ pump \in BOOLEAN
        /\ worker \in [Items -> Workers] /\ phases \in [Items -> PhasePcs]
        /\ strays \in SUBSET Items /\ resumer \in [Items -> Resumers]
        /\ resuming \in SUBSET Items /\ aborted \in SUBSET Items
        /\ server \in [Items -> Servers]
    BY <2>1, StateFields, NowFields
  <2>3. Counts BY DEF TrayInv
  <2>. QED
    BY <2>2, <2>3
    DEF TypeOK, PipeTypeOK, Counts, Batches, Workers, PhasePcs, Resumers, Servers
<1>. QED BY <1>1, TrayInductive, PTL

\* upload-pipeline.ts under every caller of the tray: each stage gate is bounded,
\* hands a free slot on, and agrees with its wait queue and its resolvers.
THEOREM TrayGatesSound == Spec => []GatesSound
<1>1. TrayInv => GatesSound BY NowGood, NowFields DEF Gated, GatesSound
<1>. QED BY <1>1, TrayInductive, PTL

\* claimNextQueued: a row that waits to be claimed has its bytes and no worker,
\* so that no two workers upload one file.
THEOREM NeverStartedTwice == Spec => []NoDoubleStart
<1>1. TrayInv => NoDoubleStart
  <2>. SUFFICES ASSUME TrayInv, NEW i \in Ids(items), row[i].st = "queued"
                PROVE  worker[i] = "idle" /\ row[i].local
    BY DEF NoDoubleStart
  <2>1. items \in Seq(Items) BY NowGood, StateFields, NowFields
  <2>2. i \in Items BY <2>1, IdsIn
  <2>3. Fits(i, row[i], worker[i], resumer[i], i \in resuming) BY <2>2, NowRow
  <2>. QED BY <2>3 DEF Fits
<1>. QED BY <1>1, TrayInductive, PTL

\* maybeCompleteBatch: a batch that says it is complete has only settled rows.
THEOREM CompleteBatchIsSettled == Spec => []CompleteIsSettled
<1>1. TrayInv => CompleteIsSettled
  BY NowGood, NowFields DEF Settled, CompleteIsSettled
<1>. QED BY <1>1, TrayInductive, PTL

\* pumpProcessingQueue: at most PIPELINE_STAGE_LIMIT rows are polled at once, and
\* each of them is past its bytes.
THEOREM PollsAreBounded == Spec => []PollersBounded
<1>1. TrayInv => PollersBounded
  <2>. SUFFICES ASSUME TrayInv PROVE PollersBounded OBVIOUS
  <2>1. Cardinality(resuming) <= StageLimit BY NowGood, NowFields DEF Few
  <2>2. ASSUME NEW i \in resuming \cap Ids(items)
        PROVE  row[i].st # "queued" /\ row[i].fileId
    <3>1. items \in Seq(Items) BY NowGood, StateFields, NowFields
    <3>2. i \in Items BY <3>1, IdsIn
    <3>3. Fits(i, row[i], worker[i], resumer[i], i \in resuming) BY <3>2, NowRow
    <3>. QED BY <3>3 DEF Fits
  <2>. QED BY <2>1, <2>2 DEF PollersBounded
<1>. QED BY <1>1, TrayInductive, PTL

\* resumingItemIds: although cancelUploadItem takes a row out while its poll is on
\* its way, no second poll is started for the row until the first has ended, as
\* such a row is no longer one pumpProcessingQueue may start.
THEOREM NeverPolledTwice == Spec => PolledOnce
<1>1. TrayInv /\ [Next]_vars => [Unpolled]_vars
  <2>1. TrayInv /\ Next => Unpolled BY NextKeeps DEF Keeps
  <2>. QED BY <2>1
<1>. QED BY <1>1, TrayInductive, PTL DEF Spec, PolledOnce, Unpolled
=============================================================================
