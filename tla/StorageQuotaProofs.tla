------------------------ MODULE StorageQuotaProofs -------------------------
(* How far the quota may be exceeded, for every number of handlers,        *)
(* sessions, files and every quota.                                        *)
EXTENDS StorageQuota, FiniteSetTheorems, TLAPS

USE QuotaAssumption

\* A request that may insert files, as far as the stored bytes it read say:
\* it was admitted, or only the reservations can still refuse it.
Admitted(h) ==
    /\ handler[h].op # "create"
    /\ \/ At(h, "insert")
       \/ At(h, "reserved") /\ handler[h].used + handler[h].need <= Quota

\* The units still to come, one pair for each.
Promised == {p \in Handlers \X (1..MaxSave) :
                Admitted(p[1]) /\ p[2] <= handler[p[1]].need}

\* A request in the quota check asks for something.
Needy == \A h \in Handlers :
            handler[h].pc \in {"used", "reserved"} => handler[h].need >= 1

Others == (Cardinality(Handlers) - 1) * MaxSave

\* The last request to read the stored bytes saw room for its own units; those
\* of the others are at most Others.
PromisesBounded == live + Cardinality(Promised) <= Quota + unchecked + Others

\* Creates that passed the check and have not inserted their session.
Creating == {h \in Handlers : At(h, "insert") /\ handler[h].op = "create"}

CreatesBounded ==
    Cardinality(res) + Cardinality(Creating) <= Quota + Cardinality(Handlers) - 1

QuotaInv == TypeOK /\ Needy /\ PromisesBounded /\ CreatesBounded

-----------------------------------------------------------------------------
(* Arithmetic of finite sets                                               *)

LEMMA HandlersCount ==
    /\ Cardinality(Handlers) \in Nat /\ Cardinality(Handlers) >= 1
    /\ Others \in Nat
<1>1. PICK h \in Handlers : TRUE
  OBVIOUS
<1>2. Cardinality({h}) = 1 /\ {h} \in SUBSET Handlers
  BY FS_Singleton
<1>3. Cardinality(Handlers) \in Nat
  BY FS_CardinalityType
<1>4. Cardinality({h}) <= Cardinality(Handlers)
  BY <1>2, FS_Subset
<1>5. Cardinality(Handlers) - 1 \in Nat
  BY <1>2, <1>3, <1>4
<1> DEFINE n == Cardinality(Handlers) - 1
<1>6. n * MaxSave \in Nat
  <2>1. n \in Nat /\ MaxSave \in Nat
    BY <1>5
  <2> HIDE DEF n
  <2> QED  BY <2>1
<1> QED  BY <1>2, <1>3, <1>4, <1>6 DEF Others

LEMMA PromisedFinite ==
    /\ IsFiniteSet(Promised) /\ Cardinality(Promised) \in Nat
    /\ IsFiniteSet(Creating) /\ Cardinality(Creating) \in Nat
    /\ Cardinality(Promised') \in Nat /\ Cardinality(Creating') \in Nat
<1>1. IsFiniteSet(1..MaxSave)
  BY FS_Interval
<1>2. IsFiniteSet(Handlers \X (1..MaxSave))
  BY <1>1, FS_Product
<1>3. /\ Promised \in SUBSET (Handlers \X (1..MaxSave)) /\ Creating \in SUBSET Handlers
      /\ Promised' \in SUBSET (Handlers \X (1..MaxSave)) /\ Creating' \in SUBSET Handlers
  BY DEF Promised, Creating
<1>4. /\ IsFiniteSet(Promised) /\ IsFiniteSet(Creating)
      /\ IsFiniteSet(Promised') /\ IsFiniteSet(Creating')
  BY <1>2, <1>3, FS_Subset
<1> QED  BY <1>4, FS_CardinalityType

\* When one handler has n units to come, there are at most n more than Others.
LEMMA PromisedAtMost ==
  ASSUME NEW h \in Handlers, NEW n \in 0..MaxSave, NEW P,
         P \subseteq ((Handlers \ {h}) \X (1..MaxSave)) \cup ({h} \X (1..n))
  PROVE  IsFiniteSet(P) /\ Cardinality(P) <= Others + n
<1> DEFINE A == (Handlers \ {h}) \X (1..MaxSave)
           B == {h} \X (1..n)
<1>1. /\ IsFiniteSet(1..MaxSave) /\ Cardinality(1..MaxSave) = MaxSave
      /\ IsFiniteSet(1..n) /\ Cardinality(1..n) = n
  <2>1. IsFiniteSet(1..n) /\ Cardinality(1..n) = (IF 1 > n THEN 0 ELSE n - 1 + 1)
    BY FS_Interval
  <2>2. IsFiniteSet(1..MaxSave) /\ Cardinality(1..MaxSave) = (IF 1 > MaxSave THEN 0 ELSE MaxSave - 1 + 1)
    BY FS_Interval
  <2>3. (IF 1 > n THEN 0 ELSE n - 1 + 1) = n
    OBVIOUS
  <2>4. (IF 1 > MaxSave THEN 0 ELSE MaxSave - 1 + 1) = MaxSave
    OBVIOUS
  <2> QED  BY <2>1, <2>2, <2>3, <2>4
<1>2. IsFiniteSet(Handlers \ {h}) /\ Cardinality(Handlers \ {h}) = Cardinality(Handlers) - 1
  BY FS_RemoveElement
<1>3. IsFiniteSet({h}) /\ Cardinality({h}) = 1
  BY FS_Singleton
<1>4. IsFiniteSet(A) /\ Cardinality(A) = Others
  <2>1. /\ IsFiniteSet(A)
        /\ Cardinality(A) = Cardinality(Handlers \ {h}) * Cardinality(1..MaxSave)
    BY <1>1, <1>2, FS_Product
  <2> QED  BY <1>1, <1>2, <2>1, Zenon DEF Others
<1>5. IsFiniteSet(B) /\ Cardinality(B) = Cardinality({h}) * Cardinality(1..n)
  BY <1>1, <1>3, FS_Product
<1>6. Cardinality(B) = n
  BY <1>1, <1>3, <1>5
<1>7. P \in SUBSET (A \cup B)
  OBVIOUS
<1> HIDE DEF A, B
<1>8. /\ IsFiniteSet(A \cup B)
      /\ Cardinality(A \cup B) = Cardinality(A) + Cardinality(B) - Cardinality(A \cap B)
  BY <1>4, <1>5, FS_Union
<1>9. Cardinality(A \cap B) \in Nat
  BY <1>4, FS_Intersection, FS_CardinalityType
<1>10. /\ IsFiniteSet(P) /\ Cardinality(P) \in Nat
       /\ Cardinality(P) <= Cardinality(A \cup B)
  BY <1>7, <1>8, FS_Subset, FS_CardinalityType
<1> QED  BY <1>4, <1>6, <1>8, <1>9, <1>10, HandlersCount

\* Fewer units to come need no more room.
LEMMA PromisedShrinks ==
  ASSUME Promised' \subseteq Promised
  PROVE  Cardinality(Promised') <= Cardinality(Promised)
BY PromisedFinite, FS_Subset

LEMMA CreatingShrinks ==
  ASSUME Creating' \subseteq Creating
  PROVE  Cardinality(Creating') <= Cardinality(Creating)
BY PromisedFinite, FS_Subset

\* Of the units h had to come, all above m are gone.
LEMMA PromisedDrops ==
  ASSUME NEW h \in Handlers, NEW n \in 0..MaxSave, NEW m \in 0..n,
         \A i \in (m + 1)..n : <<h, i>> \in Promised /\ <<h, i>> \notin Promised',
         Promised' \subseteq Promised
  PROVE  Cardinality(Promised') <= Cardinality(Promised) - (n - m)
<1> DEFINE I == (m + 1)..n
           D == {h} \X I
<1>1. IsFiniteSet(I) /\ Cardinality(I) = n - m
  <2>1. IsFiniteSet(I) /\ Cardinality(I) = IF m + 1 > n THEN 0 ELSE n - (m + 1) + 1
    BY FS_Interval
  <2>2. (IF m + 1 > n THEN 0 ELSE n - (m + 1) + 1) = n - m
    OBVIOUS
  <2> QED  BY <2>1, <2>2
<1>2. IsFiniteSet({h}) /\ Cardinality({h}) = 1
  BY FS_Singleton
<1>3. D \subseteq Promised /\ D \cap Promised' = {}
  OBVIOUS
<1> HIDE DEF I
<1>4. IsFiniteSet(D) /\ Cardinality(D) = Cardinality({h}) * Cardinality(I)
  BY <1>1, <1>2, FS_Product
<1>5. Cardinality(D) = n - m
  BY <1>1, <1>2, <1>4
<1> HIDE DEF D
<1>6. IsFiniteSet(Promised')
  BY PromisedFinite, FS_Subset
<1>7. Cardinality(D \cup Promised') = Cardinality(D) + Cardinality(Promised') - Cardinality(D \cap Promised')
  BY <1>4, <1>6, FS_Union
<1>8. Cardinality(D \cap Promised') = 0
  BY <1>3, FS_EmptySet
<1>9. Cardinality(D \cup Promised') <= Cardinality(Promised)
  <2>1. D \cup Promised' \in SUBSET Promised
    BY <1>3
  <2> QED  BY <2>1, PromisedFinite, FS_Subset
<1> QED  BY <1>5, <1>7, <1>8, <1>9, PromisedFinite

-----------------------------------------------------------------------------
(* What a step of one handler does to the sets                             *)

\* Only h moves: what the others owe is what they owed.
LEMMA OthersKeep ==
  ASSUME TypeOK, NEW h \in Handlers, NEW r, Become(h, r)
  PROVE  /\ handler'[h] = r
         /\ \A g \in Handlers \ {h} : handler'[g] = handler[g]
         /\ \A p \in Promised' : p[1] # h => p \in Promised
         /\ \A g \in Creating' : g # h => g \in Creating
<1>1. handler'[h] = r /\ \A g \in Handlers \ {h} : handler'[g] = handler[g]
  BY DEF TypeOK, Become
<1>2. ASSUME NEW p \in Promised', p[1] # h  PROVE p \in Promised
  <2>1. p \in Handlers \X (1..MaxSave) /\ Admitted(p[1])' /\ p[2] <= handler'[p[1]].need
    BY DEF Promised
  <2>2. handler'[p[1]] = handler[p[1]]
    BY <1>1, <1>2, <2>1
  <2>3. Admitted(p[1])
    BY <2>1, <2>2 DEF Admitted, At
  <2> QED  BY <2>1, <2>2, <2>3 DEF Promised
<1>3. ASSUME NEW g \in Creating', g # h  PROVE g \in Creating
  BY <1>1, <1>3 DEF Creating, At
<1> QED  BY <1>1, <1>2, <1>3

\* A handler that owes nothing new leaves both sets no larger.
LEMMA OwesLess ==
  ASSUME TypeOK, NEW h \in Handlers, NEW r, Become(h, r),
         r.need > 0 /\ r.op # "create" /\ (r.pc = "insert" \/ (r.pc = "reserved" /\ r.used + r.need <= Quota))
            => Admitted(h) /\ r.need <= handler[h].need,
         r.op = "create" /\ r.pc = "insert" => h \in Creating,
         r.need \in 0..MaxSave
  PROVE  /\ Cardinality(Promised') <= Cardinality(Promised)
         /\ Cardinality(Creating') <= Cardinality(Creating)
<1>1. /\ handler'[h] = r
      /\ \A p \in Promised' : p[1] # h => p \in Promised
      /\ \A g \in Creating' : g # h => g \in Creating
  BY OthersKeep
<1>2. ASSUME NEW p \in Promised'  PROVE p \in Promised
  <2>1. CASE p[1] # h
    BY <1>1, <2>1
  <2>2. CASE p[1] = h
    <3>1. p \in Handlers \X (1..MaxSave) /\ Admitted(h)' /\ p[2] <= r.need
      BY <1>1, <2>2 DEF Promised
    <3>2. Admitted(h) /\ r.need <= handler[h].need
      <4>1. r.need > 0
        BY <3>1
      <4> QED  BY <1>1, <3>1, <4>1 DEF Admitted, At
    <3>3. handler[h].need \in Nat
      BY DEF TypeOK
    <3>4. p[2] <= handler[h].need
      BY <3>1, <3>2, <3>3
    <3> QED  BY <2>2, <3>1, <3>2, <3>4 DEF Promised
  <2> QED  BY <2>1, <2>2
<1>3. ASSUME NEW g \in Creating'  PROVE g \in Creating
  <2>1. CASE g # h
    BY <1>1, <2>1
  <2>2. CASE g = h
    BY <1>1, <2>2 DEF Creating, At
  <2> QED  BY <2>1, <2>2
<1>4. Promised' \subseteq Promised /\ Creating' \subseteq Creating
  BY <1>2, <1>3
<1> QED  BY <1>4, PromisedShrinks, CreatingShrinks

\* Requests that are checked from the start, or over, owe nothing.
LEMMA OwesNothing ==
  ASSUME TypeOK, NEW h \in Handlers, NEW r, Become(h, r),
         r.pc \notin {"reserved", "insert"}, r.need \in 0..MaxSave
  PROVE  /\ Cardinality(Promised') <= Cardinality(Promised)
         /\ Cardinality(Creating') <= Cardinality(Creating)
BY OwesLess

\* Steps that leave the handlers alone leave both sets alone.
LEMMA OwesSame ==
  ASSUME UNCHANGED handler
  PROVE  Promised' = Promised /\ Creating' = Creating
<1>1. \A h : Admitted(h)' <=> Admitted(h)
  BY DEF Admitted, At
<1> QED  BY <1>1 DEF Promised, Creating, At

-----------------------------------------------------------------------------
(* The inductive step                                                      *)

\* A step that stores nothing and owes no more keeps the two bounds.
LEMMA KeepsBounds ==
  ASSUME TypeOK, PromisesBounded, CreatesBounded,
         live' \in Nat, unchecked' = unchecked, live' <= live,
         Cardinality(Promised') <= Cardinality(Promised),
         Cardinality(Creating') <= Cardinality(Creating),
         res' \subseteq res
  PROVE  PromisesBounded' /\ CreatesBounded'
<1>1. Cardinality(Promised) \in Nat /\ Cardinality(Promised') \in Nat
  BY PromisedFinite
<1>2. Cardinality(Creating) \in Nat /\ Cardinality(Creating') \in Nat
  BY PromisedFinite
<1>3. /\ Cardinality(res') <= Cardinality(res)
      /\ Cardinality(res) \in Nat /\ Cardinality(res') \in Nat
  <2>1. IsFiniteSet(res)
    BY FS_Subset DEF TypeOK
  <2>2. IsFiniteSet(res') /\ Cardinality(res') <= Cardinality(res)
    BY <2>1, FS_Subset
  <2> QED  BY <2>1, <2>2, FS_CardinalityType
<1>4. PromisesBounded'
  BY <1>1, HandlersCount DEF PromisesBounded, TypeOK
<1>5. CreatesBounded'
  BY <1>2, <1>3, HandlersCount DEF CreatesBounded
<1> QED  BY <1>4, <1>5

Requests == [pc : Pcs, op : Ops, s : Sessions \cup {NoSession}, used : Nat, need : 0..MaxSave]

\* A handler that becomes a well-formed request keeps the types.
LEMMA BecomeTypes ==
  ASSUME TypeOK, Needy, NEW h \in Handlers, NEW r \in Requests, Become(h, r),
         r.op \in {"create", "finish"} <=> r.s \in Sessions,
         r.pc \in {"used", "reserved"} => r.need >= 1
  PROVE  /\ handler' \in [Handlers -> Requests]
         /\ \A g \in Handlers : handler'[g].op \in {"create", "finish"} <=> handler'[g].s \in Sessions
         /\ Needy'
<1>1. handler' \in [Handlers -> Requests]
  BY DEF TypeOK, Become, Requests
<1>2. \A g \in Handlers : handler'[g] = IF g = h THEN r ELSE handler[g]
  BY DEF TypeOK, Become
<1>3. \A g \in Handlers : handler'[g].op \in {"create", "finish"} <=> handler'[g].s \in Sessions
  BY <1>2 DEF TypeOK
<1>4. Needy'
  BY <1>2 DEF Needy
<1> QED  BY <1>1, <1>3, <1>4

\* The requests the actions make are well formed.
LEMMA IdleTypes == Idle \in Requests /\ Idle.op = "none" /\ Idle.s = NoSession
                   /\ Idle.pc = "idle" /\ Idle.need = 0
BY DEF Idle, Requests, Pcs, Ops

\* A save whose files sum to nothing.
Unsummed == [Request("save", NoSession, 0) EXCEPT !.pc = "insert"]

LEMMA UnsummedTypes ==
    /\ Unsummed \in Requests /\ Unsummed.op = "save" /\ Unsummed.s = NoSession
    /\ Unsummed.pc = "insert" /\ Unsummed.need = 0
BY DEF Unsummed, Request, Requests, Pcs, Ops

LEMMA GotoTypes ==
  ASSUME TypeOK, NEW h \in Handlers, NEW pc \in Pcs
  PROVE  LET r == [handler[h] EXCEPT !.pc = pc]
         IN /\ r \in Requests /\ r.pc = pc /\ r.need = handler[h].need
            /\ r.op = handler[h].op /\ r.s = handler[h].s /\ r.used = handler[h].used
BY DEF TypeOK, Requests

LEMMA TypeStep ==
  ASSUME QuotaInv, [Next]_vars
  PROVE  TypeOK' /\ Needy'
<1> USE DEF QuotaInv
<1>h. \A h \in Handlers :
        /\ handler[h] \in Requests
        /\ handler[h].op \in {"create", "finish"} <=> handler[h].s \in Sessions
        /\ handler[h].pc \in {"used", "reserved"} => handler[h].need >= 1
  BY DEF TypeOK, Requests, Needy
<1>t. ASSUME handler' \in [Handlers -> Requests],
             \A g \in Handlers : handler'[g].op \in {"create", "finish"} <=> handler'[g].s \in Sessions,
             live' \in Nat, bin' \in 0..MaxBin, unchecked' \in 0..MaxUnchecked,
             status' \in [Sessions -> {"active", "completing", "ended"}],
             res' \in SUBSET Sessions
      PROVE  TypeOK'
  BY <1>t DEF TypeOK, Requests
<1>e. ASSUME NEW h \in Handlers, End(h)
      PROVE  /\ handler' \in [Handlers -> Requests] /\ Needy'
             /\ \A g \in Handlers : handler'[g].op \in {"create", "finish"} <=> handler'[g].s \in Sessions
  <2>1. Become(h, Idle)
    BY <1>e DEF End
  <2> QED  BY <2>1, BecomeTypes, IdleTypes
<1>g. ASSUME NEW h \in Handlers, NEW pc \in Pcs, Goto(h, pc),
             pc \in {"used", "reserved"} => handler[h].need >= 1
      PROVE  /\ handler' \in [Handlers -> Requests] /\ Needy'
             /\ \A g \in Handlers : handler'[g].op \in {"create", "finish"} <=> handler'[g].s \in Sessions
  <2> DEFINE r == [handler[h] EXCEPT !.pc = pc]
  <2>1. Become(h, r)
    BY <1>g DEF Goto
  <2>2. /\ r \in Requests /\ r.pc = pc /\ r.need = handler[h].need
        /\ r.op = handler[h].op /\ r.s = handler[h].s
    BY GotoTypes
  <2> HIDE DEF r
  <2> QED  BY <2>1, <2>2, <1>h, <1>g, BecomeTypes
<1>r. ASSUME NEW h \in Handlers, Refuse(h)
      PROVE  /\ handler' \in [Handlers -> Requests] /\ Needy'
             /\ \A g \in Handlers : handler'[g].op \in {"create", "finish"} <=> handler'[g].s \in Sessions
  BY <1>e, <1>g, <1>r DEF Refuse, Pcs
<1>q. ASSUME NEW h \in Handlers, NEW op \in {"copy", "save"}, NEW n \in 1..MaxSave,
             Become(h, Request(op, NoSession, n))
      PROVE  /\ handler' \in [Handlers -> Requests] /\ Needy'
             /\ \A g \in Handlers : handler'[g].op \in {"create", "finish"} <=> handler'[g].s \in Sessions
  <2>1. /\ Request(op, NoSession, n) \in Requests
        /\ Request(op, NoSession, n).op = op /\ Request(op, NoSession, n).s = NoSession
        /\ Request(op, NoSession, n).need = n
    BY DEF Request, Requests, Pcs, Ops
  <2> QED  BY <1>q, <2>1, BecomeTypes
<1>s. ASSUME NEW h \in Handlers, NEW op \in {"create", "finish"}, NEW s \in Sessions,
             Become(h, Request(op, s, 1))
      PROVE  /\ handler' \in [Handlers -> Requests] /\ Needy'
             /\ \A g \in Handlers : handler'[g].op \in {"create", "finish"} <=> handler'[g].s \in Sessions
  <2>1. /\ Request(op, s, 1) \in Requests
        /\ Request(op, s, 1).op = op /\ Request(op, s, 1).s = s
        /\ Request(op, s, 1).need = 1
    BY DEF Request, Requests, Pcs, Ops
  <2> QED  BY <1>s, <2>1, BecomeTypes
<1>1. CASE \E h \in Handlers : Step(h)
  <2> PICK h \in Handlers : Step(h)
    BY <1>1
  <2>1. CASE copy_file(h)
    BY <2>1, <1>q, <1>t DEF copy_file, TypeOK
  <2>2. CASE save_from_public_share(h)
    <3>1. CASE \E n \in 1..MaxSave : Become(h, Request("save", NoSession, n))
      BY <2>2, <3>1, <1>q, <1>t DEF save_from_public_share, TypeOK
    <3>2. CASE Become(h, Unsummed)
      BY <2>2, <3>2, UnsummedTypes, BecomeTypes, <1>t DEF save_from_public_share, TypeOK
    <3> QED  BY <2>2, <3>1, <3>2 DEF save_from_public_share, Unsummed
  <2>3. CASE load_user_used_bytes(h)
    <3> DEFINE r == [handler[h] EXCEPT !.pc = "reserved", !.used = live]
    <3>1. /\ r \in Requests /\ r.op = handler[h].op /\ r.s = handler[h].s
          /\ r.need = handler[h].need
      BY <1>h DEF Requests, Pcs, TypeOK
    <3>2. handler[h].need >= 1
      BY <2>3, <1>h DEF load_user_used_bytes, At
    <3>3. Become(h, r)
      BY <2>3 DEF load_user_used_bytes
    <3> HIDE DEF r
    <3>4. /\ handler' \in [Handlers -> Requests] /\ Needy'
          /\ \A g \in Handlers : handler'[g].op \in {"create", "finish"} <=> handler'[g].s \in Sessions
      BY <3>1, <3>2, <3>3, <1>h, BecomeTypes
    <3> QED  BY <2>3, <3>4, <1>t DEF load_user_used_bytes, TypeOK
  <2>4. CASE ensure_within_quota(h)
    <3> DEFINE r == [handler[h] EXCEPT !.pc = "insert", !.used = 0]
    <3>1. Become(h, r) \/ Refuse(h)
      BY <2>4 DEF ensure_within_quota
    <3>2. r \in Requests /\ r.op = handler[h].op /\ r.s = handler[h].s /\ r.pc = "insert"
      BY <1>h DEF Requests, Pcs
    <3> HIDE DEF r
    <3>3. /\ handler' \in [Handlers -> Requests] /\ Needy'
          /\ \A g \in Handlers : handler'[g].op \in {"create", "finish"} <=> handler'[g].s \in Sessions
      <4>1. CASE Become(h, r)
        BY <3>2, <4>1, <1>h, BecomeTypes
      <4>2. CASE Refuse(h)
        BY <4>2, <1>r
      <4> QED  BY <3>1, <4>1, <4>2
    <3> QED  BY <2>4, <3>3, <1>t DEF ensure_within_quota, TypeOK
  <2>5. CASE insert_session(h)
    <3>1. handler[h].s \in Sessions
      BY <2>5, <1>h DEF insert_session
    <3> QED  BY <2>5, <3>1, <1>e, <1>t DEF insert_session, TypeOK
  <2>6. CASE insert_file(h)
    <3> DEFINE r == handler[h]
               d == [r EXCEPT !.pc = "complete", !.need = 0]
    <3>1. PICK n \in 1..r.need :
             /\ live' = live + n
             /\ Become(h, CASE r.op = "save"   -> [r EXCEPT !.need = r.need - n]
                            [] r.op = "finish" -> d
                            [] OTHER           -> Idle)
      BY <2>6 DEF insert_file
    <3> DEFINE q == [r EXCEPT !.need = r.need - n]
    <3>2. r \in Requests /\ r.pc = "insert"
      BY <2>6, <1>h DEF insert_file, At
    <3>3. /\ q \in Requests /\ q.op = r.op /\ q.s = r.s /\ q.pc = "insert"
          /\ d \in Requests /\ d.op = r.op /\ d.s = r.s /\ d.pc = "complete"
      <4>1. r.need \in 0..MaxSave /\ n \in 1..r.need
        BY <3>2 DEF Requests
      <4>2. 0 \in 0..MaxSave /\ r.need - n \in 0..MaxSave /\ "complete" \in Pcs
        BY <4>1 DEF Pcs
      <4> QED  BY <3>2, <4>2 DEF Requests
    <3>4. CASE r.op = "save"
      <4>1. Become(h, q)
        BY <3>1, <3>4
      <4> HIDE DEF q, d
      <4> QED  BY <3>3, <4>1, <1>h, <1>t, <2>6, BecomeTypes, <3>1 DEF insert_file, TypeOK
    <3>5. CASE r.op = "finish"
      <4>1. Become(h, d)
        BY <3>1, <3>5
      <4> HIDE DEF q, d
      <4> QED  BY <3>3, <4>1, <1>h, <1>t, <2>6, BecomeTypes, <3>1 DEF insert_file, TypeOK
    <3>6. CASE r.op \notin {"save", "finish"}
      <4>1. End(h)
        BY <3>1, <3>6 DEF End
      <4> HIDE DEF q, d
      <4> QED  BY <4>1, <1>e, <1>t, <2>6, <3>1 DEF insert_file, TypeOK
    <3> QED  BY <3>4, <3>5, <3>6
  <2>7. CASE WriteFails(h)
    BY <2>7, <1>r, <1>t DEF WriteFails, TypeOK
  <2>8. CASE mark_complete(h)
    BY <2>8, <1>e, <1>t DEF mark_complete, TypeOK
  <2>9. CASE RevertActive(h)
    BY <2>9, <1>e, <1>t DEF RevertActive, TypeOK
  <2>10. CASE Vanish(h)
    BY <2>10, <1>e, <1>t DEF Vanish, TypeOK
  <2>11. CASE insert_uncounted(h)
    <3>1. Needy'
      BY <2>11 DEF insert_uncounted, Needy
    <3>2. live' \in Nat /\ unchecked' \in 0..MaxUnchecked
      BY <2>11 DEF insert_uncounted, TypeOK
    <3> QED  BY <2>11, <3>1, <3>2 DEF insert_uncounted, TypeOK
  <2>12. CASE save_returns(h)
    BY <2>12, <1>e, <1>t DEF save_returns, TypeOK
  <2> QED  BY <2>1, <2>2, <2>3, <2>4, <2>5, <2>6, <2>7, <2>8, <2>9, <2>10, <2>11, <2>12 DEF Step
<1>2. CASE \E h \in Handlers, s \in Sessions : create_session(h, s) \/ complete_session(h, s)
  <2> PICK h \in Handlers, s \in Sessions : create_session(h, s) \/ complete_session(h, s)
    BY <1>2
  <2>1. CASE create_session(h, s)
    BY <2>1, <1>s, <1>t DEF create_session, TypeOK
  <2>2. CASE complete_session(h, s)
    BY <2>2, <1>s, <1>t DEF complete_session, TypeOK
  <2> QED  BY <2>1, <2>2
<1>3. CASE UNCHANGED handler
  <2>1. Needy'
    BY <1>3 DEF Needy
  <2>2. /\ handler' \in [Handlers -> Requests]
        /\ \A g \in Handlers : handler'[g].op \in {"create", "finish"} <=> handler'[g].s \in Sessions
    BY <1>3 DEF TypeOK, Requests
  <2>3. CASE \E s \in Sessions : mark_aborted(s)
    BY <2>1, <2>2, <2>3, <1>t DEF mark_aborted, TypeOK
  <2>4. CASE move_to_recycle_bin \/ restore_recycle_bin_items \/ empty_recycle_bin
    <3>1. live' \in Nat /\ bin' \in 0..MaxBin /\ unchecked' \in 0..MaxUnchecked
      BY <2>4 DEF move_to_recycle_bin, restore_recycle_bin_items, empty_recycle_bin, TypeOK
    <3>2. status' = status /\ res' = res
      BY <2>4 DEF move_to_recycle_bin, restore_recycle_bin_items, empty_recycle_bin
    <3> QED  BY <2>1, <2>2, <3>1, <3>2, <1>t DEF TypeOK
  <2>6. CASE put_file_content \/ Balanced
    <3>1. live' \in Nat /\ bin' = bin /\ unchecked' \in 0..MaxUnchecked
      BY <2>6 DEF put_file_content, Balanced, TypeOK
    <3>2. status' = status /\ res' = res
      BY <2>6 DEF put_file_content, Balanced
    <3> QED  BY <2>1, <2>2, <3>1, <3>2, <1>t DEF TypeOK
  <2>5. CASE UNCHANGED vars
    BY <2>1, <2>2, <2>5, <1>t DEF vars, TypeOK
  <2> QED  BY <2>1, <2>3, <2>4, <2>5, <2>6, <1>1, <1>2 DEF Next
<1> QED
  <2>1. \/ \E h \in Handlers : Step(h)
        \/ \E h \in Handlers, s \in Sessions : create_session(h, s) \/ complete_session(h, s)
        \/ UNCHANGED handler
    BY DEF Next, vars, mark_aborted, put_file_content, Balanced, move_to_recycle_bin,
           restore_recycle_bin_items, empty_recycle_bin
  <2> QED  BY <2>1, <1>1, <1>2, <1>3

\* The bounds, one step per action.
LEMMA BoundStep ==
  ASSUME QuotaInv, [Next]_vars
  PROVE  PromisesBounded' /\ CreatesBounded'
<1> USE DEF QuotaInv
<1>f. /\ Cardinality(Promised) \in Nat /\ Cardinality(Promised') \in Nat
      /\ Cardinality(Creating) \in Nat /\ Cardinality(Creating') \in Nat
      /\ IsFiniteSet(Promised) /\ IsFiniteSet(Creating)
  BY PromisedFinite
<1>c. IsFiniteSet(res) /\ Cardinality(res) \in Nat
  BY FS_Subset, FS_CardinalityType DEF TypeOK
<1>n. /\ live \in Nat /\ unchecked \in Nat
      /\ \A h \in Handlers : /\ handler[h] \in Requests
                              /\ handler[h].need \in 0..MaxSave
                              /\ handler[h].used \in Nat
  BY DEF TypeOK, Requests
<1>e. ASSUME NEW h \in Handlers, End(h)
      PROVE  /\ Cardinality(Promised') <= Cardinality(Promised)
             /\ Cardinality(Creating') <= Cardinality(Creating)
  <2>1. Become(h, Idle)
    BY <1>e DEF End
  <2>2. Idle.pc \notin {"reserved", "insert"} /\ Idle.need \in 0..MaxSave
    BY DEF Idle
  <2> QED  BY <2>1, <2>2, OwesNothing
<1>r. ASSUME NEW h \in Handlers, Refuse(h)
      PROVE  /\ Cardinality(Promised') <= Cardinality(Promised)
             /\ Cardinality(Creating') <= Cardinality(Creating)
  <2>1. CASE End(h)
    BY <2>1, <1>e
  <2>2. CASE Goto(h, "revert")
    <3> DEFINE r == [handler[h] EXCEPT !.pc = "revert"]
    <3>1. Become(h, r)
      BY <2>2 DEF Goto
    <3>2. r.pc = "revert" /\ r.need \in 0..MaxSave
      BY <1>n DEF Requests
    <3> HIDE DEF r
    <3> QED  BY <3>1, <3>2, OwesNothing
  <2> QED  BY <1>r, <2>1, <2>2 DEF Refuse
<1>q. ASSUME NEW h \in Handlers, NEW op, NEW s, NEW n \in 1..MaxSave, Become(h, Request(op, s, n))
      PROVE  /\ Cardinality(Promised') <= Cardinality(Promised)
             /\ Cardinality(Creating') <= Cardinality(Creating)
  <2>1. Request(op, s, n).pc \notin {"reserved", "insert"} /\ Request(op, s, n).need \in 0..MaxSave
    BY DEF Request
  <2> QED  BY <1>q, <2>1, OwesNothing
\* What is written without a check is on both sides of the bound.
<1>u. ASSUME NEW n \in Nat, live' = live + n, unchecked' = unchecked + n,
             UNCHANGED <<res, handler>>
      PROVE  PromisesBounded' /\ CreatesBounded'
  <2>1. Promised' = Promised /\ Creating' = Creating
    BY <1>u, OwesSame
  <2>2. PromisesBounded'
    BY <2>1, <1>u, <1>f, <1>n, HandlersCount DEF PromisesBounded
  <2> QED  BY <2>1, <2>2, <1>u DEF CreatesBounded
<1>1. CASE \E h \in Handlers : Step(h)
  <2> PICK h \in Handlers : Step(h)
    BY <1>1
  <2>1. CASE copy_file(h)
    <3>1. PICK n \in 1..MaxSave : Become(h, Request("copy", NoSession, n))
      BY <2>1 DEF copy_file
    <3>2. live' = live /\ unchecked' = unchecked /\ res' = res
      BY <2>1 DEF copy_file
    <3> QED  BY <3>1, <3>2, <1>q, <1>n, KeepsBounds
  <2>2. CASE save_from_public_share(h)
    <3>1. live' = live /\ unchecked' = unchecked /\ res' = res
      BY <2>2 DEF save_from_public_share
    <3>2. CASE \E n \in 1..MaxSave : Become(h, Request("save", NoSession, n))
      BY <3>1, <3>2, <1>q, <1>n, KeepsBounds
    <3>3. CASE Become(h, Unsummed)
      <4>1. /\ Cardinality(Promised') <= Cardinality(Promised)
            /\ Cardinality(Creating') <= Cardinality(Creating)
        BY <3>3, UnsummedTypes, OwesLess
      <4> QED  BY <3>1, <4>1, <1>n, KeepsBounds
    <3> QED  BY <2>2, <3>2, <3>3 DEF save_from_public_share, Unsummed
  <2>3. CASE load_user_used_bytes(h)
    <3> DEFINE r == [handler[h] EXCEPT !.pc = "reserved", !.used = live]
               n == handler[h].need
    <3>1. /\ live' = live /\ unchecked' = unchecked /\ res' = res /\ Become(h, r)
          /\ handler[h].pc = "used"
      BY <2>3 DEF load_user_used_bytes, At
    <3>2. r.pc = "reserved" /\ r.used = live /\ r.need = n /\ r.op = handler[h].op
      BY <1>n DEF Requests
    <3>3. n \in 0..MaxSave
      BY <1>n
    <3> HIDE DEF r
    <3>4. CASE live + n <= Quota
      <4>1. handler'[h] = r /\ \A p \in Promised' : p[1] # h => p \in Promised
        BY <3>1, OthersKeep
      <4>2. Promised' \subseteq ((Handlers \ {h}) \X (1..MaxSave)) \cup ({h} \X (1..n))
        <5> SUFFICES ASSUME NEW p \in Promised'
                     PROVE  p \in ((Handlers \ {h}) \X (1..MaxSave)) \cup ({h} \X (1..n))
          BY Zenon
        <5>1. p \in Handlers \X (1..MaxSave) /\ p[2] <= handler'[p[1]].need
          BY DEF Promised
        <5>2. CASE p[1] # h
          BY <5>1, <5>2
        <5>3. CASE p[1] = h
          <6>1. p[2] \in 1..MaxSave /\ p[2] <= n
            BY <3>2, <4>1, <5>1, <5>3
          <6>2. p[2] \in 1..n
            BY <3>3, <6>1
          <6> QED  BY <5>1, <5>3, <6>2
        <5> QED  BY <5>2, <5>3
      <4>3. Cardinality(Promised') <= Others + n
        BY <3>3, <4>2, PromisedAtMost
      <4>4. PromisesBounded'
        BY <3>1, <3>3, <3>4, <4>3, <1>f, <1>n, HandlersCount DEF PromisesBounded
      <4>5. Creating' \subseteq Creating
        BY <3>1, <3>2, <4>1, OthersKeep DEF Creating, At
      <4>6. CreatesBounded'
        BY <3>1, <4>5, <1>c, <1>f, CreatingShrinks, HandlersCount DEF CreatesBounded
      <4> QED  BY <4>4, <4>6
    <3>5. CASE ~(live + n <= Quota)
      <4>1. /\ Cardinality(Promised') <= Cardinality(Promised)
            /\ Cardinality(Creating') <= Cardinality(Creating)
        BY <3>1, <3>2, <3>3, <3>5, OwesLess
      <4> QED  BY <3>1, <4>1, <1>n, KeepsBounds
    <3> QED  BY <3>4, <3>5
  <2>4. CASE ensure_within_quota(h)
    <3>1. /\ live' = live /\ unchecked' = unchecked /\ res' = res
          /\ handler[h].pc = "reserved"
          /\ \/ Refuse(h)
             \/ /\ Become(h, [handler[h] EXCEPT !.pc = "insert", !.used = 0])
                /\ handler[h].used + Cardinality(res) + handler[h].need <= Quota
      BY <2>4 DEF ensure_within_quota, At
    <3>2. CASE Refuse(h)
      BY <3>1, <3>2, <1>r, <1>n, KeepsBounds
    <3>3. CASE /\ Become(h, [handler[h] EXCEPT !.pc = "insert", !.used = 0])
               /\ handler[h].used + Cardinality(res) + handler[h].need <= Quota
      <4> DEFINE r == [handler[h] EXCEPT !.pc = "insert", !.used = 0]
      <4>1. Become(h, r)
        BY <3>3
      <4>2. r.pc = "insert" /\ r.need = handler[h].need /\ r.op = handler[h].op
        BY <1>n DEF Requests
      <4> HIDE DEF r
      <4>3. CASE handler[h].op = "create"
        <5>1. handler'[h] = r /\ \A p \in Promised' : p[1] # h => p \in Promised
          BY <4>1, OthersKeep
        <5>2. Promised' \subseteq Promised
          BY <4>2, <4>3, <5>1 DEF Promised, Admitted
        <5>3. Cardinality(Promised') <= Cardinality(Promised)
          BY <5>2, PromisedShrinks
        <5>4. PromisesBounded'
          BY <3>1, <5>3, <1>f, <1>n, HandlersCount DEF PromisesBounded
        <5>5. Creating' \in SUBSET Handlers
          BY DEF Creating
        <5>6. Cardinality(Creating') <= Cardinality(Handlers)
          BY <5>5, FS_Subset
        <5>7. handler[h].need >= 1 /\ handler[h].need \in Nat /\ handler[h].used \in Nat
          BY <3>1, <1>n DEF Needy
        <5>8. CreatesBounded'
          BY <3>1, <3>3, <5>6, <5>7, <1>c, <1>f, HandlersCount DEF CreatesBounded
        <5> QED  BY <5>4, <5>8
      <4>4. CASE handler[h].op # "create"
        <5>1. Admitted(h)
          BY <3>1, <3>3, <4>4, <1>c, <1>n DEF Admitted, At
        <5>2. /\ Cardinality(Promised') <= Cardinality(Promised)
              /\ Cardinality(Creating') <= Cardinality(Creating)
          BY <4>1, <4>2, <4>4, <5>1, <1>n, OwesLess
        <5> QED  BY <3>1, <5>2, <1>n, KeepsBounds
      <4> QED  BY <4>3, <4>4
    <3> QED  BY <3>1, <3>2, <3>3
  <2>5. CASE insert_session(h)
    <3> DEFINE s == handler[h].s
    <3>1. /\ live' = live /\ unchecked' = unchecked /\ res' = res \cup {s} /\ Become(h, Idle)
          /\ h \in Creating
      BY <2>5 DEF insert_session, End, Creating
    <3>2. handler'[h] = Idle /\ \A g \in Creating' : g # h => g \in Creating
      BY <3>1, OthersKeep
    <3>3. Creating' \subseteq Creating \ {h}
      BY <3>2, IdleTypes DEF Creating, At
    <3>4. IsFiniteSet(Creating \ {h}) /\ Cardinality(Creating \ {h}) = Cardinality(Creating) - 1
      BY <3>1, <1>f, FS_RemoveElement
    <3>5. Cardinality(Creating') <= Cardinality(Creating) - 1
      BY <3>3, <3>4, FS_Subset
    <3>6. /\ Cardinality(res \cup {s}) = (IF s \in res THEN Cardinality(res) ELSE Cardinality(res) + 1)
      BY <1>c, FS_AddElement
    <3>7. CreatesBounded'
      BY <3>1, <3>5, <3>6, <1>c, <1>f, HandlersCount DEF CreatesBounded
    <3>8. Cardinality(Promised') <= Cardinality(Promised)
      BY <2>5, <1>e DEF insert_session
    <3>9. PromisesBounded'
      BY <3>1, <3>8, <1>f, <1>n, HandlersCount DEF PromisesBounded
    <3> QED  BY <3>7, <3>9
  <2>6. CASE insert_file(h)
    <3> DEFINE r == handler[h]
               Req(n) == CASE r.op = "save"   -> [r EXCEPT !.need = r.need - n]
                           [] r.op = "finish" -> [r EXCEPT !.pc = "complete", !.need = 0]
                           [] OTHER           -> Idle
    <3>1. PICK n \in 1..r.need :
             (r.op # "save" => n = r.need) /\ live' = live + n /\ Become(h, Req(n))
      BY <2>6 DEF insert_file
    <3> DEFINE q == Req(n)
               m == r.need - n
    <3>2. /\ unchecked' = unchecked /\ res' = res
          /\ r.pc = "insert" /\ r.op # "create" /\ r \in Requests
      BY <2>6, <1>n DEF insert_file, At
    <3>3. r.need \in 0..MaxSave /\ n \in 1..r.need /\ m \in 0..r.need
      BY <3>1, <1>n
    <3>4. q.pc = "insert" => q.need = m /\ q.op # "create"
      BY <3>2 DEF Requests, Idle
    <3>5. q.pc # "reserved"
      BY <3>2 DEF Requests, Idle
    <3>6. Become(h, q)
      BY <3>1
    <3> HIDE DEF q, Req
    <3>7. /\ handler'[h] = q
          /\ \A p \in Promised' : p[1] # h => p \in Promised
          /\ \A g \in Creating' : g # h => g \in Creating
      BY <3>6, OthersKeep
    <3>8. Admitted(h)
      BY <3>2 DEF Admitted, At
    <3>9. ASSUME NEW p \in Promised', p[1] = h
          PROVE  p \in Handlers \X (1..MaxSave) /\ p[2] <= m
      <4>1. p \in Handlers \X (1..MaxSave) /\ Admitted(h)' /\ p[2] <= handler'[h].need
        BY <3>9 DEF Promised
      <4>2. q.pc = "insert"
        BY <3>5, <3>7, <4>1 DEF Admitted, At
      <4> QED  BY <3>4, <3>7, <4>1, <4>2
    <3>10. Promised' \subseteq Promised
      <4> SUFFICES ASSUME NEW p \in Promised', p[1] = h  PROVE p \in Promised
        BY <3>7
      <4>1. p \in Handlers \X (1..MaxSave) /\ p[2] <= m
        BY <3>9
      <4>2. p[2] <= r.need
        BY <3>3, <4>1
      <4> QED  BY <3>8, <4>1, <4>2 DEF Promised
    <3>11. \A i \in (m + 1)..r.need : <<h, i>> \in Promised /\ <<h, i>> \notin Promised'
      <4> SUFFICES ASSUME NEW i \in (m + 1)..r.need
                   PROVE  <<h, i>> \in Promised /\ <<h, i>> \notin Promised'
        OBVIOUS
      <4>1. i \in 1..MaxSave /\ i <= r.need /\ ~(i <= m)
        BY <3>3
      <4>2. <<h, i>> \in Promised
        BY <3>8, <4>1 DEF Promised
      <4>3. <<h, i>>[1] = h /\ <<h, i>>[2] = i
        OBVIOUS
      <4> QED  BY <3>9, <4>1, <4>2, <4>3
    <3>12. Cardinality(Promised') <= Cardinality(Promised) - (r.need - m)
      BY <3>3, <3>10, <3>11, PromisedDrops
    <3>13. PromisesBounded'
      BY <3>1, <3>2, <3>3, <3>12, <1>f, <1>n, HandlersCount DEF PromisesBounded
    <3>14. Creating' \subseteq Creating
      BY <3>4, <3>7 DEF Creating, At
    <3>15. CreatesBounded'
      BY <3>2, <3>14, <1>c, <1>f, CreatingShrinks, HandlersCount DEF CreatesBounded
    <3> QED  BY <3>13, <3>15
  <2>7. CASE WriteFails(h)
    <3>1. live' = live /\ unchecked' = unchecked /\ res' = res /\ Refuse(h)
      BY <2>7 DEF WriteFails
    <3> QED  BY <3>1, <1>r, <1>n, KeepsBounds
  <2>8. CASE mark_complete(h)
    <3>1. live' = live /\ unchecked' = unchecked /\ res' \subseteq res /\ End(h)
      BY <2>8 DEF mark_complete
    <3> QED  BY <3>1, <1>e, <1>n, KeepsBounds
  <2>9. CASE RevertActive(h)
    <3>1. live' = live /\ unchecked' = unchecked /\ res' = res /\ End(h)
      BY <2>9 DEF RevertActive
    <3> QED  BY <3>1, <1>e, <1>n, KeepsBounds
  <2>10. CASE Vanish(h)
    <3>1. live' = live /\ unchecked' = unchecked /\ res' = res /\ End(h)
      BY <2>10 DEF Vanish
    <3> QED  BY <3>1, <1>e, <1>n, KeepsBounds
  <2>11. CASE insert_uncounted(h)
    BY <2>11, <1>u DEF insert_uncounted
  <2>12. CASE save_returns(h)
    <3>1. live' = live /\ unchecked' = unchecked /\ res' = res /\ End(h)
      BY <2>12 DEF save_returns
    <3> QED  BY <3>1, <1>e, <1>n, KeepsBounds
  <2> QED  BY <2>1, <2>2, <2>3, <2>4, <2>5, <2>6, <2>7, <2>8, <2>9, <2>10, <2>11, <2>12 DEF Step
<1>2. CASE \E h \in Handlers, s \in Sessions : create_session(h, s) \/ complete_session(h, s)
  <2> PICK h \in Handlers, s \in Sessions : create_session(h, s) \/ complete_session(h, s)
    BY <1>2
  <2>1. /\ live' = live /\ unchecked' = unchecked /\ res' = res
        /\ \E op : Become(h, Request(op, s, 1))
    BY DEF create_session, complete_session
  <2> QED  BY <2>1, <1>q, <1>n, KeepsBounds
<1>3. CASE UNCHANGED handler
  <2>1. Promised' = Promised /\ Creating' = Creating
    BY <1>3, OwesSame
  <2>2. CASE \E s \in Sessions : mark_aborted(s)
    <3>1. live' = live /\ unchecked' = unchecked /\ res' \subseteq res
      BY <2>2 DEF mark_aborted
    <3> QED  BY <2>1, <3>1, <1>f, <1>n, KeepsBounds
  <2>3. CASE move_to_recycle_bin
    <3>1. PICK n \in 1..(MaxBin - bin) : n <= live /\ live' = live - n
      BY <2>3 DEF move_to_recycle_bin
    <3>2. unchecked' = unchecked /\ res' = res
      BY <2>3 DEF move_to_recycle_bin
    <3>3. live' \in Nat /\ live' <= live
      BY <3>1, <1>n DEF TypeOK
    <3> QED  BY <2>1, <3>2, <3>3, <1>f, <1>n, KeepsBounds
  <2>4. CASE restore_recycle_bin_items
    <3>1. PICK n \in 1..(MaxUnchecked - unchecked) :
             live' = live + n /\ unchecked' = unchecked + n
      BY <2>4 DEF restore_recycle_bin_items
    <3> QED  BY <2>4, <3>1, <1>3, <1>u DEF restore_recycle_bin_items
  <2>5. CASE empty_recycle_bin \/ UNCHANGED vars
    <3>1. unchecked' = unchecked /\ res' = res
      BY <2>5 DEF empty_recycle_bin, vars
    <3>2. live' \in Nat /\ live' <= live
      BY <2>5, <1>n DEF empty_recycle_bin, vars
    <3> QED  BY <2>1, <3>1, <3>2, <1>f, <1>n, KeepsBounds
  <2>6. CASE put_file_content
    <3>1. CASE \E n \in 1..(MaxUnchecked - unchecked) :
                  live' = live + n /\ unchecked' = unchecked + n
      BY <2>6, <3>1, <1>3, <1>u DEF put_file_content
    <3>2. CASE \E n \in 1..(live - 1) : live' = live - n /\ UNCHANGED unchecked
      <4>1. live' \in Nat /\ live' <= live /\ unchecked' = unchecked
        BY <3>2, <1>n
      <4>2. res' = res
        BY <2>6 DEF put_file_content
      <4> QED  BY <2>1, <4>1, <4>2, <1>f, <1>n, KeepsBounds
    <3> QED  BY <2>6, <3>1, <3>2 DEF put_file_content
  <2>7. CASE Balanced
    <3>1. live' = live /\ live <= Quota /\ unchecked' = 0 /\ res' = res
      BY <2>7 DEF Balanced
    <3>2. Promised = {}
      BY <2>7 DEF Balanced, Promised, Admitted, At
    <3>3. Cardinality(Promised') = 0
      BY <2>1, <3>2, FS_EmptySet
    <3>4. PromisesBounded'
      BY <3>1, <3>3, <1>n, HandlersCount DEF PromisesBounded
    <3> QED  BY <2>1, <3>1, <3>4 DEF CreatesBounded
  <2> QED  BY <2>2, <2>3, <2>4, <2>5, <2>6, <2>7, <1>1, <1>2 DEF Next
<1> QED
  <2>1. \/ \E h \in Handlers : Step(h)
        \/ \E h \in Handlers, s \in Sessions : create_session(h, s) \/ complete_session(h, s)
        \/ UNCHANGED handler
    BY DEF Next, vars, mark_aborted, put_file_content, Balanced, move_to_recycle_bin,
           restore_recycle_bin_items, empty_recycle_bin
  <2> QED  BY <2>1, <1>1, <1>2, <1>3

LEMMA QuotaInit == Init => QuotaInv
<1> SUFFICES ASSUME Init PROVE QuotaInv
  OBVIOUS
<1>1. \A h \in Handlers : handler[h] = Idle
  BY DEF Init
<1>2. TypeOK /\ Needy
  BY <1>1 DEF Init, TypeOK, Needy, Idle, Pcs, Ops
<1>3. Promised = {} /\ Creating = {} /\ res = {}
  BY <1>1 DEF Init, Promised, Creating, Admitted, At, Idle
<1>4. Cardinality({}) = 0
  BY FS_EmptySet
<1>5. PromisesBounded /\ CreatesBounded
  BY <1>3, <1>4, HandlersCount DEF PromisesBounded, CreatesBounded, Init
<1> QED  BY <1>2, <1>5 DEF QuotaInv

LEMMA QuotaInductive == Spec => []QuotaInv
<1>1. QuotaInv /\ [Next]_vars => QuotaInv'
  BY TypeStep, BoundStep DEF QuotaInv
<1> QED  BY <1>1, QuotaInit, PTL DEF Spec

-----------------------------------------------------------------------------
\* Every request and counter of the quota's model keeps its type.
THEOREM QuotaTypes == Spec => []TypeOK
BY QuotaInductive, PTL DEF QuotaInv

\* What one user stores exceeds the quota by at most what the other requests
\* in flight could add, and by what restores, replaced contents and uncounted
\* copies have written since the user was last within the quota and idle.
THEOREM Overshoot == Spec => []OvershootBounded
<1>1. QuotaInv => OvershootBounded
  BY PromisedFinite, HandlersCount DEF QuotaInv, PromisesBounded, OvershootBounded, Others, TypeOK
<1> QED  BY <1>1, QuotaInductive, PTL

\* Concurrent creates over-reserve by less than one session per handler.
THEOREM OverReserve == Spec => []ReservationsBounded
<1>1. QuotaInv => ReservationsBounded
  <2> SUFFICES ASSUME QuotaInv PROVE ReservationsBounded
    OBVIOUS
  <2>1. Cardinality(res) \in Nat
    BY FS_Subset, FS_CardinalityType DEF QuotaInv, TypeOK
  <2> QED  BY <2>1, PromisedFinite, HandlersCount DEF QuotaInv, CreatesBounded, ReservationsBounded
<1> QED  BY <1>1, QuotaInductive, PTL
=============================================================================
