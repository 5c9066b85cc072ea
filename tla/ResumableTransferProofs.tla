---------------------- MODULE ResumableTransferProofs ----------------------
(* What a resumable transfer promises, for every number of parts, runners, *)
(* retries and faults.                                                     *)
EXTENDS ResumableTransfer, WellFoundedInduction, TLAPS

\* A session of the server with its part rows.
Session == [st : {"none", "active", "complete", "aborted"},
            part : [Parts -> {"none", "placeholder", "recorded"}],
            tok : [Parts -> {None} \cup Attempts]]

\* Ids of attempts, and so of sessions and tokens, are positive.
LEMMA Ids ==
  /\ None \notin Attempts /\ Attempts \subseteq Nat
  /\ Parts \subseteq Nat /\ 0 \in Parts
BY TransferAssumption DEF None, Attempts, Parts

\* A set of part numbers has a smallest one.
LEMMA MinIsIn ==
  ASSUME NEW T \in SUBSET Nat, T # {}
  PROVE  Min(T) \in T
<1> DEFINE R == OpToRel(<, Nat)
<1>1. IsWellFoundedOn(R, Nat)
  BY NatLessThanWellFounded
<1>2. \A x, y \in Nat : <<x, y>> \in R <=> x < y
  BY DEF OpToRel
<1> HIDE DEF R
<1>3. PICK x \in T : \A y \in T : ~(<<y, x>> \in R)
  BY <1>1, WFMin
<1>4. ASSUME NEW y \in T PROVE x <= y
  <2>1. x \in Nat /\ y \in Nat
    OBVIOUS
  <2>2. ~(y < x)
    BY <1>2, <1>3, <2>1
  <2> QED  BY <2>1, <2>2
<1> QED  BY <1>4 DEF Min

-----------------------------------------------------------------------------
(* The server                                                              *)

\* A token belongs to a part row, and a placeholder has a token.
TokensMatch ==
    \A s \in Attempts, p \in Parts :
      /\ srv[s].part[p] = "placeholder" => srv[s].tok[p] # None
      /\ srv[s].tok[p] # None => srv[s].part[p] # "none"

\* What a handler of the server may do: create session c, issue the token g for
\* the part q.
Serves(c, g, q) ==
    /\ srv' \in [Attempts -> Session]
    /\ staged' \subseteq Attempts \X Parts
    /\ stored' \in [Attempts -> SUBSET Parts]
    /\ \A x \in Attempts :
         /\ srv[x].st = "none" /\ x # c => srv'[x].st = "none"
         /\ srv[x].st # "none" => srv'[x].st # "none"
         /\ srv'[x].st = "active" => srv[x].st \in {"none", "active"}
         /\ srv[x].st = "complete" => srv'[x].st = "complete"
         /\ srv'[x].st = "complete" =>
              stored'[x] = Parts \/ (srv[x].st = "complete" /\ stored'[x] = stored[x])
    /\ \A x \in Attempts, y \in Parts :
         /\ srv[x].st = "active" /\ srv'[x].st = "active" /\ <<x, y>> \in staged
              => <<x, y>> \in staged'
         /\ srv[x].part[y] # "none" => srv'[x].part[y] # "none"
         /\ srv[x].part[y] = "recorded" => srv'[x].part[y] = "recorded"
         /\ \/ srv'[x].tok[y] \in {None, srv[x].tok[y]}
            \/ srv'[x].tok[y] = g /\ y = q
    /\ TokensMatch'

LEMMA Fields ==
  ASSUME TypeOK
  PROVE  /\ srv \in [Attempts -> Session]
         /\ staged \subseteq Attempts \X Parts /\ stored \in [Attempts -> SUBSET Parts]
         /\ Now.srv = srv /\ Now.staged = staged /\ Now.stored = stored
BY DEF TypeOK, Session, Now

LEMMA ServesNothing ==
  ASSUME TypeOK, TokensMatch, UNCHANGED server
  PROVE  Serves(None, None, 0)
BY Fields DEF Serves, TokensMatch, server

LEMMA ServesNow ==
  ASSUME TypeOK, TokensMatch, Serve(Now)
  PROVE  Serves(None, None, 0) /\ UNCHANGED server
BY ServesNothing DEF Serve, Now, server

LEMMA ServesCreate ==
  ASSUME TypeOK, TokensMatch, NEW a \in Attempts, srv[a].st = "none",
         Serve(create_session(Now, a))
  PROVE  Serves(a, None, 0) /\ srv'[a].st = "active"
<1>1. /\ srv' = [srv EXCEPT ![a].st = "active"]
      /\ staged' = staged /\ stored' = stored
  BY DEF Serve, create_session, Now
<1>2. srv' \in [Attempts -> Session]
  BY <1>1, Fields DEF Session
<1> QED  BY <1>1, <1>2, Fields DEF Serves, TokensMatch, Session

\* The row of part p of session s gets the status b and the token k.
PartRow(s, p, k, b) ==
    srv' = [srv EXCEPT ![s] = [srv[s] EXCEPT !.tok[p] = k, !.part[p] = b]]

LEMMA ServesPart ==
  ASSUME TypeOK, TokensMatch, NEW s \in Attempts, NEW p \in Parts,
         NEW k \in {None} \cup Attempts, NEW b \in {"placeholder", "recorded"},
         srv[s].part[p] = "recorded" => b = "recorded",
         k = None => b = "recorded",
         PartRow(s, p, k, b),
         staged' \subseteq Attempts \X Parts, staged \subseteq staged', stored' = stored
  PROVE  /\ Serves(None, k, p)
         /\ srv'[s].st = srv[s].st /\ srv'[s].tok[p] = k /\ srv'[s].part[p] = b
<1> DEFINE r == [srv[s] EXCEPT !.tok[p] = k, !.part[p] = b]
<1>1. srv[s] \in Session /\ r \in Session
  BY Fields DEF Session
<1>2. srv' = [srv EXCEPT ![s] = r]
  BY DEF PartRow
<1>3. /\ r.st = srv[s].st
      /\ \A y \in Parts : /\ r.tok[y] = IF y = p THEN k ELSE srv[s].tok[y]
                          /\ r.part[y] = IF y = p THEN b ELSE srv[s].part[y]
  BY <1>1 DEF Session
<1> HIDE DEF r
<1>4. \A x \in Attempts : srv'[x] = IF x = s THEN r ELSE srv[x]
  BY <1>2, Fields
<1>5. srv' \in [Attempts -> Session]
  BY <1>1, <1>2, Fields
<1>6. TokensMatch'
  <2> SUFFICES ASSUME NEW x \in Attempts, NEW y \in Parts
               PROVE  /\ srv'[x].part[y] = "placeholder" => srv'[x].tok[y] # None
                      /\ srv'[x].tok[y] # None => srv'[x].part[y] # "none"
    BY DEF TokensMatch
  <2>1. CASE x = s /\ y = p
    BY <2>1, <1>3, <1>4
  <2>2. CASE ~(x = s /\ y = p)
    BY <2>2, <1>3, <1>4 DEF TokensMatch
  <2> QED  BY <2>1, <2>2
<1> QED  BY <1>3, <1>4, <1>5, <1>6, Fields DEF Serves

LEMMA ServesSign ==
  ASSUME TypeOK, TokensMatch, NEW s \in Attempts, NEW p \in Parts, NEW a \in Attempts,
         Serve(signed_part_url(Now, s, p, a))
  PROVE  Serves(None, a, p)
<1>1. CASE ~Active(Now, s)
  BY <1>1, ServesNow DEF signed_part_url, Serves
<1>2. CASE Active(Now, s)
  <2> DEFINE b == IF srv[s].part[p] = "none" THEN "placeholder" ELSE srv[s].part[p]
  <2>1. b \in {"placeholder", "recorded"} /\ (srv[s].part[p] = "recorded" => b = "recorded")
    BY Fields DEF Session
  <2>2. PartRow(s, p, a, b)
    BY <1>2 DEF Serve, signed_part_url, Now, PartRow
  <2>3. staged' = staged /\ stored' = stored
    BY <1>2 DEF Serve, signed_part_url, Now
  <2> HIDE DEF b
  <2> QED  BY <2>1, <2>2, <2>3, ServesPart, Fields, Ids
<1> QED  BY <1>1, <1>2

LEMMA ServesPut ==
  ASSUME TypeOK, TokensMatch, NEW s \in Attempts, NEW p \in Parts,
         Serve(StoragePut(Now, s, p))
  PROVE  Serves(None, None, 0) /\ srv' = srv
<1>1. srv' = srv /\ stored' = stored /\ staged' = staged \cup {<<s, p>>}
  BY DEF Serve, StoragePut, Now
<1> QED  BY <1>1, Fields DEF Serves, TokensMatch

LEMMA ServesConsume ==
  ASSUME TypeOK, TokensMatch, NEW s \in Attempts, NEW p \in Parts, NEW a \in Attempts,
         Serve(consume_part(Now, s, p, a))
  PROVE  /\ Serves(None, None, 0) /\ srv'[s].st = srv[s].st
         /\ \/ srv'[s].tok[p] = None /\ srv'[s].part[p] = "recorded"
            \/ srv[s].tok[p] # a /\ srv' = srv
<1>1. CASE srv[s].tok[p] # a
  BY <1>1, ServesNow, Fields DEF consume_part, server
<1>2. CASE srv[s].tok[p] = a
  <2>1. PartRow(s, p, None, "recorded") /\ staged' = staged /\ stored' = stored
    BY <1>2 DEF Serve, consume_part, Now, PartRow
  <2>2. /\ Serves(None, None, p) /\ srv'[s].st = srv[s].st
        /\ srv'[s].tok[p] = None /\ srv'[s].part[p] = "recorded"
    BY <2>1, ServesPart, Fields
  <2> QED  BY <2>2 DEF Serves
<1> QED  BY <1>1, <1>2

LEMMA ServesUpload ==
  ASSUME TypeOK, TokensMatch, NEW s \in Attempts, NEW p \in Parts,
         Serve(upload_part(Now, s, p))
  PROVE  /\ Serves(None, None, 0) /\ srv'[s].st = srv[s].st
         /\ srv[s].st = "active" => srv'[s].part[p] = "recorded" /\ <<s, p>> \in staged'
<1>1. CASE ~Active(Now, s)
  BY <1>1, ServesNow, Fields DEF upload_part, server, Active
<1>2. CASE Active(Now, s)
  <2> DEFINE r == [srv[s] EXCEPT !.part[p] = "recorded"]
  <2>1. /\ srv' = [srv EXCEPT ![s] = r]
        /\ staged' = staged \cup {<<s, p>>} /\ stored' = stored
    BY <1>2 DEF Serve, upload_part, StoragePut, Now
  <2>2. r \in Session /\ r.st = srv[s].st /\ r.tok = srv[s].tok
    BY Fields DEF Session
  <2>3. \A y \in Parts : r.part[y] = IF y = p THEN "recorded" ELSE srv[s].part[y]
    BY Fields DEF Session
  <2> HIDE DEF r
  <2>4. \A x \in Attempts : srv'[x] = IF x = s THEN r ELSE srv[x]
    BY <2>1, Fields
  <2>5. srv' \in [Attempts -> Session]
    BY <2>1, <2>2, Fields
  <2>6. TokensMatch'
    BY <2>2, <2>3, <2>4 DEF TokensMatch
  <2> QED  BY <2>1, <2>2, <2>3, <2>4, <2>5, <2>6, Fields DEF Serves
<1> QED  BY <1>1, <1>2

\* A session ends: its staged objects go, and its file has the parts in f.
LEMMA ServesEnd ==
  ASSUME TypeOK, TokensMatch, NEW s \in Attempts, NEW e \in {"complete", "aborted"},
         srv[s].st = "active",
         srv' = [srv EXCEPT ![s].st = e], staged' = {o \in staged : o[1] # s},
         stored' = stored \/ stored' = [stored EXCEPT ![s] = Parts],
         e = "complete" => stored' = [stored EXCEPT ![s] = Parts]
  PROVE  Serves(None, None, 0) /\ srv'[s].st = e
<1> DEFINE r == [srv[s] EXCEPT !.st = e]
<1>1. r \in Session /\ r.st = e /\ r.tok = srv[s].tok /\ r.part = srv[s].part
  BY Fields DEF Session
<1>2. srv' = [srv EXCEPT ![s] = r]
  OBVIOUS
<1> HIDE DEF r
<1>3. \A x \in Attempts : srv'[x] = IF x = s THEN r ELSE srv[x]
  BY <1>2, Fields
<1>4. srv' \in [Attempts -> Session]
  BY <1>1, <1>2, Fields
<1>5. \A x \in Attempts, y \in Parts : x # s /\ <<x, y>> \in staged => <<x, y>> \in staged'
  OBVIOUS
<1>6. /\ stored' \in [Attempts -> SUBSET Parts]
      /\ \A x \in Attempts : \/ stored'[x] = Parts
                             \/ (x # s \/ e # "complete") /\ stored'[x] = stored[x]
  <2>1. CASE stored' = stored
    BY <2>1, Fields
  <2>2. CASE stored' = [stored EXCEPT ![s] = Parts]
    BY <2>2, Fields
  <2> QED  BY <2>1, <2>2
<1>7. TokensMatch'
  BY <1>1, <1>3 DEF TokensMatch
<1>8. staged' \subseteq Attempts \X Parts
  BY Fields
<1> QED  BY <1>1, <1>3, <1>4, <1>5, <1>6, <1>7, <1>8 DEF Serves

LEMMA ServesComplete ==
  ASSUME TypeOK, TokensMatch, NEW s \in Attempts, Serve(complete_session(Now, s))
  PROVE  /\ Serves(None, None, 0)
         /\ IF CanComplete(Now, s) THEN srv'[s].st = "complete" ELSE UNCHANGED server
<1>1. CASE ~CanComplete(Now, s)
  BY <1>1, ServesNow DEF complete_session
<1>2. CASE CanComplete(Now, s)
  <2>1. srv[s].st = "active" /\ (~Instant(Now, s) => StagedParts(Now, s) = Parts)
    BY <1>2, Fields DEF CanComplete, Active
  <2> DEFINE u == Cleaned(Now, s)
             f == IF Instant(Now, s) THEN Parts ELSE StagedParts(Now, s)
  <2>2. /\ u.srv = srv /\ u.stored = stored /\ u.staged = {o \in staged : o[1] # s}
        /\ u = [srv |-> u.srv, staged |-> u.staged, stored |-> u.stored]
    BY DEF Cleaned, Now
  <2>3. f = Parts
    BY <2>1
  <2>4. complete_session(Now, s) = [u EXCEPT !.srv[s].st = "complete", !.stored[s] = f]
    BY <1>2 DEF complete_session
  <2> HIDE DEF u, f
  <2>5. /\ srv' = [srv EXCEPT ![s].st = "complete"]
        /\ staged' = {o \in staged : o[1] # s}
        /\ stored' = [stored EXCEPT ![s] = Parts]
    BY <2>2, <2>3, <2>4 DEF Serve
  <2> QED  BY <1>2, <2>1, <2>5, ServesEnd
<1> QED  BY <1>1, <1>2

LEMMA ServesAbort ==
  ASSUME TypeOK, TokensMatch, NEW s \in Attempts, Serve(abort_session(Now, s))
  PROVE  Serves(None, None, 0)
<1>1. CASE ~Active(Now, s)
  BY <1>1, ServesNow DEF abort_session
<1>2. CASE Active(Now, s)
  <2>1. /\ srv' = [srv EXCEPT ![s].st = "aborted"]
        /\ staged' = {o \in staged : o[1] # s} /\ stored' = stored
    BY <1>2 DEF Serve, abort_session, Cleaned, Now
  <2> QED  BY <1>2, <2>1, ServesEnd, Fields DEF Active
<1> QED  BY <1>1, <1>2

-----------------------------------------------------------------------------
(* The inductive invariant                                                 *)

\* How many attempts one claim of the row makes at most.
Round == MaxRetries + 1

\* The attempts of the claims before the last retry by the user.
Earlier == manual * Round

Running(a) == att[a].at \in {"session", "parts", "complete"}

\* Attempts are numbered as they begin, and there are no more than their bound.
Numbered ==
    /\ \A a \in Attempts : att[a].at = "none" <=> a > cur
    /\ cur <= Earlier + tries + 1
    /\ worker = "backoff" => cur <= Earlier + tries
    /\ row = "queued" => cur <= Earlier /\ worker = "idle"

\* Only the last attempt is waited for.
OneAttempt ==
    /\ \A a \in Attempts : Running(a) => a = cur /\ worker = "attempt"
    /\ worker = "attempt" => cur \in Attempts /\ Running(cur)

\* No part is touched before the session of the attempt is known.
Untouched ==
    \A a \in Attempts :
      /\ att[a].at \in {"none", "session"} \/ att[a].s = None
           => \A p \in Parts : work[a][p] = "todo"
      /\ att[a].at \in {"parts", "complete"} => att[a].s # None

\* An attempt that has not asked for a session of its own, or waits for it.
Unborn(a) == att[a].at = "none" \/ (att[a].at = "session" /\ att[a].s = None)

\* A session is created once: by its attempt, or by the request it gave up.
CreatedOnce ==
    /\ \A a \in Attempts : Unborn(a) => /\ srv[a].st = "none"
                                        /\ \A r \in late : r.kind = "create" => r.a # a
    /\ \A r \in late : r.kind = "create" => /\ srv[r.a].st = "none"
                                            /\ r.s = r.a /\ r.p = 0

\* The client knows no session that the server has not created.
SessionsExist ==
    /\ rowSess # None => srv[rowSess].st # "none"
    /\ claimed # None => srv[claimed].st # "none"
    /\ \A a \in Attempts : att[a].s # None => srv[att[a].s].st # "none"

\* The runner of a part whose sign request may still arrive is dead.
GivenUp == \A r \in late : r.kind = "sign" => work[r.a][r.p] = "dead"

\* While the session is active, a part whose object the server has seen keeps the
\* object and a row, and one that is sent and has the token of its own attempt is
\* recorded.
KeptPart(a, p) ==
    srv[att[a].s].st = "active" =>
      /\ <<att[a].s, p>> \in staged
      /\ srv[att[a].s].part[p] # "none"
      /\ work[a][p] = "ok" /\ srv[att[a].s].tok[p] = a
           => srv[att[a].s].part[p] = "recorded"

PartsKept ==
    \A a \in Attempts, p \in Parts : work[a][p] \in {"checked", "ok"} => KeptPart(a, p)

TransferInv ==
    /\ TypeOK /\ Numbered /\ OneAttempt /\ Untouched /\ CreatedOnce /\ SessionsExist
    /\ TokensMatch /\ GivenUp /\ PartsKept /\ DoneIsWhole

-----------------------------------------------------------------------------
(* How each part of the invariant is kept                                  *)

\* Bounds of the number of an attempt, from e earlier attempts and t tries.
LEMMA Bounds ==
  ASSUME NEW n \in Nat, NEW e \in Nat, NEW d \in Nat, NEW t \in Nat, e <= d
  PROVE  /\ n <= e + t => n + 1 <= e + t + 1 /\ n <= d + t
         /\ n <= e + t + 1 => n <= d + t + 1
OBVIOUS

\* There is room for another attempt.
LEMMA Room ==
  ASSUME TypeOK, Numbered, row = "queued" \/ worker = "backoff"
  PROVE  cur + 1 \in Attempts
<1>1. /\ MaxManual \in Nat /\ MaxRetries \in Nat /\ manual \in 0..MaxManual
      /\ tries \in 0..MaxRetries /\ cur \in Nat
  BY TransferAssumption, Ids DEF TypeOK, None
<1>2. manual * (MaxRetries + 1) <= MaxManual * (MaxRetries + 1)
  BY <1>1
<1>3. (MaxManual + 1) * (MaxRetries + 1) = MaxManual * (MaxRetries + 1) + MaxRetries + 1
  BY <1>1
<1>4. cur <= manual * (MaxRetries + 1) + MaxRetries
  BY <1>1 DEF Numbered, Earlier, Round
<1> QED  BY <1>1, <1>2, <1>3, <1>4 DEF Attempts

\* A fact about every session the server moves.
LEMMA CreatedStep ==
  ASSUME CreatedOnce, TypeOK, TypeOK', NEW c, NEW g, NEW q, Serves(c, g, q),
         \A a \in Attempts : Unborn(a)' => Unborn(a) /\ a # c,
         \A r \in late' : r.kind = "create" =>
            \/ r \in late /\ r.a # c
            \/ /\ Unborn(r.a) /\ ~Unborn(r.a)' /\ r.a # c
               /\ r.s = r.a /\ r.p = 0
  PROVE  CreatedOnce'
<1>1. \A r \in late' : r.a \in Attempts
  BY DEF TypeOK
<1>2. \A a \in Attempts : srv[a].st = "none" /\ a # c => srv'[a].st = "none"
  BY DEF Serves
<1>3. ASSUME NEW a \in Attempts, Unborn(a)', NEW r \in late', r.kind = "create"
      PROVE  r.a # a
  BY <1>3 DEF CreatedOnce
<1> QED  BY <1>1, <1>2, <1>3 DEF CreatedOnce

LEMMA ExistStep ==
  ASSUME SessionsExist, TypeOK, TypeOK', NEW c, NEW g, NEW q, Serves(c, g, q),
         rowSess' \in {rowSess, None} \/ srv'[rowSess'].st # "none",
         claimed' \in {claimed, None} \/ srv'[claimed'].st # "none",
         \A a \in Attempts : att'[a].s \in {att[a].s, None} \/ srv'[att'[a].s].st # "none"
  PROVE  SessionsExist'
<1>1. \A x \in Attempts : srv[x].st # "none" => srv'[x].st # "none"
  BY DEF Serves
<1>2. /\ rowSess \in {None} \cup Attempts /\ claimed \in {None} \cup Attempts
      /\ \A a \in Attempts : att[a].s \in {None} \cup Attempts
  BY DEF TypeOK
<1> QED  BY <1>1, <1>2 DEF SessionsExist

LEMMA KeptStep ==
  ASSUME PartsKept, Untouched, SessionsExist, TypeOK, NEW c, NEW g, NEW q, Serves(c, g, q),
         \A a \in Attempts, p \in Parts : work'[a][p] \in {"checked", "ok"} =>
            \/ KeptPart(a, p)'
            \/ /\ work'[a][p] = work[a][p] /\ att'[a].s = att[a].s
               /\ ~(g = a /\ q = p /\ work[a][p] = "ok")
  PROVE  PartsKept'
<1> SUFFICES ASSUME NEW a \in Attempts, NEW p \in Parts, work[a][p] \in {"checked", "ok"},
                    work'[a][p] = work[a][p], att'[a].s = att[a].s,
                    ~(g = a /\ q = p /\ work[a][p] = "ok")
             PROVE  KeptPart(a, p)'
  BY DEF PartsKept
<1> DEFINE s == att[a].s
<1>1. s \in Attempts /\ srv[s].st # "none"
  BY DEF Untouched, SessionsExist, TypeOK
<1>2. KeptPart(a, p)
  BY DEF PartsKept
<1> HIDE DEF s
<1> SUFFICES ASSUME srv'[s].st = "active"
             PROVE  /\ <<s, p>> \in staged' /\ srv'[s].part[p] # "none"
                    /\ work[a][p] = "ok" /\ srv'[s].tok[p] = a => srv'[s].part[p] = "recorded"
  BY DEF KeptPart, s
<1>3. /\ srv[s].st = "active" /\ <<s, p>> \in staged /\ srv[s].part[p] # "none"
      /\ work[a][p] = "ok" /\ srv[s].tok[p] = a => srv[s].part[p] = "recorded"
  BY <1>1, <1>2 DEF KeptPart, Serves, s
<1>4. a # None
  BY Ids
<1> QED  BY <1>1, <1>3, <1>4 DEF Serves

LEMMA WholeStep ==
  ASSUME DoneIsWhole, TypeOK, NEW c, NEW g, NEW q, Serves(c, g, q),
         row' = "done" => row = "done" \/ \E s \in Attempts : srv'[s].st = "complete"
  PROVE  DoneIsWhole'
BY DEF DoneIsWhole, Serves

LEMMA TokensStep ==
  ASSUME NEW c, NEW g, NEW q, Serves(c, g, q)
  PROVE  TokensMatch'
BY DEF Serves

-----------------------------------------------------------------------------
(* Steps of an attempt                                                     *)

Attempt == [at : {"none", "session", "parts", "complete", "over"},
            s : {None} \cup Attempts]

PartState == Waiting \cup {"todo", "have", "ok", "dead"}

Request == [kind : {"create", "sign", "put", "confirm", "proxy", "complete", "abort"},
            a : Attempts, s : Attempts, p : Parts]

\* The variables of the tray, which only their own actions change.
Settings == <<link, rowSess, claimed, manual, cur>>

\* The attempt a goes on to post complete, or is over and waited for no longer.
AttStep(a) ==
    /\ att' \in [Attempts -> Attempt]
    /\ \A x \in Attempts : att'[x].s = att[x].s
    /\ \A x \in Attempts \ {a} : att'[x].at = att[x].at
    /\ \/ att'[a].at = att[a].at /\ UNCHANGED <<worker, tries, row>>
       \/ /\ att[a].at = "parts" /\ att'[a].at = "complete"
          /\ UNCHANGED <<worker, tries, row>>
       \/ /\ Running(a) /\ att'[a].at = "over"
          /\ \/ worker' = "backoff" /\ tries' = tries + 1 /\ tries < MaxRetries
             \/ worker' = "idle" /\ tries' = tries
          /\ \/ row' = row
             \/ row = "uploading" /\ row' \in {"error", "done"}

\* Part p of the attempt a moves, and its runner may take the next part.
WorkStep(a, p) ==
    /\ work' \in [Attempts -> [Parts -> PartState]]
    /\ work[a][p] \in Waiting
    /\ \A x \in Attempts \ {a} : work'[x] = work[x]
    /\ \A y \in Parts : \/ work'[a][y] = work[a][y]
                        \/ y = p
                        \/ work[a][y] = "todo" /\ work'[a][y] \in {"proxy", "sign"}

LEMMA ClientFields ==
  ASSUME TypeOK
  PROVE  /\ att \in [Attempts -> Attempt] /\ work \in [Attempts -> [Parts -> PartState]]
         /\ late \subseteq Request
         /\ cur \in Nat /\ manual \in Nat /\ tries \in Nat /\ Earlier \in Nat /\ Round \in Nat
<1>1. cur \in Nat /\ manual \in Nat /\ tries \in Nat
  BY Ids, TransferAssumption DEF TypeOK, None
<1>2. Round \in Nat
  BY TransferAssumption DEF Round
<1>3. Earlier \in Nat
  BY <1>1, <1>2 DEF Earlier
<1> QED  BY <1>1, <1>2, <1>3 DEF TypeOK, Attempt, PartState, Request

LEMMA StepType ==
  ASSUME TypeOK, NEW a \in Attempts, AttStep(a), UNCHANGED Settings,
         work' \in [Attempts -> [Parts -> PartState]],
         late' \subseteq Request, faults' \in 0..MaxFaults,
         NEW c, NEW g, NEW q, Serves(c, g, q)
  PROVE  TypeOK'
<1>1. tries' \in 0..MaxRetries
  BY TransferAssumption DEF TypeOK, AttStep
<1>2. /\ worker' \in {"idle", "attempt", "backoff"}
      /\ row' \in {"queued", "uploading", "error", "done", "gone"}
  BY DEF TypeOK, AttStep
<1>3. srv' \in [Attempts -> Session] /\ staged' \subseteq Attempts \X Parts
      /\ stored' \in [Attempts -> SUBSET Parts]
  BY DEF Serves
<1> QED  BY <1>1, <1>2, <1>3 DEF TypeOK, AttStep, Settings, Session, Attempt, PartState, Request

LEMMA AttNumbered ==
  ASSUME TypeOK, Numbered, OneAttempt, NEW a \in Attempts, AttStep(a), UNCHANGED Settings
  PROVE  Numbered' /\ OneAttempt'
<1>1. Earlier' = Earlier /\ cur' = cur
  BY DEF Earlier, Settings
<1>2. cur \in Nat /\ tries \in Nat /\ Earlier \in Nat
  BY ClientFields
<1>3. CASE UNCHANGED <<worker, tries, row>>
  <2>1. \A x \in Attempts : (att'[x].at = "none" <=> att[x].at = "none") /\ (Running(x)' <=> Running(x))
    BY <1>3 DEF AttStep, Running, OneAttempt
  <2> QED  BY <1>1, <1>3, <2>1 DEF Numbered, OneAttempt
<1>4. CASE /\ Running(a) /\ att'[a].at = "over"
           /\ \/ worker' = "backoff" /\ tries' = tries + 1 /\ tries < MaxRetries
              \/ worker' = "idle" /\ tries' = tries
           /\ \/ row' = row
              \/ row = "uploading" /\ row' \in {"error", "done"}
  <2>1. \A x \in Attempts : ~Running(x)'
    BY <1>4 DEF AttStep, Running, OneAttempt
  <2>2. \A x \in Attempts : att'[x].at = "none" <=> att[x].at = "none"
    BY <1>4 DEF AttStep, Running
  <2>3. OneAttempt'
    BY <1>4, <2>1 DEF OneAttempt
  <2>4. Numbered'
    <3>1. row # "queued"
      BY <1>4 DEF Numbered, OneAttempt
    <3> QED  BY <1>1, <1>2, <1>4, <2>2, <3>1 DEF Numbered
  <2> QED  BY <2>3, <2>4
<1> QED  BY <1>3, <1>4 DEF AttStep

LEMMA Ready ==
  ASSUME TypeOK, Untouched, SessionsExist, NEW a \in Attempts,
         att[a].at \in {"parts", "complete"} \/ \E p \in Parts : work[a][p] # "todo"
  PROVE  /\ att[a].s \in Attempts /\ att[a].at \in {"parts", "complete", "over"}
         /\ srv[att[a].s].st # "none"
<1>1. att[a].at \in {"none", "session", "parts", "complete", "over"} /\ att[a].s \in {None} \cup Attempts
  BY DEF TypeOK
<1> QED  BY <1>1 DEF Untouched, SessionsExist

\* A step of the runner of part p keeps the invariant.
LEMMA PartKeeps ==
  ASSUME TransferInv, NEW a \in Attempts, NEW p \in Parts,
         AttStep(a), WorkStep(a, p), UNCHANGED Settings,
         row' = "done" => row = "done",
         late' \in {late, late \cup {LateOf(a, p)}}, late' = late \/ work[a][p] # "sign" \/ work'[a][p] = "dead",
         faults' \in 0..MaxFaults,
         NEW g \in {None, a}, NEW q, Serves(None, g, q), g = a => q = p,
         work'[a][p] \in {"checked", "ok"} => KeptPart(a, p)'
  PROVE  TransferInv'
<1> USE DEF TransferInv
<1>1. /\ att[a].s \in Attempts /\ att[a].at \in {"parts", "complete", "over"}
      /\ att'[a].at \in {"parts", "complete", "over"} /\ work[a][p] \notin {"todo", "dead"}
  BY Ready DEF WorkStep, Waiting, AttStep, Running
<1>2. LateOf(a, p) \in Request /\ LateOf(a, p).a = a /\ LateOf(a, p).p = p
      /\ LateOf(a, p).kind # "create" /\ (LateOf(a, p).kind = "sign" => work[a][p] = "sign")
  BY <1>1 DEF LateOf, Kind, WorkStep, Waiting, Request
<1>3. TypeOK'
  BY <1>2, StepType, ClientFields DEF WorkStep
<1>4. Numbered' /\ OneAttempt'
  BY AttNumbered
<1>5. Untouched'
  BY <1>1 DEF Untouched, AttStep, WorkStep
<1>6. CreatedOnce'
  <2>1. \A x \in Attempts : Unborn(x)' => Unborn(x)
    BY <1>1 DEF Unborn, AttStep
  <2>2. \A r \in late' : r.kind = "create" => r \in late
    BY <1>2
  <2>3. \A r \in late : r.a \in Attempts
    BY ClientFields DEF Request
  <2> QED  BY <1>3, <2>1, <2>2, <2>3, CreatedStep, Ids
<1>7. SessionsExist'
  BY <1>3, ExistStep DEF AttStep, Settings
<1>8. GivenUp'
  <2>1. \A x \in Attempts, y \in Parts : work[x][y] = "dead" => work'[x][y] = "dead"
    BY <1>1 DEF WorkStep
  <2>2. \A r \in late : r.a \in Attempts /\ r.p \in Parts
    BY ClientFields DEF Request
  <2> QED  BY <1>2, <2>1, <2>2 DEF GivenUp
<1>9. PartsKept'
  <2>1. \A x \in Attempts, y \in Parts : work'[x][y] \in {"checked", "ok"} =>
            \/ KeptPart(x, y)'
            \/ /\ work'[x][y] = work[x][y] /\ att'[x].s = att[x].s
               /\ ~(g = x /\ q = y /\ work[x][y] = "ok")
    BY Ids DEF WorkStep, AttStep
  <2> QED  BY <2>1, KeptStep
<1>10. DoneIsWhole'
  BY WholeStep
<1> QED  BY <1>3, <1>4, <1>5, <1>6, <1>7, <1>8, <1>9, <1>10, TokensStep

-----------------------------------------------------------------------------
(* The actions                                                             *)

LEMMA FailsStep ==
  ASSUME TypeOK, NEW a \in Attempts, Running(a), NEW retry \in BOOLEAN, Fails(a, retry)
  PROVE  AttStep(a) /\ (row' = "done" => row = "done") /\ att'[a].at = "over"
<1>1. att' = [att EXCEPT ![a].at = "over"]
  BY DEF Fails
<1>2. att \in [Attempts -> Attempt]
  BY ClientFields
<1>3. /\ att' \in [Attempts -> Attempt] /\ att'[a].at = "over"
      /\ \A x \in Attempts : att'[x].s = att[x].s
      /\ \A x \in Attempts \ {a} : att'[x].at = att[x].at
  BY <1>1, <1>2 DEF Attempt
<1> QED  BY <1>3 DEF AttStep, Fails

LEMMA MovesStep ==
  ASSUME TypeOK, NEW a \in Attempts, NEW p \in Parts, NEW to \in PartState,
         work[a][p] \in Waiting, Moves(a, p, to)
  PROVE  /\ AttStep(a) /\ WorkStep(a, p) /\ UNCHANGED row
         /\ work'[a][p] = to
<1>1. work' = [work EXCEPT ![a][p] = to] /\ UNCHANGED <<att, worker, tries, row>>
  BY DEF Moves
<1> QED  BY <1>1, ClientFields DEF AttStep, WorkStep

LEMMA RejectedStep ==
  ASSUME TypeOK, NEW a \in Attempts, NEW p \in Parts, NEW retry \in BOOLEAN,
         work[a][p] \in Waiting, Rejected(a, p, retry)
  PROVE  /\ AttStep(a) /\ WorkStep(a, p) /\ (row' = "done" => row = "done")
         /\ work'[a][p] = "dead"
<1>1. work' = [work EXCEPT ![a][p] = "dead"]
  BY DEF Rejected
<1>2. WorkStep(a, p) /\ work'[a][p] = "dead"
  BY <1>1, ClientFields DEF WorkStep, PartState
<1>3. AttStep(a) /\ (row' = "done" => row = "done")
  <2>1. CASE att[a].at = "parts"
    BY <2>1, FailsStep DEF Rejected, Running
  <2>2. CASE att[a].at # "parts"
    BY <2>2, ClientFields DEF Rejected, AttStep
  <2> QED  BY <2>1, <2>2
<1> QED  BY <1>2, <1>3

LEMMA SentStep ==
  ASSUME TypeOK, NEW a \in Attempts, NEW p \in Parts,
         work[a][p] \in Waiting, Sent(a, p)
  PROVE  /\ AttStep(a) /\ WorkStep(a, p) /\ UNCHANGED row
         /\ work'[a][p] = "ok"
<1> DEFINE done == [work[a] EXCEPT ![p] = "ok"]
           todo == {y \in Parts : done[y] = "todo"}
           next == IF todo = {} THEN done ELSE [done EXCEPT ![Min(todo)] = FirstRequest]
<1>1. FirstRequest \in {"proxy", "sign"} /\ FirstRequest \in PartState
  BY DEF FirstRequest, PartState, Waiting
<1>2. done \in [Parts -> PartState] /\ done[p] = "ok" /\ p \notin todo
  BY ClientFields DEF PartState
<1>3. todo # {} => Min(todo) \in todo
  BY MinIsIn, Ids
<1>4. /\ next \in [Parts -> PartState] /\ next[p] = "ok"
      /\ \A y \in Parts : \/ next[y] = done[y]
                          \/ done[y] = "todo" /\ next[y] = FirstRequest
  BY <1>1, <1>2, <1>3
<1>5. \A y \in Parts : y # p => done[y] = work[a][y]
  BY ClientFields
<1>6. work' = [work EXCEPT ![a] = next]
  BY DEF Sent
<1>7. WorkStep(a, p) /\ work'[a][p] = "ok"
  <2> HIDE DEF next, done, todo
  <2>1. work'[a] = next /\ \A x \in Attempts \ {a} : work'[x] = work[x]
    BY <1>6, ClientFields
  <2>2. work' \in [Attempts -> [Parts -> PartState]]
    BY <1>4, <1>6, ClientFields
  <2> QED  BY <1>1, <1>4, <1>5, <2>1, <2>2 DEF WorkStep
<1>8. /\ UNCHANGED <<worker, tries, row>>
      /\ att' = att \/ (att[a].at = "parts" /\ att' = [att EXCEPT ![a].at = "complete"])
  BY DEF Sent
<1>9. AttStep(a)
  <2>1. CASE att' = att
    BY <1>8, <2>1, ClientFields DEF AttStep
  <2>2. CASE att[a].at = "parts" /\ att' = [att EXCEPT ![a].at = "complete"]
    <3>1. att \in [Attempts -> Attempt]
      BY ClientFields
    <3>2. /\ att' \in [Attempts -> Attempt] /\ att'[a].at = "complete"
          /\ \A x \in Attempts : att'[x].s = att[x].s
          /\ \A x \in Attempts \ {a} : att'[x].at = att[x].at
      BY <2>2, <3>1 DEF Attempt
    <3> QED  BY <1>8, <2>2, <3>2 DEF AttStep
  <2> QED  BY <1>8, <2>1, <2>2
<1> QED  BY <1>7, <1>8, <1>9

LEMMA PartReady ==
  ASSUME TransferInv, NEW a \in Attempts, NEW p \in Parts, work[a][p] \in Waiting
  PROVE  att[a].s \in Attempts /\ faults \in 0..MaxFaults
<1>1. work[a][p] # "todo"
  BY DEF Waiting
<1> QED  BY <1>1, Ready DEF TransferInv, TypeOK

LEMMA FaultCounted ==
  ASSUME TypeOK, Fault
  PROVE  faults' \in 0..MaxFaults
BY TransferAssumption DEF TypeOK, Fault

LEMMA SignKeeps ==
  ASSUME TransferInv, NEW a \in Attempts, NEW p \in Parts, SignAnswered(a, p)
  PROVE  TransferInv'
<1>1. work[a][p] \in Waiting
  BY DEF SignAnswered, Waiting
<1>2. PICK to \in {"put", "proxy"} : Moves(a, p, to)
  BY DEF SignAnswered
<1>3. AttStep(a) /\ WorkStep(a, p) /\ UNCHANGED row /\ work'[a][p] = to
  BY <1>1, <1>2, MovesStep DEF TransferInv, PartState, Waiting
<1>4. Serves(None, a, p)
  BY <1>1, PartReady, ServesSign DEF SignAnswered, TransferInv
<1>5. UNCHANGED Settings /\ late' = late /\ faults' \in 0..MaxFaults
  BY <1>1, PartReady DEF SignAnswered, PartFrame, Settings
<1> QED  BY <1>3, <1>4, <1>5, PartKeeps

LEMMA PutKeeps ==
  ASSUME TransferInv, NEW a \in Attempts, NEW p \in Parts,
         PutAnswered(a, p) \/ PutSwallowed(a, p)
  PROVE  TransferInv'
<1>1. work[a][p] \in Waiting /\ Moves(a, p, "confirm")
  BY DEF PutAnswered, PutSwallowed, Waiting
<1>2. AttStep(a) /\ WorkStep(a, p) /\ UNCHANGED row /\ work'[a][p] = "confirm"
  BY <1>1, MovesStep DEF TransferInv, PartState, Waiting
<1>3. Serves(None, None, 0)
  <2>1. CASE PutAnswered(a, p)
    BY <1>1, <2>1, PartReady, ServesPut DEF PutAnswered, TransferInv
  <2>2. CASE PutSwallowed(a, p)
    BY <2>2, ServesNothing DEF PutSwallowed, TransferInv
  <2> QED  BY <2>1, <2>2
<1>4. UNCHANGED Settings /\ late' = late /\ faults' \in 0..MaxFaults
  BY <1>1, PartReady, FaultCounted
  DEF PutAnswered, PutSwallowed, PartFrame, Settings, TransferInv
<1> QED  BY <1>2, <1>3, <1>4, PartKeeps, Ids

LEMMA CheckedKeeps ==
  ASSUME TransferInv, NEW a \in Attempts, NEW p \in Parts, ConfirmChecked(a, p)
  PROVE  TransferInv'
<1> DEFINE ok == ConfirmMatches(Now, att[a].s, p, a)
<1>1. work[a][p] \in Waiting /\ Moves(a, p, IF ok THEN "checked" ELSE "proxy")
  BY DEF ConfirmChecked, Waiting
<1>2. /\ AttStep(a) /\ WorkStep(a, p) /\ UNCHANGED row
      /\ work'[a][p] = IF ok THEN "checked" ELSE "proxy"
  BY <1>1, MovesStep DEF TransferInv, PartState, Waiting
<1>3. Serves(None, None, 0) /\ UNCHANGED server
  BY ServesNothing DEF ConfirmChecked, TransferInv
<1>4. UNCHANGED Settings /\ late' = late /\ faults' \in 0..MaxFaults
  BY <1>1, PartReady DEF ConfirmChecked, PartFrame, Settings
<1>5. work'[a][p] \in {"checked", "ok"} => KeptPart(a, p)'
  <2> SUFFICES ASSUME ok PROVE KeptPart(a, p)'
    BY <1>2
  <2>1. att[a].s \in Attempts /\ att'[a].s = att[a].s
    BY <1>1, <1>2, PartReady DEF AttStep
  <2>2. srv[att[a].s].tok[p] = a /\ <<att[a].s, p>> \in staged
    BY Fields DEF ConfirmMatches, TransferInv
  <2>3. srv[att[a].s].part[p] # "none"
    BY <2>1, <2>2, Ids DEF TransferInv, TokensMatch
  <2>4. work'[a][p] = "checked"
    BY <1>2
  <2> QED  BY <1>3, <2>1, <2>2, <2>3, <2>4 DEF KeptPart, server
<1> QED  BY <1>2, <1>3, <1>4, <1>5, PartKeeps, Ids

LEMMA ConsumedKeeps ==
  ASSUME TransferInv, NEW a \in Attempts, NEW p \in Parts, ConfirmConsumed(a, p)
  PROVE  TransferInv'
<1> DEFINE s == att[a].s
<1>1. work[a][p] = "checked" /\ work[a][p] \in Waiting /\ s \in Attempts
  BY PartReady DEF ConfirmConsumed, Waiting
<1>2. AttStep(a) /\ WorkStep(a, p) /\ UNCHANGED row /\ work'[a][p] = "ok"
  BY <1>1, SentStep DEF TransferInv, ConfirmConsumed
<1>3. /\ Serves(None, None, 0) /\ srv'[s].st = srv[s].st
      /\ \/ srv'[s].tok[p] = None /\ srv'[s].part[p] = "recorded"
         \/ srv[s].tok[p] # a /\ srv' = srv
  BY <1>1, ServesConsume DEF ConfirmConsumed, TransferInv
<1>4. UNCHANGED Settings /\ late' = late /\ faults' \in 0..MaxFaults
  BY <1>1, PartReady DEF ConfirmConsumed, PartFrame, Settings
<1>5. KeptPart(a, p)'
  <2>1. att'[a].s = s
    BY <1>2 DEF AttStep
  <2>2. KeptPart(a, p)
    BY <1>1 DEF TransferInv, PartsKept
  <2> SUFFICES ASSUME srv'[s].st = "active"
               PROVE  /\ <<s, p>> \in staged' /\ srv'[s].part[p] # "none"
                      /\ srv'[s].tok[p] = a => srv'[s].part[p] = "recorded"
    BY <2>1 DEF KeptPart
  <2>3. srv[s].st = "active" /\ <<s, p>> \in staged /\ srv[s].part[p] # "none"
    BY <1>3, <2>2 DEF KeptPart
  <2> HIDE DEF s
  <2>4. <<s, p>> \in staged' /\ srv'[s].part[p] # "none"
    BY <1>1, <1>3, <2>3 DEF Serves
  <2> QED  BY <1>3, <2>4
<1> QED  BY <1>2, <1>3, <1>4, <1>5, PartKeeps, Ids

LEMMA ProxyKeeps ==
  ASSUME TransferInv, NEW a \in Attempts, NEW p \in Parts, ProxyAnswered(a, p)
  PROVE  TransferInv'
<1> DEFINE s == att[a].s
<1>1. work[a][p] \in Waiting /\ s \in Attempts
  BY PartReady DEF ProxyAnswered, Waiting
<1>2. /\ Serves(None, None, 0) /\ srv'[s].st = srv[s].st
      /\ srv[s].st = "active" => srv'[s].part[p] = "recorded" /\ <<s, p>> \in staged'
  BY <1>1, ServesUpload DEF ProxyAnswered, TransferInv
<1>3. UNCHANGED Settings /\ late' = late /\ faults' \in 0..MaxFaults
  BY <1>1, PartReady DEF ProxyAnswered, PartFrame, Settings
<1>4. CASE Active(Now, s)
  <2>1. AttStep(a) /\ WorkStep(a, p) /\ UNCHANGED row /\ work'[a][p] = "ok"
    BY <1>1, <1>4, SentStep DEF TransferInv, ProxyAnswered
  <2>2. att'[a].s = s /\ srv[s].st = "active"
    BY <1>4, <2>1, Fields DEF AttStep, Active, TransferInv
  <2>3. KeptPart(a, p)'
    BY <1>2, <2>2 DEF KeptPart
  <2> QED  BY <1>2, <1>3, <2>1, <2>3, PartKeeps, Ids
<1>5. CASE ~Active(Now, s)
  <2>1. /\ AttStep(a) /\ WorkStep(a, p) /\ (row' = "done" => row = "done")
        /\ work'[a][p] = "dead"
    BY <1>1, <1>5, RejectedStep DEF TransferInv, ProxyAnswered
  <2> QED  BY <1>2, <1>3, <2>1, PartKeeps, Ids
<1> QED  BY <1>4, <1>5

\* A part that is refused or lost: its runner dies or falls back to the API.
LEMMA FaultKeeps ==
  ASSUME TransferInv, NEW a \in Attempts, NEW p \in Parts,
         PartRefused(a, p) \/ PartLost(a, p)
  PROVE  TransferInv'
<1>1. work[a][p] \in Waiting /\ faults' \in 0..MaxFaults
  BY FaultCounted DEF PartRefused, PartLost, Waiting, TransferInv
<1>2. /\ UNCHANGED Settings /\ UNCHANGED server
      /\ late' \in {late, late \cup {LateOf(a, p)}}
  BY DEF PartRefused, PartLost, PartFrame, Settings
<1>3. Serves(None, None, 0)
  BY <1>2, ServesNothing DEF TransferInv
<1>4. CASE Rejected(a, p, TRUE)
  <2>1. /\ AttStep(a) /\ WorkStep(a, p) /\ (row' = "done" => row = "done")
        /\ work'[a][p] = "dead"
    BY <1>1, <1>4, RejectedStep DEF TransferInv
  <2> QED  BY <1>1, <1>2, <1>3, <2>1, PartKeeps, Ids
<1>5. CASE Moves(a, p, "proxy") /\ (late' = late \/ work[a][p] # "sign")
  <2>1. AttStep(a) /\ WorkStep(a, p) /\ UNCHANGED row /\ work'[a][p] = "proxy"
    BY <1>1, <1>5, MovesStep DEF TransferInv, PartState, Waiting
  <2> QED  BY <1>1, <1>2, <1>3, <1>5, <2>1, PartKeeps, Ids
<1> QED  BY <1>4, <1>5 DEF PartRefused, PartLost

LEMMA PartStepKeeps ==
  ASSUME TransferInv, NEW a \in Attempts, NEW p \in Parts, PartStep(a, p)
  PROVE  TransferInv'
BY SignKeeps, PutKeeps, CheckedKeeps, ConsumedKeeps, ProxyKeeps, FaultKeeps DEF PartStep

-----------------------------------------------------------------------------
(* An attempt ends                                                         *)

\* An attempt that is over keeps the invariant, with the request r it gave up.
LEMMA EndKeeps ==
  ASSUME TransferInv, NEW a \in Attempts, Running(a), AttStep(a), att'[a].at = "over",
         UNCHANGED Settings, UNCHANGED work, faults' \in 0..MaxFaults,
         NEW r \in Request, late' \in {late, late \cup {r}},
         r.kind = "complete" \/ (r.kind = "create" /\ Unborn(a) /\ r.a = a /\ r.s = a /\ r.p = 0),
         Serves(None, None, 0),
         row' = "done" => row = "done" \/ \E s \in Attempts : srv'[s].st = "complete"
  PROVE  TransferInv'
<1> USE DEF TransferInv
<1>1. TypeOK'
  BY StepType, ClientFields
<1>2. Numbered' /\ OneAttempt'
  BY AttNumbered
<1>3. Untouched'
  BY DEF Untouched, AttStep
<1>4. CreatedOnce'
  <2>1. \A x \in Attempts : Unborn(x)' => Unborn(x) /\ x # a
    BY DEF Unborn, AttStep
  <2>2. \A x \in late : x.a \in Attempts
    BY ClientFields DEF Request
  <2> QED  BY <1>1, <2>1, <2>2, CreatedStep, Ids
<1>5. SessionsExist'
  BY <1>1, ExistStep DEF AttStep, Settings
<1>6. GivenUp'
  BY DEF GivenUp
<1>7. PartsKept'
  BY KeptStep, Ids DEF AttStep
<1>8. DoneIsWhole'
  BY WholeStep
<1> QED  BY <1>1, <1>2, <1>3, <1>4, <1>5, <1>6, <1>7, <1>8, TokensStep

LEMMA SessionFailsKeeps ==
  ASSUME TransferInv, NEW a \in Attempts, NEW outcome, SessionFails(a, outcome)
  PROVE  TransferInv'
<1> DEFINE c == [kind |-> "create", a |-> a, s |-> a, p |-> 0]
           d == [kind |-> "complete", a |-> a, s |-> a, p |-> 0]
<1>1. Running(a) /\ att[a].at = "session" /\ faults' \in 0..MaxFaults
  BY FaultCounted DEF SessionFails, Running, TransferInv
<1>2. AttStep(a) /\ (row' = "done" => row = "done") /\ att'[a].at = "over"
  BY <1>1, FailsStep DEF SessionFails, TransferInv
<1>3. c \in Request /\ d \in Request
  BY Ids DEF Request
<1>4. UNCHANGED Settings /\ UNCHANGED work /\ Serves(None, None, 0)
  BY ServesNothing DEF SessionFails, Settings, TransferInv
<1>5. late' = late \/ (late' = late \cup {c} /\ Unborn(a))
  BY <1>1 DEF SessionFails, Unborn
<1>6. CASE late' = late
  BY <1>1, <1>2, <1>3, <1>4, <1>6, EndKeeps
<1>7. CASE late' = late \cup {c} /\ Unborn(a)
  BY <1>1, <1>2, <1>3, <1>4, <1>7, EndKeeps
<1> QED  BY <1>5, <1>6, <1>7

LEMMA CompleteFailsKeeps ==
  ASSUME TransferInv, NEW a \in Attempts, NEW outcome, CompleteFails(a, outcome)
  PROVE  TransferInv'
<1> DEFINE d == [kind |-> "complete", a |-> a, s |-> att[a].s, p |-> 0]
<1>1. Running(a) /\ att[a].at = "complete" /\ faults' \in 0..MaxFaults
  BY FaultCounted DEF CompleteFails, Running, TransferInv
<1>2. AttStep(a) /\ (row' = "done" => row = "done") /\ att'[a].at = "over"
  BY <1>1, FailsStep DEF CompleteFails, TransferInv
<1>3. d \in Request
  BY <1>1, Ids, Ready DEF Request, TransferInv
<1>4. UNCHANGED Settings /\ UNCHANGED work /\ Serves(None, None, 0)
  BY ServesNothing DEF CompleteFails, Settings, TransferInv
<1>5. late' \in {late, late \cup {d}}
  BY DEF CompleteFails
<1> QED  BY <1>1, <1>2, <1>3, <1>4, <1>5, EndKeeps

LEMMA CompleteKeeps ==
  ASSUME TransferInv, NEW a \in Attempts, CompleteAnswered(a)
  PROVE  TransferInv'
<1> DEFINE s == att[a].s
           d == [kind |-> "complete", a |-> a, s |-> s, p |-> 0]
<1>1. Running(a) /\ att[a].at = "complete" /\ faults' \in 0..MaxFaults /\ s \in Attempts
  BY Ready DEF CompleteAnswered, Running, TransferInv, TypeOK
<1>2. d \in Request
  BY <1>1, Ids DEF Request
<1>3. UNCHANGED Settings /\ UNCHANGED work /\ late' = late
  BY DEF CompleteAnswered, Settings
<1>4. /\ Serves(None, None, 0)
      /\ CanComplete(Now, s) => srv'[s].st = "complete"
  BY <1>1, ServesComplete DEF CompleteAnswered, TransferInv
<1>5. /\ AttStep(a) /\ att'[a].at = "over"
      /\ row' = "done" => row = "done" \/ \E x \in Attempts : srv'[x].st = "complete"
  <2>1. CASE CanComplete(Now, s)
    <3>1. /\ att' = [att EXCEPT ![a].at = "over"] /\ worker' = "idle" /\ UNCHANGED tries
          /\ row' = IF row = "uploading" THEN "done" ELSE row
      BY <2>1 DEF CompleteAnswered
    <3>2. att \in [Attempts -> Attempt]
      BY ClientFields DEF TransferInv
    <3>3. /\ att' \in [Attempts -> Attempt] /\ att'[a].at = "over"
          /\ \A x \in Attempts : att'[x].s = att[x].s
          /\ \A x \in Attempts \ {a} : att'[x].at = att[x].at
      BY <3>1, <3>2 DEF Attempt
    <3> QED  BY <1>1, <1>4, <2>1, <3>1, <3>3 DEF AttStep
  <2>2. CASE ~CanComplete(Now, s)
    BY <1>1, <2>2, FailsStep DEF CompleteAnswered, TransferInv
  <2> QED  BY <2>1, <2>2
<1> HIDE DEF d
<1>6. d.kind = "complete"
  BY DEF d
<1> QED  BY <1>1, <1>2, <1>3, <1>4, <1>5, <1>6, EndKeeps

-----------------------------------------------------------------------------
(* An attempt begins                                                       *)

\* The next attempt begins, with the session s of the row or with none.
LEMMA BeginKeeps ==
  ASSUME TransferInv, row = "queued" \/ worker = "backoff", worker # "attempt",
         NEW s \in {rowSess, claimed}, BeginAttempt(s),
         row' \in {row, "uploading"}, row' # "queued", claimed' \in {claimed, rowSess},
         tries' \in 0..MaxRetries, cur <= Earlier + tries',
         UNCHANGED <<link, rowSess, manual, work, server, late, faults>>
  PROVE  TransferInv'
<1> USE DEF TransferInv
<1> DEFINE n == cur + 1
<1>1. n \in Attempts /\ cur \in Nat /\ Earlier \in Nat /\ tries' \in Nat
  BY Room, ClientFields
<1>2. cur' = n /\ worker' = "attempt" /\ att' = [att EXCEPT ![n] = [at |-> "session", s |-> s]]
  BY DEF BeginAttempt
<1>3. att[n].at = "none" /\ s \in {None} \cup Attempts
  BY <1>1 DEF Numbered, TypeOK
<1>4. /\ att' \in [Attempts -> Attempt] /\ att'[n].at = "session" /\ att'[n].s = s
      /\ \A x \in Attempts \ {n} : att'[x] = att[x]
  BY <1>1, <1>2, <1>3, ClientFields DEF Attempt
<1>5. TypeOK'
  <2>1. att' \in [Attempts -> [at : {"none", "session", "parts", "complete", "over"},
                               s : {None} \cup Attempts]]
    BY <1>4 DEF Attempt
  <2> QED  BY <1>1, <1>2, <2>1 DEF TypeOK, server
<1> HIDE DEF n
<1>6. Numbered'
  <2>1. \A x \in Attempts : x \in Nat
    BY Ids
  <2>2. \A x \in Attempts : att'[x].at = "none" <=> x > cur'
    <3> SUFFICES ASSUME NEW x \in Attempts PROVE att'[x].at = "none" <=> x > n
      BY <1>2
    <3>1. CASE x = n
      BY <1>1, <1>4, <2>1, <3>1
    <3>2. CASE x # n
      BY <1>1, <1>4, <2>1, <3>2 DEF Numbered, n
    <3> QED  BY <3>1, <3>2
  <2>3. Earlier' = Earlier
    BY DEF Earlier
  <2>4. cur' <= Earlier' + tries' + 1
    <3>1. Earlier <= Earlier
      BY <1>1
    <3>2. n <= Earlier + tries' + 1
      BY <1>1, <3>1, Bounds DEF n
    <3> QED  BY <1>2, <2>3, <3>2
  <2> QED  BY <1>2, <2>2, <2>4 DEF Numbered
<1>7. OneAttempt'
  BY <1>1, <1>2, <1>4 DEF OneAttempt, Running
<1>8. Untouched'
  BY <1>3, <1>4 DEF Untouched
<1>9. Serves(None, None, 0)
  BY ServesNothing
<1>10. CreatedOnce'
  <2>1. \A x \in Attempts : Unborn(x)' => Unborn(x)
    BY <1>3, <1>4 DEF Unborn
  <2>2. \A x \in late : x.a \in Attempts
    BY ClientFields DEF Request
  <2> QED  BY <1>5, <1>9, <2>1, <2>2, CreatedStep, Ids
<1>11. SessionsExist'
  <2>1. \A x \in Attempts : srv'[x] = srv[x]
    BY DEF server
  <2> QED  BY <1>3, <1>4, <2>1 DEF SessionsExist, server
<1>12. GivenUp'
  BY DEF GivenUp
<1>13. PartsKept'
  <2>1. \A x \in Attempts, y \in Parts :
          work'[x][y] \in {"checked", "ok"} => work'[x][y] = work[x][y] /\ att'[x].s = att[x].s
    BY <1>3, <1>4 DEF Untouched
  <2> QED  BY <1>9, <2>1, KeptStep, Ids
<1>14. DoneIsWhole'
  BY <1>9, WholeStep
<1> QED  BY <1>5, <1>6, <1>7, <1>8, <1>9, <1>10, <1>11, <1>12, <1>13, <1>14, TokensStep

LEMMA ClaimKeeps ==
  ASSUME TransferInv, Claim
  PROVE  TransferInv'
<1>1. cur <= Earlier + tries' /\ tries' \in 0..MaxRetries
  BY ClientFields, TransferAssumption DEF Claim, TransferInv, Numbered
<1> QED  BY <1>1, BeginKeeps DEF Claim

-----------------------------------------------------------------------------
(* Steps that leave the attempts alone                                     *)

\* A request reaches the server, or the janitor runs.
LEMMA ServerKeeps ==
  ASSUME TransferInv, UNCHANGED <<link, client>>, late' \subseteq late,
         faults' \in 0..MaxFaults,
         NEW c, NEW g, NEW q, Serves(c, g, q),
         \A x \in Attempts : Unborn(x) => x # c,
         \A r \in late' : r.kind = "create" => r.a # c,
         g \in Attempts => work[g][q] # "ok"
  PROVE  TransferInv'
<1> USE DEF TransferInv, client
<1>1. TypeOK'
  <2>1. srv' \in [Attempts -> Session] /\ staged' \subseteq Attempts \X Parts
        /\ stored' \in [Attempts -> SUBSET Parts]
    BY DEF Serves
  <2> QED  BY <2>1 DEF TypeOK, Session
<1>2. Numbered' /\ OneAttempt' /\ Untouched'
  BY DEF Numbered, OneAttempt, Untouched, Running, Earlier
<1>3. CreatedOnce'
  BY <1>1, CreatedStep DEF Unborn
<1>4. SessionsExist'
  BY <1>1, ExistStep
<1>5. GivenUp'
  BY DEF GivenUp
<1>6. PartsKept'
  BY KeptStep
<1>7. DoneIsWhole'
  BY WholeStep
<1> QED  BY <1>1, <1>2, <1>3, <1>4, <1>5, <1>6, <1>7, TokensStep

LEMMA ExpireKeeps ==
  ASSUME TransferInv, NEW s \in Attempts, Expire(s)
  PROVE  TransferInv'
<1>1. faults' \in 0..MaxFaults
  BY FaultCounted DEF Expire, Fault, TransferInv
<1>2. Serves(None, None, 0)
  BY ServesAbort DEF Expire, TransferInv
<1>3. \A r \in late : r.a \in Attempts
  BY ClientFields DEF Request, TransferInv
<1> QED  BY <1>1, <1>2, <1>3, ServerKeeps, Ids DEF Expire

LEMMA LateKeeps ==
  ASSUME TransferInv, LateArrives
  PROVE  TransferInv'
<1> USE DEF TransferInv
<1> DEFINE Answer(r) ==
      CASE r.kind = "create"   -> create_session(Now, r.a)
        [] r.kind = "sign"     -> signed_part_url(Now, r.s, r.p, r.a)
        [] r.kind = "put"      -> StoragePut(Now, r.s, r.p)
        [] r.kind = "confirm"  -> IF ConfirmMatches(Now, r.s, r.p, r.a)
                                  THEN consume_part(Now, r.s, r.p, r.a) ELSE Now
        [] r.kind = "proxy"    -> upload_part(Now, r.s, r.p)
        [] r.kind = "complete" -> complete_session(Now, r.s)
        [] r.kind = "abort"    -> abort_session(Now, r.s)
<1>1. PICK r \in late : late' = late \ {r} /\ Serve(Answer(r))
  BY DEF LateArrives
<1>2. UNCHANGED <<link, client>> /\ faults' \in 0..MaxFaults /\ late' \subseteq late
  BY <1>1 DEF LateArrives, TypeOK
<1>3. /\ r \in Request /\ \A x \in late : x \in Request
      /\ r.a \in Attempts /\ r.s \in Attempts /\ r.p \in Parts
      /\ r.kind \in {"create", "sign", "put", "confirm", "proxy", "complete", "abort"}
      /\ \A x \in late : x.a \in Attempts
  BY ClientFields DEF Request
<1>4. ASSUME Serves(None, None, 0) PROVE TransferInv'
  BY <1>2, <1>3, <1>4, ServerKeeps, Ids
<1>5. CASE r.kind = "create"
  <2>1. Serve(create_session(Now, r.a)) /\ srv[r.a].st = "none"
    BY <1>1, <1>5 DEF CreatedOnce
  <2>2. Serves(r.a, None, 0)
    BY <1>3, <2>1, ServesCreate
  <2>3. \A x \in Attempts : Unborn(x) => x # r.a
    BY <1>5 DEF CreatedOnce
  <2>4. ASSUME NEW x \in late', x.kind = "create" PROVE x.a # r.a
    <3>1. x \in late /\ x # r /\ x \in Request
      BY <1>1, <1>3
    <3>2. x.s = x.a /\ x.p = 0 /\ r.s = r.a /\ r.p = 0
      BY <1>5, <2>4, <3>1 DEF CreatedOnce
    <3> QED  BY <1>3, <1>5, <2>4, <3>1, <3>2 DEF Request
  <2> QED  BY <1>2, <2>2, <2>3, <2>4, ServerKeeps, Ids
<1>6. CASE r.kind = "sign"
  <2>1. Serves(None, r.a, r.p)
    BY <1>1, <1>3, <1>6, ServesSign
  <2>2. work[r.a][r.p] # "ok"
    BY <1>6 DEF GivenUp
  <2> QED  BY <1>2, <1>3, <2>1, <2>2, ServerKeeps, Ids
<1>7. CASE r.kind = "put"
  BY <1>1, <1>3, <1>4, <1>7, ServesPut
<1>8. CASE r.kind = "confirm"
  <2>1. Serve(consume_part(Now, r.s, r.p, r.a)) \/ Serve(Now)
    BY <1>1, <1>8
  <2> QED  BY <1>3, <1>4, <2>1, ServesConsume, ServesNow
<1>9. CASE r.kind = "proxy"
  BY <1>1, <1>3, <1>4, <1>9, ServesUpload
<1>10. CASE r.kind = "complete"
  BY <1>1, <1>3, <1>4, <1>10, ServesComplete
<1>11. CASE r.kind = "abort"
  BY <1>1, <1>3, <1>4, <1>11, ServesAbort
<1> QED  BY <1>3, <1>5, <1>6, <1>7, <1>8, <1>9, <1>10, <1>11

\* The row changes and nothing else does but the count of the user's retries.
LEMMA RowKeeps ==
  ASSUME TransferInv, row' \in {"queued", "gone"}, faults' \in 0..MaxFaults,
         UNCHANGED <<link, rowSess, claimed, worker, tries, cur, att, work, server, late>>,
         manual' \in 0..MaxManual, manual' = manual \/ manual' = manual + 1,
         row' = "queued" => manual' = manual + 1 /\ worker = "idle"
  PROVE  TransferInv'
<1> USE DEF TransferInv, server
<1>1. TypeOK'
  BY DEF TypeOK
<1>2. Numbered'
  <2>1. /\ cur \in Nat /\ manual \in Nat /\ tries \in Nat /\ Earlier \in Nat /\ Round \in Nat
        /\ tries <= MaxRetries /\ MaxRetries \in Nat
    BY ClientFields, TransferAssumption DEF TypeOK
  <2>2. manual' = manual + 1 => Earlier' = Earlier + Round
    <3>1. (manual + 1) * Round = manual * Round + Round
      BY <2>1
    <3> QED  BY <3>1 DEF Earlier, Round
  <2>3. manual' = manual => Earlier' = Earlier
    BY DEF Earlier, Round
  <2>4. manual' = manual + 1 => cur <= Earlier'
    BY <2>1, <2>2 DEF Numbered, Round
  <2>5. /\ Earlier' >= Earlier /\ Earlier' \in Nat
    BY <2>1, <2>2, <2>3
  <2>6. cur <= Earlier' + tries + 1 /\ (worker = "backoff" => cur <= Earlier' + tries)
    <3>1. Earlier <= Earlier'
      BY <2>1, <2>5
    <3> QED  BY <2>1, <2>5, <3>1, Bounds DEF Numbered
  <2> QED  BY <2>4, <2>6 DEF Numbered
<1>3. OneAttempt' /\ Untouched' /\ CreatedOnce' /\ SessionsExist' /\ TokensMatch'
      /\ GivenUp' /\ PartsKept'
  BY DEF OneAttempt, Untouched, CreatedOnce, SessionsExist, TokensMatch, GivenUp, PartsKept,
         KeptPart, Running, Unborn
<1>4. DoneIsWhole'
  BY DEF DoneIsWhole
<1> QED  BY <1>1, <1>2, <1>3, <1>4

LEMMA RetryRowKeeps ==
  ASSUME TransferInv, RetryRow
  PROVE  TransferInv'
BY RowKeeps, TransferAssumption DEF RetryRow, TransferInv, TypeOK

LEMMA RemoveRowKeeps ==
  ASSUME TransferInv, RemoveRow
  PROVE  TransferInv'
BY RowKeeps DEF RemoveRow, TransferInv, TypeOK

LEMMA RetryKeeps ==
  ASSUME TransferInv, Retry
  PROVE  TransferInv'
<1>1. CASE BeginAttempt(claimed)
  <2>1. row # "queued" /\ cur <= Earlier + tries' /\ tries' \in 0..MaxRetries
    BY DEF Retry, TransferInv, Numbered, TypeOK
  <2> QED  BY <1>1, <2>1, BeginKeeps DEF Retry
<1>2. CASE row = "gone" /\ worker' = "idle" /\ UNCHANGED <<cur, att>>
  <2> USE DEF TransferInv, server, Retry
  <2>1. TypeOK'
    BY <1>2 DEF TypeOK
  <2>2. Numbered' /\ OneAttempt'
    BY <1>2 DEF Numbered, OneAttempt, Earlier, Running
  <2>3. Untouched' /\ CreatedOnce' /\ SessionsExist' /\ TokensMatch' /\ GivenUp' /\ PartsKept'
    BY <1>2 DEF Untouched, CreatedOnce, SessionsExist, TokensMatch, GivenUp, PartsKept,
                KeptPart, Unborn
  <2>4. DoneIsWhole'
    BY <1>2 DEF DoneIsWhole
  <2> QED  BY <2>1, <2>2, <2>3, <2>4
<1> QED  BY <1>1, <1>2 DEF Retry

LEMMA StartedType ==
  ASSUME NEW received, NEW k
  PROVE  Started(received, k) \in [Parts -> {"have", "proxy", "sign", "todo"}]
BY DEF Started, FirstRequest

LEMMA ReadyKeeps ==
  ASSUME TransferInv, NEW a \in Attempts, SessionReady(a)
  PROVE  TransferInv'
<1> USE DEF TransferInv
<1> DEFINE s == IF att[a].s = None THEN a ELSE att[a].s
           c == IF att[a].s = None THEN a ELSE None
<1>1. att[a].at = "session" /\ att[a].s \in {None} \cup Attempts /\ s \in Attempts
  BY DEF SessionReady, TypeOK
<1>2. Serves(c, None, 0) /\ srv'[s].st # "none"
  <2>1. CASE att[a].s = None
    <3>1. srv[a].st = "none"
      BY <1>1, <2>1 DEF CreatedOnce, Unborn
    <3>2. Serve(create_session(Now, a))
      BY <2>1 DEF SessionReady
    <3> QED  BY <2>1, <3>1, <3>2, ServesCreate
  <2>2. CASE att[a].s # None
    <3>1. Serve(Now)
      BY <2>2 DEF SessionReady
    <3>2. Serves(None, None, 0) /\ UNCHANGED server
      BY <3>1, ServesNow
    <3> QED  BY <1>1, <2>2, <3>2 DEF SessionsExist, server
  <2> QED  BY <2>1, <2>2
<1>3. PICK at \in {"complete", "parts"}, w \in [Parts -> {"have", "proxy", "sign", "todo"}] :
        /\ att' = [att EXCEPT ![a].s = s, ![a].at = at]
        /\ work' = [work EXCEPT ![a] = w]
  BY StartedType DEF SessionReady
<1>4. /\ rowSess' \in {rowSess, s}
      /\ UNCHANGED <<link, row, claimed, worker, tries, manual, cur, late, faults>>
  BY DEF SessionReady
<1>5. \A x \in Attempts : Unborn(x) => \A r \in late : r.kind = "create" => r.a # x
  BY DEF CreatedOnce
<1>6. c \in {None, a} /\ (c = a => Unborn(a))
  BY <1>1, Ids DEF Unborn
<1> HIDE DEF s, c
<1>7. /\ att' \in [Attempts -> Attempt] /\ att'[a].s = s /\ att'[a].at = at
      /\ \A x \in Attempts \ {a} : att'[x] = att[x]
  BY <1>1, <1>3, ClientFields DEF Attempt
<1>8. /\ work' \in [Attempts -> [Parts -> PartState]]
      /\ work'[a] = w /\ \A x \in Attempts \ {a} : work'[x] = work[x]
  <2>1. w \in [Parts -> PartState]
    BY DEF PartState, Waiting
  <2> QED  BY <1>3, <2>1, ClientFields
<1>9. TypeOK'
  <2>1. /\ srv' \in [Attempts -> Session] /\ staged' \subseteq Attempts \X Parts
        /\ stored' \in [Attempts -> SUBSET Parts]
    BY <1>2 DEF Serves
  <2> QED  BY <1>1, <1>4, <1>7, <1>8, <2>1 DEF TypeOK, Session, Attempt, PartState
<1>10. Numbered' /\ OneAttempt'
  <2>1. \A x \in Attempts : (att'[x].at = "none" <=> att[x].at = "none") /\ (Running(x)' <=> Running(x))
    BY <1>1, <1>7 DEF Running
  <2> QED  BY <1>4, <2>1 DEF Numbered, OneAttempt, Earlier
<1>11. Untouched'
  BY <1>1, <1>7, <1>8, Ids DEF Untouched
<1>12. CreatedOnce'
  <2>1. \A x \in Attempts : Unborn(x)' => Unborn(x) /\ x # a
    BY <1>7 DEF Unborn
  <2>2. \A x \in late : x.a \in Attempts
    BY ClientFields DEF Request
  <2>3. \A x \in Attempts : x # None
    BY Ids
  <2>4. \A r \in late' : r.kind = "create" => r \in late /\ r.a # c
    BY <1>4, <1>5, <1>6, <2>2, <2>3
  <2>5. \A x \in Attempts : Unborn(x)' => Unborn(x) /\ x # c
    BY <1>6, <2>1, <2>3
  <2> QED  BY <1>2, <1>9, <2>4, <2>5, CreatedStep
<1>13. SessionsExist'
  BY <1>2, <1>4, <1>7, <1>9, ExistStep
<1>14. GivenUp'
  <2>1. \A r \in late : r.a \in Attempts /\ r.p \in Parts
    BY ClientFields DEF Request
  <2>2. \A y \in Parts : work[a][y] = "todo"
    BY <1>1 DEF Untouched
  <2> QED  BY <1>4, <1>8, <2>1, <2>2 DEF GivenUp
<1>15. PartsKept'
  <2>1. \A x \in Attempts, y \in Parts : work'[x][y] \in {"checked", "ok"} =>
          work'[x][y] = work[x][y] /\ att'[x].s = att[x].s /\ x # None
    BY <1>7, <1>8, Ids
  <2> QED  BY <1>2, <2>1, KeptStep
<1>16. DoneIsWhole'
  BY <1>2, <1>4, WholeStep
<1>17. TokensMatch'
  BY <1>2, TokensStep
<1> QED  BY <1>9, <1>10, <1>11, <1>12, <1>13, <1>14, <1>15, <1>16, <1>17

LEMMA StepKeeps ==
  ASSUME TransferInv, NEW a \in Attempts, Step(a)
  PROVE  TransferInv'
BY ReadyKeeps, SessionFailsKeeps, CompleteKeeps, CompleteFailsKeeps DEF Step

\* The runners die, and their requests and those of the attempt are left behind.
LEMMA CancelKeeps ==
  ASSUME TransferInv, Cancel
  PROVE  TransferInv'
<1> USE DEF TransferInv
<1>1. row' = "gone" /\ faults' \in 0..MaxFaults
  BY FaultCounted DEF Cancel
<1>2. UNCHANGED <<link, rowSess, claimed, tries, manual, cur, server>>
  BY DEF Cancel
<1>3. CASE worker # "attempt"
  BY <1>1, <1>2, <1>3, RowKeeps DEF Cancel, TypeOK
<1>4. CASE worker = "attempt"
  <2>1. cur \in Attempts /\ Running(cur)
    BY <1>4 DEF OneAttempt
  <2> DEFINE target == IF att[cur].s = None THEN cur ELSE att[cur].s
             aborted == [p \in Parts |-> IF work[cur][p] \in Waiting THEN "dead" ELSE work[cur][p]]
  <2>2. /\ worker' = "idle" /\ att' = [att EXCEPT ![cur].at = "over"]
        /\ work' = [work EXCEPT ![cur] = aborted]
    BY <1>4 DEF Cancel
  <2>3. \A r \in late' :
          \/ r \in late
          \/ \E p \in Parts : work[cur][p] \in Waiting /\ r = LateOf(cur, p)
          \/ /\ r \in {[kind |-> k, a |-> cur, s |-> target, p |-> 0] :
                       k \in {"create", "complete", "abort"}}
             /\ r.kind = "create" => Unborn(cur) /\ att[cur].s = None
    BY <1>4 DEF Cancel, Unborn
  <2>4. target \in Attempts /\ (att[cur].s = None => target = cur)
    BY <2>1 DEF TypeOK
  <2> HIDE DEF target
  <2>5. ASSUME NEW p \in Parts, work[cur][p] \in Waiting
        PROVE  /\ LateOf(cur, p) \in Request /\ LateOf(cur, p).a = cur /\ LateOf(cur, p).p = p
               /\ LateOf(cur, p).kind # "create"
    <3>1. att[cur].s \in Attempts
      BY <2>1, <2>5, PartReady
    <3> QED  BY <2>1, <2>5, <3>1 DEF LateOf, Kind, Waiting, Request
  <2>6. ASSUME NEW r \in late'
        PROVE  /\ r \in Request
               /\ r \in late
                  \/ /\ r.kind = "create" => Unborn(cur) /\ r.a = cur /\ r.s = cur /\ r.p = 0
                     /\ r.kind = "sign" => r.a = cur /\ r.p \in Parts /\ work[cur][r.p] \in Waiting
    <3>1. CASE r \in late
      BY <3>1, ClientFields
    <3>2. CASE \E p \in Parts : work[cur][p] \in Waiting /\ r = LateOf(cur, p)
      BY <3>2, <2>5
    <3>3. CASE /\ r \in {[kind |-> k, a |-> cur, s |-> target, p |-> 0] :
                            k \in {"create", "complete", "abort"}}
               /\ r.kind = "create" => Unborn(cur) /\ att[cur].s = None
      <4>1. PICK k \in {"create", "complete", "abort"} :
              r = [kind |-> k, a |-> cur, s |-> target, p |-> 0]
        BY <3>3
      <4> QED  BY <2>1, <2>4, <3>3, <4>1, Ids DEF Request
    <3> QED  BY <2>3, <3>1, <3>2, <3>3
  <2>7. /\ att' \in [Attempts -> Attempt] /\ att'[cur].at = "over"
        /\ \A x \in Attempts : att'[x].s = att[x].s
        /\ \A x \in Attempts \ {cur} : att'[x].at = att[x].at
    <3>1. att \in [Attempts -> Attempt]
      BY ClientFields
    <3> QED  BY <2>1, <2>2, <3>1 DEF Attempt
  <2>8. /\ work' \in [Attempts -> [Parts -> PartState]]
        /\ \A x \in Attempts \ {cur} : work'[x] = work[x]
        /\ \A y \in Parts : work'[cur][y] = IF work[cur][y] \in Waiting THEN "dead" ELSE work[cur][y]
    <3>1. aborted \in [Parts -> PartState]
      BY <2>1, ClientFields DEF PartState
    <3> QED  BY <2>1, <2>2, <3>1, ClientFields
  <2> HIDE DEF aborted
  <2>9. TypeOK'
    <3>1. late' \subseteq Request
      BY <2>6
    <3> QED  BY <1>1, <1>2, <2>2, <2>7, <2>8, <3>1 DEF TypeOK, server, Attempt, PartState, Request
  <2>10. Numbered' /\ OneAttempt'
    <3>1. \A x \in Attempts : (att'[x].at = "none" <=> att[x].at = "none") /\ ~Running(x)'
      BY <2>1, <2>7 DEF OneAttempt, Running
    <3> QED  BY <1>1, <1>2, <2>2, <3>1 DEF Numbered, OneAttempt, Earlier
  <2>11. Untouched'
    BY <2>1, <2>7, <2>8 DEF Untouched, Waiting
  <2>12. Serves(None, None, 0)
    BY <1>2, ServesNothing
  <2>13. CreatedOnce'
    <3>1. \A x \in Attempts : Unborn(x)' => Unborn(x) /\ x # cur
      BY <2>7 DEF Unborn
    <3>2. \A r \in late' : r.a \in Attempts
      BY <2>6 DEF Request
    <3>3. \A r \in late' : r.kind = "create" =>
            \/ r \in late /\ r.a # None
            \/ Unborn(r.a) /\ ~Unborn(r.a)' /\ r.a # None /\ r.s = r.a /\ r.p = 0
      BY <2>1, <2>6, <3>1, <3>2, Ids
    <3> QED  BY <2>9, <2>12, <3>1, <3>3, CreatedStep, Ids
  <2>14. SessionsExist'
    BY <1>2, <2>7, <2>9, <2>12, ExistStep
  <2>15. GivenUp'
    <3>1. \A r \in late : r.a \in Attempts /\ r.p \in Parts
      BY ClientFields DEF Request
    <3>2. \A x \in Attempts, y \in Parts : work[x][y] = "dead" => work'[x][y] = "dead"
      BY <2>8 DEF Waiting
    <3> QED  BY <2>6, <2>8, <3>1, <3>2 DEF GivenUp
  <2>16. PartsKept'
    <3>1. \A x \in Attempts, y \in Parts : work'[x][y] \in {"checked", "ok"} =>
            work'[x][y] = work[x][y] /\ att'[x].s = att[x].s /\ x # None
      BY <2>7, <2>8, Ids
    <3> QED  BY <2>12, <3>1, KeptStep
  <2>17. DoneIsWhole'
    BY <1>1, <2>12, WholeStep
  <2>18. TokensMatch'
    BY <2>12, TokensStep
  <2> QED  BY <2>9, <2>10, <2>11, <2>13, <2>14, <2>15, <2>16, <2>17, <2>18
<1> QED  BY <1>3, <1>4

-----------------------------------------------------------------------------
(* The theorems                                                            *)

LEMMA InitTransfer == Init => TransferInv
<1> SUFFICES ASSUME Init PROVE TransferInv
  OBVIOUS
<1> USE DEF Init
<1>1. TypeOK
  BY TransferAssumption DEF TypeOK, Waiting
<1>2. Numbered
  <2>1. Earlier = 0
    BY TransferAssumption DEF Earlier, Round
  <2> QED  BY <2>1, Ids DEF Numbered, Attempts, None
<1>3. OneAttempt /\ Untouched /\ CreatedOnce /\ SessionsExist /\ TokensMatch
  BY DEF OneAttempt, Running, Untouched, CreatedOnce, SessionsExist, TokensMatch, Unborn
<1>4. GivenUp /\ PartsKept /\ DoneIsWhole
  BY DEF GivenUp, PartsKept, DoneIsWhole
<1> QED  BY <1>1, <1>2, <1>3, <1>4 DEF TransferInv

LEMMA NextTransfer == TransferInv /\ [Next]_vars => TransferInv'
<1> SUFFICES ASSUME TransferInv, [Next]_vars PROVE TransferInv'
  OBVIOUS
<1>1. CASE Browser
  BY <1>1, ClaimKeeps, RetryKeeps, StepKeeps, PartStepKeeps DEF Browser
<1>2. CASE Cancel \/ RetryRow \/ RemoveRow \/ LateArrives
  BY <1>2, CancelKeeps, RetryRowKeeps, RemoveRowKeeps, LateKeeps
<1>3. CASE \E s \in Attempts : Expire(s)
  BY <1>3, ExpireKeeps
<1>4. CASE UNCHANGED vars
  <2>1. Serves(None, None, 0)
    BY <1>4, ServesNothing DEF TransferInv, vars
  <2>2. \A r \in late : r.a \in Attempts
    BY ClientFields DEF Request, TransferInv
  <2> QED  BY <1>4, <2>1, <2>2, ServerKeeps, Ids DEF vars, TransferInv, TypeOK
<1> QED  BY <1>1, <1>2, <1>3, <1>4 DEF Next

LEMMA TransferInvariant == Spec => []TransferInv
<1>1. Init => TransferInv
  BY InitTransfer
<1>2. TransferInv /\ [Next]_vars => TransferInv'
  BY NextTransfer
<1> QED  BY <1>1, <1>2, PTL DEF Spec

LEMMA InvReported == TransferInv => ReportedIsRecorded
<1> SUFFICES ASSUME TransferInv, NEW a \in Attempts, NEW p \in Parts,
                    work[a][p] = "ok", srv[att[a].s].st = "active"
             PROVE  /\ <<att[a].s, p>> \in staged
                    /\ \/ srv[att[a].s].part[p] = "recorded"
                       \/ /\ srv[att[a].s].part[p] = "placeholder"
                          /\ srv[att[a].s].tok[p] \notin {None, a}
  BY DEF ReportedIsRecorded
<1>1. att[a].s \in Attempts
  BY Ready DEF TransferInv
<1>2. srv[att[a].s].part[p] \in {"none", "placeholder", "recorded"}
  BY <1>1, Fields DEF TransferInv, Session
<1>3. KeptPart(a, p)
  BY DEF TransferInv, PartsKept
<1> QED  BY <1>1, <1>2, <1>3 DEF KeptPart, TransferInv, TokensMatch

\* The attempts never outgrow their numbers: every claim and every retry of the
\* upload finds one left, and sessions, tokens and late requests stay within them.
THEOREM TransferTypeOK == Spec => []TypeOK
<1>1. TransferInv => TypeOK
  BY DEF TransferInv
<1> QED  BY <1>1, TransferInvariant, PTL

\* A part that uploadPartDirect or uploadPartViaApi has reported is staged and
\* recorded as long as its session is active, or a late sign request has left a
\* placeholder with the token of another attempt.
THEOREM ReportedPartsAreRecorded == Spec => []ReportedIsRecorded
BY InvReported, TransferInvariant, PTL

\* A row shown as done has a file, and complete_session registers no file that
\* was not assembled from every part.
THEOREM DoneFilesAreWhole == Spec => []DoneIsWhole
<1>1. TransferInv => DoneIsWhole
  BY DEF TransferInv
<1> QED  BY <1>1, TransferInvariant, PTL
=============================================================================
