---------------------------- MODULE SeqLoopsProofs ----------------------------
(* Sequences, and what filter and the loops over them leave.  A loop is a    *)
(* recursive function; that there is one and what its values are is shown    *)
(* once, for a body that is a function, and each loop of a model is an       *)
(* instance.                                                                 *)
EXTENDS SeqLoops, WellFoundedInduction, TLAPS

\* s is a sequence of something.
IsSeq(s) == s \in Seq({s[i] : i \in DOMAIN s})

LEMMA SeqIsSeq ==
    ASSUME NEW S, NEW s \in Seq(S)
    PROVE  IsSeq(s) /\ Len(s) \in Nat /\ DOMAIN s = 1..Len(s)
<1>1. Len(s) \in Nat /\ DOMAIN s = 1..Len(s) OBVIOUS
<1>2. s \in [1..Len(s) -> {s[i] : i \in DOMAIN s}]
  BY <1>1
<1>. QED BY <1>1, <1>2 DEF IsSeq

LEMMA IsSeqDom ==
    ASSUME NEW s, IsSeq(s)
    PROVE  Len(s) \in Nat /\ DOMAIN s = 1..Len(s)
BY DEF IsSeq

LEMMA AppendIsSeq ==
    ASSUME NEW s, IsSeq(s), NEW e
    PROVE  /\ IsSeq(Append(s, e)) /\ Len(Append(s, e)) = Len(s) + 1
           /\ DOMAIN Append(s, e) = 1..(Len(s) + 1)
           /\ \A i \in 1..Len(s) : Append(s, e)[i] = s[i]
           /\ Append(s, e)[Len(s) + 1] = e
<1>. DEFINE R == {s[i] : i \in DOMAIN s}
            T == R \cup {e}
<1>1. s \in Seq(R) BY DEF IsSeq
<1>2. s \in Seq(T)
  <2>1. Len(s) \in Nat /\ DOMAIN s = 1..Len(s) BY <1>1
  <2>2. s \in [1..Len(s) -> T] BY <1>1, <2>1
  <2>. QED BY <2>1, <2>2
<1>3. e \in T OBVIOUS
<1>4. Append(s, e) \in Seq(T) BY <1>2, <1>3
<1>5. IsSeq(Append(s, e)) /\ DOMAIN Append(s, e) = 1..Len(Append(s, e)) BY <1>4, SeqIsSeq
<1>6. /\ Len(Append(s, e)) = Len(s) + 1
      /\ \A i \in 1..Len(s) : Append(s, e)[i] = s[i]
      /\ Append(s, e)[Len(s) + 1] = e
  BY <1>2, <1>3
<1>. QED BY <1>5, <1>6

LEMMA TailIsSeq ==
    ASSUME NEW s, IsSeq(s), s # <<>>
    PROVE  /\ IsSeq(Tail(s)) /\ Len(s) \in Nat \ {0} /\ Head(s) = s[1]
           /\ DOMAIN Tail(s) = 1..(Len(s) - 1)
           /\ \A i \in 1..(Len(s) - 1) : Tail(s)[i] = s[i + 1]
<1>. DEFINE R == {s[i] : i \in DOMAIN s}
<1>1. s \in Seq(R) BY DEF IsSeq
<1>2. Len(s) \in Nat \ {0} BY <1>1
<1>3. Tail(s) \in Seq(R) BY <1>1
<1>4. IsSeq(Tail(s)) /\ DOMAIN Tail(s) = 1..Len(Tail(s)) BY <1>3, SeqIsSeq
<1>5. Len(Tail(s)) = Len(s) - 1 /\ \A i \in 1..(Len(s) - 1) : Tail(s)[i] = s[i + 1]
  BY <1>1
<1>6. Head(s) = s[1] BY <1>1
<1>. QED BY <1>2, <1>4, <1>5, <1>6

\* A function on 1..n is a sequence.
LEMMA FunIsSeq ==
    ASSUME NEW n \in Nat, NEW f, f = [i \in 1..n |-> f[i]]
    PROVE  IsSeq(f) /\ Len(f) = n /\ DOMAIN f = 1..n
<1>. DEFINE R == {f[i] : i \in 1..n}
<1>1. f \in [1..n -> R] OBVIOUS
<1>2. f \in Seq(R) BY <1>1
<1>3. DOMAIN f = 1..n BY <1>1
<1>. QED BY <1>2, <1>3, SeqIsSeq

LEMMA PairIsSeq ==
    ASSUME NEW a, NEW b
    PROVE  /\ IsSeq(<<a>>) /\ DOMAIN <<a>> = {1} /\ <<a>>[1] = a
           /\ IsSeq(<<a, b>>) /\ DOMAIN <<a, b>> = {1, 2}
           /\ <<a, b>>[1] = a /\ <<a, b>>[2] = b
           /\ IsSeq(<<>>) /\ DOMAIN <<>> = {}
<1>1. <<a>> \in Seq({a, b}) /\ <<a, b>> \in Seq({a, b}) /\ <<>> \in Seq({a, b}) OBVIOUS
<1>2. IsSeq(<<a>>) /\ IsSeq(<<a, b>>) /\ IsSeq(<<>>) BY <1>1, SeqIsSeq
<1>. QED BY <1>2

\* Induction on the numbers of a set.
LEMMA SetInduction ==
    ASSUME NEW A \in SUBSET Nat, 0 \in A, \A n \in A : n + 1 \in A
    PROVE  A = Nat
<1>. DEFINE R == OpToRel(<, Nat)
            B == Nat \ A
<1>1. IsWellFoundedOn(R, Nat) BY NatLessThanWellFounded
<1>2. \A x, y \in Nat : <<x, y>> \in R <=> x < y BY DEF OpToRel
<1>. HIDE DEF R
<1>. SUFFICES ASSUME B # {} PROVE FALSE OBVIOUS
<1>3. PICK x \in B : \A y \in B : ~(<<y, x>> \in R) BY <1>1, WFMin
<1>4. x \in Nat /\ x # 0 /\ x - 1 \in Nat /\ x - 1 < x BY <1>3
<1>5. x - 1 \in A BY <1>2, <1>3, <1>4
<1>6. (x - 1) + 1 = x BY <1>4
<1>. QED BY <1>3, <1>5, <1>6

\* Induction up to m.
LEMMA UpTo ==
    ASSUME NEW m \in Nat, NEW A, 0 \in A, \A n \in 1..m : n - 1 \in A => n \in A
    PROVE  \A n \in 0..m : n \in A
<1>. DEFINE B == {n \in Nat : n <= m => n \in A}
<1>1. 0 \in B OBVIOUS
<1>2. ASSUME NEW n \in B PROVE n + 1 \in B
  <2>. SUFFICES ASSUME n + 1 \in 1..m PROVE n + 1 \in A OBVIOUS
  <2>1. (n + 1) - 1 = n /\ n <= m OBVIOUS
  <2>. QED BY <2>1
<1>3. B \in SUBSET Nat OBVIOUS
<1>4. B = Nat
  <2>. HIDE DEF B
  <2>. QED BY <1>1, <1>2, <1>3, SetInduction
<1>. QED BY <1>4

\* The body of a loop with m runs, as a function of the value and the number of
\* the run, leads from S to S.
Closed(S, m, F) == \A x \in S, n \in 1..m : F[<<x, n>>] \in S

\* The values g of such a loop that starts with e.
RunOf(g, S, e, m, F) ==
    /\ g \in [0..m -> S]
    /\ \A n \in 0..m : g[n] = IF n = 0 THEN e ELSE F[<<g[n - 1], n>>]

\* Every run of a loop from a member of S has its value in S, if the body F
\* leads from S to S.
LEMMA LoopTyped ==
    ASSUME NEW S, NEW e \in S, NEW m \in Nat, NEW F, Closed(S, m, F),
           NEW g, g[0] = e,
           \A n \in 1..m : g[n - 1] \in S => g[n] = F[<<g[n - 1], n>>]
    PROVE  \A n \in 0..m : g[n] \in S
<1>. DEFINE A == {n \in 0..m : g[n] \in S}
<1>1. 0 \in A OBVIOUS
<1>2. ASSUME NEW n \in 1..m, n - 1 \in A PROVE n \in A
  <2>1. g[n - 1] \in S BY <1>2
  <2>2. g[n] = F[<<g[n - 1], n>>] BY <2>1
  <2>. QED BY <2>1, <2>2 DEF Closed
<1>3. \A n \in 0..m : n \in A
  <2>. HIDE DEF A
  <2>. QED BY <1>1, <1>2, UpTo
<1>. QED BY <1>3

\* The recursive function of a loop exists.
LEMMA LoopExists ==
    ASSUME NEW S, NEW e \in S, NEW m \in Nat, NEW F, Closed(S, m, F)
    PROVE  \E g : RunOf(g, S, e, m, F)
<1>. DEFINE Of(g, k) == \A n \in 0..k : g[n] = IF n = 0 THEN e ELSE F[<<g[n - 1], n>>]
            A == {k \in 0..m : \E g \in [0..k -> S] : Of(g, k)}
<1>1. 0 \in A
  <2>. DEFINE g == [n \in 0..0 |-> e]
  <2>1. g \in [0..0 -> S] /\ Of(g, 0) OBVIOUS
  <2>2. 0 \in 0..m OBVIOUS
  <2>. HIDE DEF g, Of
  <2>. QED BY <2>1, <2>2
<1>2. ASSUME NEW k \in 1..m, k - 1 \in A PROVE k \in A
  <2>1. PICK g \in [0..(k - 1) -> S] : Of(g, k - 1) BY <1>2
  <2>2. k - 1 \in 0..(k - 1) /\ g[k - 1] \in S BY <2>1
  <2>. DEFINE f == F[<<g[k - 1], k>>]
              h == [n \in 0..k |-> IF n = k THEN f ELSE g[n]]
  <2>3. f \in S BY <2>2 DEF Closed
  <2>. HIDE DEF f
  <2>4. \A n \in 0..k : n # k => n \in 0..(k - 1) OBVIOUS
  <2>5. h \in [0..k -> S] BY <2>3, <2>4
  <2>6. h[k] = f /\ \A n \in 0..(k - 1) : h[n] = g[n] OBVIOUS
  <2>. HIDE DEF h
  <2>7. ASSUME NEW n \in 0..k PROVE h[n] = IF n = 0 THEN e ELSE F[<<h[n - 1], n>>]
    <3>1. CASE n = k
      <4>1. h[n] = f /\ h[n - 1] = g[k - 1] /\ n # 0 BY <2>2, <2>6, <3>1
      <4>. QED BY <3>1, <4>1 DEF f
    <3>2. CASE n # k
      <4>1. n \in 0..(k - 1) /\ h[n] = g[n] BY <2>4, <2>6, <3>2
      <4>2. n # 0 => n - 1 \in 0..(k - 1) /\ h[n - 1] = g[n - 1] BY <2>6, <4>1
      <4>3. g[n] = IF n = 0 THEN e ELSE F[<<g[n - 1], n>>] BY <2>1, <4>1
      <4>. QED BY <4>1, <4>2, <4>3
    <3>. QED BY <3>1, <3>2
  <2>8. k \in 0..m OBVIOUS
  <2>. QED BY <2>5, <2>7, <2>8
<1>3. \A n \in 0..m : n \in A
  <2>. HIDE DEF A
  <2>. QED BY <1>1, <1>2, UpTo
<1>4. m \in 0..m OBVIOUS
<1>5. m \in A BY <1>3, <1>4
<1>. QED BY <1>5 DEF RunOf

\* What filter has left after each entry of the sequence.
KeptSteps(k, s, T) ==
    /\ k[0] = <<>> /\ \A n \in 0..Len(s) : k[n] \in Seq({s[i] : i \in DOMAIN s \cap T})
    /\ \A n \in 1..Len(s) : k[n] = IF n \in T THEN Append(k[n - 1], s[n]) ELSE k[n - 1]

LEMMA KeptRun ==
    ASSUME NEW s, IsSeq(s), NEW T
    PROVE  \E k : KeptSteps(k, s, T) /\ Kept(s, T) = k[Len(s)]
<1>. DEFINE K == {s[n] : n \in DOMAIN s \cap T}
            S == Seq(K)
            F == [p \in S \X DOMAIN s |->
                    IF p[2] \in T THEN Append(p[1], s[p[2]]) ELSE p[1]]
            Of(g) == g = [n \in 0..Len(s) |->
                            IF n = 0 THEN <<>>
                            ELSE IF n \in T THEN Append(g[n - 1], s[n]) ELSE g[n - 1]]
            k == CHOOSE g : Of(g)
<1>0. Len(s) \in Nat /\ DOMAIN s = 1..Len(s) BY IsSeqDom
<1>1. \A x \in S, n \in DOMAIN s :
        F[<<x, n>>] = IF n \in T THEN Append(x, s[n]) ELSE x
  OBVIOUS
<1>2. Closed(S, Len(s), F)
  <2>. SUFFICES ASSUME NEW x \in S, NEW n \in DOMAIN s PROVE F[<<x, n>>] \in S
    BY <1>0 DEF Closed
  <2>1. n \in T => s[n] \in K OBVIOUS
  <2>2. n \in T => Append(x, s[n]) \in S
    <3>. HIDE DEF K, F
    <3>. QED BY <2>1
  <2>. HIDE DEF S, F
  <2>. QED BY <1>1, <2>2
<1>3. <<>> \in S OBVIOUS
<1>. HIDE DEF S, F
<1>4. Of(k)
  <2>1. PICK g : RunOf(g, S, <<>>, Len(s), F)
    BY <1>0, <1>2, <1>3, LoopExists
  <2>2. ASSUME NEW n \in 0..Len(s)
        PROVE  g[n] = IF n = 0 THEN <<>>
                      ELSE IF n \in T THEN Append(g[n - 1], s[n]) ELSE g[n - 1]
    <3>1. n # 0 => n \in DOMAIN s /\ g[n - 1] \in S BY <1>0, <2>1 DEF RunOf
    <3>. QED BY <1>1, <2>1, <3>1 DEF RunOf
  <2>3. g = [n \in 0..Len(s) |-> g[n]] BY <2>1 DEF RunOf
  <2>4. Of(g) BY <2>2, <2>3
  <2>. QED BY <2>4
<1>5. Kept(s, T) = k[Len(s)] BY DEF Kept
<1>. HIDE DEF k
<1>6. \A n \in 0..Len(s) : k[n] = IF n = 0 THEN <<>>
                        ELSE IF n \in T THEN Append(k[n - 1], s[n]) ELSE k[n - 1]
  BY <1>4
<1>7. k[0] = <<>> /\ \A n \in 1..Len(s) : k[n - 1] \in S => k[n] = F[<<k[n - 1], n>>]
  BY <1>0, <1>1, <1>6
<1>8. \A n \in 0..Len(s) : k[n] \in S
  BY <1>0, <1>2, <1>3, <1>7, LoopTyped
<1>9. \A n \in 1..Len(s) : k[n] = IF n \in T THEN Append(k[n - 1], s[n]) ELSE k[n - 1]
  BY <1>0, <1>6
<1>. QED BY <1>5, <1>7, <1>8, <1>9 DEF KeptSteps, S

\* filter leaves entries of the sequence.
LEMMA KeptOf ==
    ASSUME NEW s, IsSeq(s), NEW T
    PROVE  /\ IsSeq(Kept(s, T))
           /\ \A k \in DOMAIN Kept(s, T) :
                \E n \in DOMAIN s : n \in T /\ Kept(s, T)[k] = s[n]
<1>. DEFINE K == {s[i] : i \in DOMAIN s \cap T}
            q == Kept(s, T)
<1>1. PICK k : KeptSteps(k, s, T) /\ q = k[Len(s)] BY KeptRun
<1>2. Len(s) \in 0..Len(s) BY IsSeqDom
<1>3. q \in Seq(K) BY <1>1, <1>2 DEF KeptSteps
<1>. HIDE DEF K, q
<1>4. IsSeq(q) /\ DOMAIN q = 1..Len(q) BY <1>3, SeqIsSeq
<1>5. \A i \in DOMAIN q : q[i] \in K BY <1>3, <1>4
<1>. QED BY <1>4, <1>5 DEF K, q

\* The same for the entries of a set.
LEMMA OnlyOf ==
    ASSUME NEW I, NEW s \in Seq(I), NEW S
    PROVE  /\ Only(s, S) \in Seq(I)
           /\ \A k \in DOMAIN Only(s, S) :
                Only(s, S)[k] \in S /\ \E n \in DOMAIN s : Only(s, S)[k] = s[n]
<1>. DEFINE q == Only(s, S)
<1>1. IsSeq(s) BY SeqIsSeq
<1>2. IsSeq(q) /\ \A k \in DOMAIN q : \E n \in DOMAIN s : s[n] \in S /\ q[k] = s[n]
  <2>. DEFINE T == {n \in DOMAIN s : s[n] \in S}
  <2>1. q = Kept(s, T) BY DEF Only
  <2>2. \A n \in T : s[n] \in S OBVIOUS
  <2>. HIDE DEF T, q
  <2>. QED BY <1>1, <2>1, <2>2, KeptOf
<1>3. Len(q) \in Nat /\ DOMAIN q = 1..Len(q) BY <1>2, IsSeqDom
<1>4. q \in [1..Len(q) -> {q[k] : k \in DOMAIN q}] BY <1>2, <1>3 DEF IsSeq
<1>. HIDE DEF q
<1>5. \A k \in DOMAIN q : q[k] \in I BY <1>2
<1>6. q \in [1..Len(q) -> I] BY <1>3, <1>4, <1>5
<1>7. q \in Seq(I) BY <1>3, <1>6
<1>. QED BY <1>2, <1>7 DEF q
=============================================================================
