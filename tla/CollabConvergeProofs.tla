------------------------ MODULE CollabConvergeProofs ------------------------
(***************************************************************************)
(* An editor that has not gone astray converges, for any tabs, users,      *)
(* seed, ring length, number of retries and scenario.  The invariant goes  *)
(* on where CollabRoomProofs stops: it says which text the log makes,      *)
(* whose ids are whose, and what the text of an editor that has not gone   *)
(* astray is: the log's text at latestSeq, with its one unconfirmed change *)
(* applied.                                                                *)
(***************************************************************************)
EXTENDS CollabRoomProofs

-----------------------------------------------------------------------------
(* What a replace that lies within a text does to it *)

Inside(t, e) == e.index + e.del <= Len(t)

LEMMA TextFields ==
    ASSUME NEW t \in Text
    PROVE  Len(t) \in Nat /\ DOMAIN t = 1..Len(t) /\ \A i \in 1..Len(t) : t[i] \in Nat
BY DEF Text

LEMMA SameText ==
    ASSUME NEW s \in Text, NEW t \in Text, Len(s) = Len(t), \A i \in 1..Len(s) : s[i] = t[i]
    PROVE  s = t
<1>1. s = [i \in 1..Len(s) |-> s[i]] BY DEF Text
<1>2. t = [i \in 1..Len(s) |-> t[i]] BY DEF Text
<1>3. [i \in 1..Len(s) |-> s[i]] = [i \in 1..Len(s) |-> t[i]] OBVIOUS
<1>. QED BY <1>1, <1>2, <1>3

\* The character at a place of the new text.
CharAfter(t, e, i) ==
    IF i <= e.index THEN t[i]
    ELSE IF i <= e.index + Len(e.ins) THEN e.ins[i - e.index]
    ELSE t[i - Len(e.ins) + e.del]

LEMMA TwoParts ==
    ASSUME NEW a \in Text, NEW b \in Text
    PROVE  /\ a \o b \in Text /\ Len(a \o b) = Len(a) + Len(b)
           /\ \A i \in 1..(Len(a) + Len(b)) :
                (a \o b)[i] = IF i <= Len(a) THEN a[i] ELSE b[i - Len(a)]
<1>0. Len(a) \in Nat /\ Len(b) \in Nat BY TextFields
<1>1. a \o b \in Text /\ Len(a \o b) = Len(a) + Len(b) BY DEF Text
<1>2. IsSeq(a) /\ IsSeq(b) BY SeqIsSeq DEF Text
<1>3. /\ \A i \in 1..Len(a) : (a \o b)[i] = a[i]
      /\ \A i \in (Len(a) + 1)..(Len(a) + Len(b)) : (a \o b)[i] = b[i - Len(a)]
  BY <1>2, ConcatIsSeq
<1>4. \A i \in 1..(Len(a) + Len(b)) :
         IF i <= Len(a) THEN i \in 1..Len(a) ELSE i \in (Len(a) + 1)..(Len(a) + Len(b))
  BY <1>0
<1>. QED BY <1>1, <1>3, <1>4

LEMMA ThreeParts ==
    ASSUME NEW a \in Text, NEW b \in Text, NEW c \in Text
    PROVE  /\ a \o b \o c \in Text /\ Len(a \o b \o c) = Len(a) + Len(b) + Len(c)
           /\ \A i \in 1..(Len(a) + Len(b) + Len(c)) : (a \o b \o c)[i] =
                IF i <= Len(a) THEN a[i]
                ELSE IF i <= Len(a) + Len(b) THEN b[i - Len(a)]
                ELSE c[i - Len(a) - Len(b)]
<1>0. Len(a) \in Nat /\ Len(b) \in Nat /\ Len(c) \in Nat BY TextFields
<1>. DEFINE d == a \o b
<1>1. d \in Text /\ Len(d) = Len(a) + Len(b) BY TwoParts
<1>2. \A i \in 1..(Len(a) + Len(b)) : d[i] = IF i <= Len(a) THEN a[i] ELSE b[i - Len(a)]
  BY TwoParts
<1>. HIDE DEF d
<1>3. /\ d \o c \in Text /\ Len(d \o c) = Len(d) + Len(c)
      /\ \A i \in 1..(Len(d) + Len(c)) :
           (d \o c)[i] = IF i <= Len(d) THEN d[i] ELSE c[i - Len(d)]
  BY <1>1, TwoParts
<1>5. ASSUME NEW i \in 1..(Len(a) + Len(b) + Len(c))
      PROVE  (d \o c)[i] = IF i <= Len(a) THEN a[i]
                           ELSE IF i <= Len(a) + Len(b) THEN b[i - Len(a)]
                           ELSE c[i - Len(a) - Len(b)]
  <2>1. (d \o c)[i] = IF i <= Len(d) THEN d[i] ELSE c[i - Len(d)] BY <1>0, <1>1, <1>3
  <2>2. i <= Len(d) => i \in 1..(Len(a) + Len(b)) BY <1>0, <1>1
  <2>3. i - Len(d) = i - Len(a) - Len(b) BY <1>0, <1>1
  <2>. QED BY <1>0, <1>1, <1>2, <2>1, <2>2, <2>3
<1>. QED BY <1>0, <1>1, <1>3, <1>5 DEF d

LEMMA PlaceBehind ==
    ASSUME NEW n \in Nat, NEW x \in Nat, NEW d \in Nat, NEW k \in Nat, x + d <= n,
           NEW i \in 1..(n - d + k), i > x + k
    PROVE  /\ i - x - k \in 1..(n - (x + d))
           /\ (i - x - k) + (x + d) = i - k + d
OBVIOUS

LEMMA ApplyAt ==
    ASSUME NEW t \in Text, NEW e \in Edits, Inside(t, e)
    PROVE  /\ ApplyReplace(t, e) \in Text
           /\ Len(ApplyReplace(t, e)) = Len(t) - e.del + Len(e.ins)
           /\ \A i \in 1..(Len(t) - e.del + Len(e.ins)) :
                ApplyReplace(t, e)[i] = CharAfter(t, e, i)
<1>0. /\ e.index \in Nat /\ e.del \in Nat /\ e.ins \in Text /\ Len(e.ins) \in Nat
      /\ Len(t) \in Nat /\ e.index + e.del <= Len(t)
  BY EditFields, TextFields DEF Inside
<1>. DEFINE a == SubSeq(t, 1, e.index)
            z == SubSeq(t, e.index + e.del + 1, Len(t))
<1>1. ApplyReplace(t, e) = a \o e.ins \o z
  <2>1. Smaller(e.index, Len(t)) = e.index BY <1>0 DEF Smaller
  <2>2. Smaller(e.index + e.del, Len(t)) = e.index + e.del BY <1>0 DEF Smaller
  <2>. QED BY <2>1, <2>2 DEF ApplyReplace
<1>2. a \in Text /\ Len(a) = e.index /\ \A i \in 1..e.index : a[i] = t[i]
  <2>1. /\ a \in Text /\ Len(a) = e.index - 1 + 1
        /\ \A i \in 1..(e.index - 1 + 1) : a[i] = t[i + 1 - 1]
    <3>1. 1 \in Nat \ {0} /\ 1 <= e.index + 1 /\ e.index <= Len(t) BY <1>0
    <3>. QED BY <1>0, <3>1, SubText
  <2>2. e.index - 1 + 1 = e.index /\ \A i \in 1..e.index : i + 1 - 1 = i BY <1>0
  <2>. QED BY <2>1, <2>2
<1>. DEFINE m == e.index + e.del
<1>3. /\ z \in Text /\ Len(z) = Len(t) - m
      /\ \A i \in 1..(Len(t) - m) : z[i] = t[i + m]
  <2>1. m \in Nat /\ m <= Len(t) BY <1>0
  <2>2. /\ z \in Text /\ Len(z) = Len(t) - (m + 1) + 1
        /\ \A i \in 1..(Len(t) - (m + 1) + 1) : z[i] = t[i + (m + 1) - 1]
    <3>1. m + 1 \in Nat \ {0} /\ m + 1 <= Len(t) + 1 BY <1>0, <2>1
    <3>2. Len(t) \in Nat /\ Len(t) <= Len(t) BY <1>0
    <3>. HIDE DEF m
    <3>3. z = SubSeq(t, m + 1, Len(t)) BY DEF z, m
    <3>. HIDE DEF z
    <3>. QED BY <3>1, <3>2, <3>3, SubText
  <2>3. Len(t) - (m + 1) + 1 = Len(t) - m BY <1>0
  <2>4. \A i \in 1..(Len(t) - m) : i + (m + 1) - 1 = i + m BY <1>0, <2>1
  <2>. HIDE DEF z, m
  <2>. QED BY <2>2, <2>3, <2>4
<1>. HIDE DEF a, z
<1>4. /\ a \o e.ins \o z \in Text /\ Len(a \o e.ins \o z) = Len(a) + Len(e.ins) + Len(z)
      /\ \A i \in 1..(Len(a) + Len(e.ins) + Len(z)) : (a \o e.ins \o z)[i] =
           IF i <= Len(a) THEN a[i]
           ELSE IF i <= Len(a) + Len(e.ins) THEN e.ins[i - Len(a)]
           ELSE z[i - Len(a) - Len(e.ins)]
  BY <1>0, <1>2, <1>3, ThreeParts
<1>5. Len(a) + Len(e.ins) + Len(z) = Len(t) - e.del + Len(e.ins) BY <1>0, <1>2, <1>3
<1>6. ASSUME NEW i \in 1..(Len(t) - e.del + Len(e.ins))
      PROVE  (a \o e.ins \o z)[i] = CharAfter(t, e, i)
  <2>1. (a \o e.ins \o z)[i] = IF i <= e.index THEN a[i]
                               ELSE IF i <= e.index + Len(e.ins) THEN e.ins[i - e.index]
                               ELSE z[i - e.index - Len(e.ins)]
    BY <1>2, <1>4, <1>5
  <2>2. i <= e.index => i \in 1..e.index BY <1>0
  <2>3. ASSUME i > e.index + Len(e.ins)
        PROVE  /\ i - e.index - Len(e.ins) \in 1..(Len(t) - m)
               /\ (i - e.index - Len(e.ins)) + m = i - Len(e.ins) + e.del
    <3>. DEFINE x == e.index
                d == e.del
                k == Len(e.ins)
                n == Len(t)
    <3>1. x \in Nat /\ d \in Nat /\ k \in Nat /\ n \in Nat /\ x + d <= n BY <1>0
    <3>2. i \in 1..(n - d + k) /\ i > x + k BY <2>3
    <3>. HIDE DEF x, d, k, n
    <3>3. /\ i - x - k \in 1..(n - (x + d))
          /\ (i - x - k) + (x + d) = i - k + d
      BY <3>1, <3>2, PlaceBehind
    <3>. QED BY <3>3 DEF x, d, k, n
  <2>4. i > e.index + Len(e.ins) => z[i - e.index - Len(e.ins)] = t[i - Len(e.ins) + e.del]
    BY <1>3, <2>3
  <2>5. CASE i <= e.index BY <1>2, <2>1, <2>2, <2>5 DEF CharAfter
  <2>6. CASE ~(i <= e.index) /\ i <= e.index + Len(e.ins) BY <2>1, <2>6 DEF CharAfter
  <2>7. CASE ~(i <= e.index) /\ ~(i <= e.index + Len(e.ins))
    <3>1. i > e.index + Len(e.ins) BY <1>0, <2>7
    <3>. QED BY <2>1, <2>4, <2>7, <3>1 DEF CharAfter
  <2>. QED BY <2>5, <2>6, <2>7
<1>. QED BY <1>1, <1>4, <1>5, <1>6

\* Two replaces in the order b, a moved behind b, and in the order a, b.
LEMMA SamePlaces ==
    ASSUME NEW n \in Nat, NEW ai \in Nat, NEW ad \in Nat, NEW al \in Nat,
           NEW bi \in Nat, NEW bd \in Nat, NEW bl \in Nat,
           bi + bd <= ai, ai + ad <= n,
           NEW t, NEW u, NEW v, NEW w, NEW x, NEW p, NEW q,
           \A i \in 1..(n - bd + bl) :
              u[i] = IF i <= bi THEN t[i] ELSE IF i <= bi + bl THEN q[i - bi]
                     ELSE t[i - bl + bd],
           \A i \in 1..(n - bd + bl - ad + al) :
              v[i] = IF i <= ai - bd + bl THEN u[i]
                     ELSE IF i <= ai - bd + bl + al THEN p[i - (ai - bd + bl)]
                     ELSE u[i - al + ad],
           \A i \in 1..(n - ad + al) :
              w[i] = IF i <= ai THEN t[i] ELSE IF i <= ai + al THEN p[i - ai]
                     ELSE t[i - al + ad],
           \A i \in 1..(n - ad + al - bd + bl) :
              x[i] = IF i <= bi THEN w[i] ELSE IF i <= bi + bl THEN q[i - bi]
                     ELSE w[i - bl + bd],
           NEW i \in 1..(n - bd + bl - ad + al)
    PROVE  v[i] = x[i]
<1>0. i \in 1..(n - ad + al - bd + bl) /\ i \in Nat OBVIOUS
<1>1. CASE i <= bi + bl
  <2>1. i <= ai - bd + bl /\ i \in 1..(n - bd + bl) BY <1>1
  <2>2. v[i] = u[i] BY <2>1
  <2>3. CASE i <= bi
    <3>1. i <= ai /\ i \in 1..(n - ad + al) BY <2>3
    <3>2. u[i] = t[i] BY <2>1, <2>3
    <3>3. x[i] = w[i] BY <1>0, <2>3
    <3>4. w[i] = t[i] BY <3>1
    <3>. QED BY <2>2, <3>2, <3>3, <3>4
  <2>4. CASE ~(i <= bi)
    <3>1. u[i] = q[i - bi] BY <1>1, <2>1, <2>4
    <3>2. x[i] = q[i - bi] BY <1>0, <1>1, <2>4
    <3>. QED BY <2>2, <3>1, <3>2
  <2>. QED BY <2>3, <2>4
<1>2. CASE ~(i <= bi + bl)
  <2>. DEFINE k == i - bl + bd
  <2>1. k \in 1..(n - ad + al) /\ ~(i <= bi) BY <1>0, <1>2
  <2>2. x[i] = w[k] BY <1>0, <1>2, <2>1
  <2>3. CASE i <= ai - bd + bl
    <3>1. i \in 1..(n - bd + bl) /\ k <= ai BY <2>3
    <3>2. v[i] = u[i] BY <2>3
    <3>3. u[i] = t[k] BY <1>2, <2>1, <3>1
    <3>4. w[k] = t[k] BY <2>1, <3>1
    <3>. QED BY <2>2, <3>2, <3>3, <3>4
  <2>4. CASE ~(i <= ai - bd + bl) /\ i <= ai - bd + bl + al
    <3>1. v[i] = p[i - (ai - bd + bl)] BY <2>4
    <3>2. ~(k <= ai) /\ k <= ai + al /\ k - ai = i - (ai - bd + bl) BY <2>4
    <3>3. w[k] = p[k - ai]
      <4>. HIDE DEF k
      <4>. QED BY <2>1, <3>2
    <3>. QED BY <2>2, <3>1, <3>2, <3>3
  <2>5. CASE ~(i <= ai - bd + bl) /\ ~(i <= ai - bd + bl + al)
    <3>. DEFINE m == i - al + ad
    <3>1. v[i] = u[m] BY <2>5
    <3>2. m \in 1..(n - bd + bl) /\ ~(m <= bi) /\ ~(m <= bi + bl) BY <1>0, <2>5
    <3>3. u[m] = t[m - bl + bd]
      <4>. HIDE DEF m
      <4>. QED BY <3>2
    <3>4. ~(k <= ai) /\ ~(k <= ai + al) BY <2>5
    <3>5. w[k] = t[k - al + ad]
      <4>. HIDE DEF k
      <4>. QED BY <2>1, <3>4
    <3>6. k - al + ad = m - bl + bd OBVIOUS
    <3>. HIDE DEF k, m
    <3>. QED BY <2>2, <3>1, <3>3, <3>5, <3>6
  <2>. QED BY <2>3, <2>4, <2>5
<1>. QED BY <1>1, <1>2

\* The op as it reads behind another one.
Behind(a, b) == Replace(a.index - b.del + Len(b.ins), a.del, a.ins)

LEMMA Commute ==
    ASSUME NEW t \in Text, NEW a \in Edits, NEW b \in Edits, Inside(t, a), Inside(t, b),
           b.index + b.del <= a.index
    PROVE  /\ Behind(a, b) \in Edits /\ Inside(ApplyReplace(t, b), Behind(a, b))
           /\ Inside(ApplyReplace(t, a), b)
           /\ ApplyReplace(ApplyReplace(t, b), Behind(a, b))
                = ApplyReplace(ApplyReplace(t, a), b)
<1>. DEFINE n == Len(t)
            ai == a.index
            ad == a.del
            al == Len(a.ins)
            bi == b.index
            bd == b.del
            bl == Len(b.ins)
            p == a.ins
            q == b.ins
            u == ApplyReplace(t, b)
            w == ApplyReplace(t, a)
            s == Behind(a, b)
            v == ApplyReplace(u, s)
            x == ApplyReplace(w, b)
<1>0. /\ n \in Nat /\ ai \in Nat /\ ad \in Nat /\ al \in Nat /\ bi \in Nat /\ bd \in Nat
      /\ bl \in Nat /\ bi + bd <= ai /\ ai + ad <= n /\ p \in Text
  BY EditFields, TextFields DEF Inside
<1>1. s \in Edits /\ s.index = ai - bd + bl /\ s.del = ad /\ s.ins = p /\ Len(s.ins) = al
  <2>1. s = Replace(ai - bd + bl, ad, p) BY DEF Behind
  <2>2. ai - bd + bl \in Nat BY <1>0
  <2>. QED BY <1>0, <2>1, <2>2, ReplaceTyped DEF Replace
<1>2. /\ u \in Text /\ Len(u) = n - bd + bl
      /\ \A i \in 1..(n - bd + bl) :
           u[i] = IF i <= bi THEN t[i] ELSE IF i <= bi + bl THEN q[i - bi] ELSE t[i - bl + bd]
  BY ApplyAt DEF CharAfter
<1>3. /\ w \in Text /\ Len(w) = n - ad + al
      /\ \A i \in 1..(n - ad + al) :
           w[i] = IF i <= ai THEN t[i] ELSE IF i <= ai + al THEN p[i - ai] ELSE t[i - al + ad]
  BY ApplyAt DEF CharAfter
<1>. HIDE DEF u, w, s, n, ai, ad, al, bi, bd, bl, p, q
<1>4. Inside(u, s) /\ Inside(w, b)
  <2>1. (ai - bd + bl) + ad <= n - bd + bl /\ bi + bd <= n - ad + al BY <1>0
  <2>. QED BY <1>1, <1>2, <1>3, <2>1 DEF Inside, bi, bd
<1>5. /\ v \in Text /\ Len(v) = Len(u) - ad + al
      /\ \A i \in 1..(Len(u) - ad + al) :
           v[i] = IF i <= ai - bd + bl THEN u[i]
                  ELSE IF i <= ai - bd + bl + al THEN p[i - (ai - bd + bl)]
                  ELSE u[i - al + ad]
  <2>1. /\ v \in Text /\ Len(v) = Len(u) - s.del + Len(s.ins)
        /\ \A i \in 1..(Len(u) - s.del + Len(s.ins)) : v[i] = CharAfter(u, s, i)
    BY <1>1, <1>2, <1>4, ApplyAt
  <2>2. \A i : CharAfter(u, s, i) =
           IF i <= ai - bd + bl THEN u[i]
           ELSE IF i <= ai - bd + bl + al THEN p[i - (ai - bd + bl)]
           ELSE u[i - al + ad]
    BY <1>1 DEF CharAfter
  <2>. HIDE DEF v
  <2>. QED BY <1>1, <2>1, <2>2
<1>6. /\ x \in Text /\ Len(x) = Len(w) - bd + bl
      /\ \A i \in 1..(Len(w) - bd + bl) :
           x[i] = IF i <= bi THEN w[i] ELSE IF i <= bi + bl THEN q[i - bi] ELSE w[i - bl + bd]
  BY <1>3, <1>4, ApplyAt DEF CharAfter, bi, bd, bl, q
<1>. HIDE DEF v, x
<1>7. \A i \in 1..(n - bd + bl - ad + al) : v[i] = x[i]
  <2>1. Len(u) - ad + al = n - bd + bl - ad + al /\ Len(w) - bd + bl = n - ad + al - bd + bl
    BY <1>0, <1>2, <1>3
  <2>2. \A i \in 1..(n - bd + bl - ad + al) :
           v[i] = IF i <= ai - bd + bl THEN u[i]
                  ELSE IF i <= ai - bd + bl + al THEN p[i - (ai - bd + bl)]
                  ELSE u[i - al + ad]
    BY <1>5, <2>1
  <2>3. \A i \in 1..(n - ad + al - bd + bl) :
           x[i] = IF i <= bi THEN w[i] ELSE IF i <= bi + bl THEN q[i - bi] ELSE w[i - bl + bd]
    BY <1>6, <2>1
  <2>4. /\ \A i \in 1..(n - bd + bl) :
             u[i] = IF i <= bi THEN t[i] ELSE IF i <= bi + bl THEN q[i - bi]
                    ELSE t[i - bl + bd]
        /\ \A i \in 1..(n - ad + al) :
             w[i] = IF i <= ai THEN t[i] ELSE IF i <= ai + al THEN p[i - ai]
                    ELSE t[i - al + ad]
    BY <1>2, <1>3
  <2>. QED BY <1>0, <2>2, <2>3, <2>4, SamePlaces
<1>8. Len(v) = n - bd + bl - ad + al /\ Len(v) = Len(x)
  <2>1. Len(v) = (n - bd + bl) - ad + al BY <1>2, <1>5
  <2>2. Len(x) = (n - ad + al) - bd + bl BY <1>3, <1>6
  <2>3. /\ (n - bd + bl) - ad + al = n - bd + bl - ad + al
        /\ (n - bd + bl) - ad + al = (n - ad + al) - bd + bl
    BY <1>0
  <2>. QED BY <2>1, <2>2, <2>3
<1>9. v = x BY <1>5, <1>6, <1>7, <1>8, SameText
<1>. QED BY <1>1, <1>4, <1>9 DEF u, w, s, v, x

\* Of two replaces that do not meet one lies behind the other, and the transform
\* moves that one and leaves the other alone.
LEMMA TransformApart ==
    ASSUME NEW a \in Edits, NEW b \in Edits, ~IsNoop(a), ~IsNoop(b), ~Meet(a, b)
    PROVE  \/ /\ b.index + b.del <= a.index
              /\ TransformReplace(a, b) = Behind(a, b) /\ TransformReplace(b, a) = b
           \/ /\ a.index + a.del <= b.index
              /\ TransformReplace(b, a) = Behind(b, a) /\ TransformReplace(a, b) = a
<1>0. /\ a.index \in Nat /\ a.del \in Nat /\ Len(a.ins) \in Nat
      /\ b.index \in Nat /\ b.del \in Nat /\ Len(b.ins) \in Nat
  BY EditFields
<1>1. ASSUME NEW x \in Edits, NEW y \in Edits, y.index + y.del <= x.index
      PROVE  TransformReplace(x, y) = Behind(x, y)
  <2>0. x.index \in Nat /\ y.index \in Nat /\ y.del \in Nat /\ Len(y.ins) \in Nat BY EditFields
  <2>1. ~(y.index + y.del > x.index) BY <1>1, <2>0
  <2>2. TransformReplace(x, y) = Replace(Larger(0, x.index - y.del + Len(y.ins)), x.del, x.ins)
    BY <1>1, <2>1, Zenon DEF TransformReplace
  <2>3. Larger(0, x.index - y.del + Len(y.ins)) = x.index - y.del + Len(y.ins)
    BY <1>1, <2>0 DEF Larger
  <2>. QED BY <2>2, <2>3 DEF Behind
<1>2. ASSUME NEW x \in Edits, NEW y \in Edits, ~(y.index + y.del <= x.index),
             x.index + x.del <= y.index
      PROVE  TransformReplace(x, y) = x
  <2>0. /\ x.index \in Nat /\ x.del \in Nat /\ y.index \in Nat /\ y.del \in Nat BY EditFields
  <2>1. /\ y.index + y.del > x.index /\ y.index >= x.index + x.del
        /\ ~(y.index < x.index + x.del)
    BY <1>2, <2>0
  <2>. QED BY <1>2, <2>1, Zenon DEF TransformReplace
<1>3. ~(b.index + b.del <= a.index /\ a.index + a.del <= b.index)
  <2>. SUFFICES ASSUME b.index + b.del <= a.index, a.index + a.del <= b.index PROVE FALSE
    OBVIOUS
  <2>1. a.index = b.index /\ a.del = 0 /\ b.del = 0 BY <1>0
  <2>2. a.ins # <<>> /\ b.ins # <<>> BY <2>1 DEF IsNoop
  <2>3. a.index <= b.index + b.del /\ b.index <= a.index + a.del BY <1>0, <2>1
  <2>. QED BY <2>1, <2>2, <2>3 DEF Meet
<1>4. b.index + b.del <= a.index \/ a.index + a.del <= b.index
  <2>. SUFFICES ASSUME ~(b.index + b.del <= a.index), ~(a.index + a.del <= b.index) PROVE FALSE
    OBVIOUS
  <2>1. /\ a.index < b.index + b.del /\ b.index < a.index + a.del
        /\ a.index <= b.index + b.del /\ b.index <= a.index + a.del
    BY <1>0
  <2>. QED BY <2>1 DEF Meet
<1>. QED BY <1>1, <1>2, <1>3, <1>4

\* TP1 for replaces that do not meet: whichever is applied first, the other one,
\* transformed, leads to the same text; and the transform changes a place only.
THEOREM TransformsConverge ==
    ASSUME NEW t \in Text, NEW a \in Edits, NEW b \in Edits, Inside(t, a), Inside(t, b),
           ~IsNoop(a), ~IsNoop(b), ~Meet(a, b)
    PROVE  /\ Inside(ApplyReplace(t, b), TransformReplace(a, b))
           /\ Inside(ApplyReplace(t, a), TransformReplace(b, a))
           /\ ApplyReplace(ApplyReplace(t, b), TransformReplace(a, b))
                = ApplyReplace(ApplyReplace(t, a), TransformReplace(b, a))
           /\ ~IsNoop(TransformReplace(a, b)) /\ ~IsNoop(TransformReplace(b, a))
<1>1. ASSUME NEW x \in Edits, NEW y, ~IsNoop(x) PROVE ~IsNoop(Behind(x, y))
  BY <1>1 DEF Behind, Replace, IsNoop
<1>2. CASE /\ b.index + b.del <= a.index
           /\ TransformReplace(a, b) = Behind(a, b) /\ TransformReplace(b, a) = b
  BY <1>1, <1>2, Commute
<1>3. CASE /\ a.index + a.del <= b.index
           /\ TransformReplace(b, a) = Behind(b, a) /\ TransformReplace(a, b) = a
  BY <1>1, <1>3, Commute
<1>. QED BY <1>2, <1>3, TransformApart

\* The editor applies a replace that lies within its text like the server.
LEMMA DomApplyInside ==
    ASSUME NEW t \in Text, NEW e \in Edits, Inside(t, e)
    PROVE  DomApply(t, e) = ApplyReplace(t, e)
<1>0. /\ e.index \in Nat /\ e.del \in Nat /\ e.ins \in Text /\ Len(e.ins) \in Nat
      /\ Len(t) \in Nat /\ e.index + e.del <= Len(t)
  BY EditFields, TextFields DEF Inside
<1>. DEFINE x == e.index
            d == e.del
            l == Len(e.ins)
            n == Len(t)
            f == Replace(x, d, <<>>)
            g == Replace(x, 0, e.ins)
            cut == ApplyReplace(t, f)
            u == ApplyReplace(cut, g)
            v == ApplyReplace(t, e)
<1>1. /\ f \in Edits /\ f.index = x /\ f.del = d /\ Len(f.ins) = 0
      /\ g \in Edits /\ g.index = x /\ g.del = 0 /\ g.ins = e.ins /\ Len(g.ins) = l
  <2>1. <<>> \in Text /\ Len(<<>>) = 0 BY DEF Text
  <2>. QED BY <1>0, <2>1, ReplaceTyped DEF Replace
<1>. HIDE DEF f, g
<1>2. Inside(t, f) BY <1>0, <1>1 DEF Inside
<1>3. /\ cut \in Text /\ Len(cut) = n - f.del + Len(f.ins)
      /\ \A i \in 1..(n - f.del + Len(f.ins)) : cut[i] = CharAfter(t, f, i)
  BY <1>1, <1>2, ApplyAt
<1>. HIDE DEF cut
<1>4. Len(cut) = n - d /\ x <= n - d BY <1>0, <1>1, <1>3
<1>5. \A i \in 1..(n - d) : cut[i] = IF i <= x THEN t[i] ELSE t[i + d]
  <2>. SUFFICES ASSUME NEW i \in 1..(n - d) PROVE cut[i] = IF i <= x THEN t[i] ELSE t[i + d]
    OBVIOUS
  <2>. HIDE DEF x, d, n
  <2>0. x \in Nat /\ d \in Nat /\ n \in Nat BY <1>0 DEF x, d, n
  <2>1. cut[i] = CharAfter(t, f, i) BY <1>1, <1>3, <2>0
  <2>2. CharAfter(t, f, i) = IF i <= x THEN t[i] ELSE IF i <= x + 0 THEN f.ins[i - x]
                             ELSE t[i - 0 + d]
    BY <1>1 DEF CharAfter
  <2>3. (i <= x + 0 <=> i <= x) /\ i - 0 + d = i + d BY <2>0
  <2>. QED BY <2>1, <2>2, <2>3
<1>6. Inside(cut, g) BY <1>0, <1>1, <1>4 DEF Inside
<1>7. /\ u \in Text /\ Len(u) = Len(cut) - g.del + Len(g.ins)
      /\ \A i \in 1..(Len(cut) - g.del + Len(g.ins)) : u[i] = CharAfter(cut, g, i)
  BY <1>1, <1>3, <1>6, ApplyAt
<1>8. /\ v \in Text /\ Len(v) = n - d + l
      /\ \A i \in 1..(n - d + l) : v[i] = CharAfter(t, e, i)
  BY ApplyAt
<1>. HIDE DEF u, v
<1>9. u = v
  <2>. HIDE DEF x, d, n, l
  <2>0. x \in Nat /\ d \in Nat /\ n \in Nat /\ l \in Nat /\ x + d <= n BY <1>0 DEF x, d, n, l
  <2>1. Len(u) = n - d + l /\ Len(u) = (n - d) - 0 + l BY <1>1, <1>4, <1>7, <2>0
  <2>2. ASSUME NEW i \in 1..Len(u) PROVE u[i] = v[i]
    <3>0. i \in 1..(n - d + l) /\ i \in 1..(Len(cut) - g.del + Len(g.ins)) BY <1>7, <2>1
    <3>1. u[i] = CharAfter(cut, g, i) BY <1>7, <3>0
    <3>2. CharAfter(cut, g, i) = IF i <= x THEN cut[i] ELSE IF i <= x + l THEN e.ins[i - x]
                                 ELSE cut[i - l + 0]
      BY <1>1 DEF CharAfter
    <3>3. v[i] = CharAfter(t, e, i) BY <1>8, <3>0
    <3>4. CharAfter(t, e, i) = IF i <= x THEN t[i] ELSE IF i <= x + l THEN e.ins[i - x]
                               ELSE t[i - l + d]
      BY DEF CharAfter, x, l, d
    <3>5. i <= x => i \in 1..(n - d) /\ cut[i] = t[i] BY <1>5, <2>0, <3>0
    <3>6. ASSUME ~(i <= x), ~(i <= x + l) PROVE cut[i - l + 0] = t[i - l + d]
      <4>1. i - l \in 1..(n - d) /\ ~(i - l <= x) /\ i - l + 0 = i - l BY <2>0, <3>0, <3>6
      <4>2. cut[i - l] = t[(i - l) + d] BY <1>5, <4>1
      <4>. QED BY <4>1, <4>2
    <3>. QED BY <3>1, <3>2, <3>3, <3>4, <3>5, <3>6
  <2>. QED BY <1>7, <1>8, <2>1, <2>2, SameText
<1>10. ~(e.index > Len(cut)) BY <1>0, <1>4
<1>. QED BY <1>9, <1>10 DEF DomApply, cut, u, v, f, g

LEMMA NoopApplied ==
    ASSUME NEW t \in Text, NEW e \in Edits, Inside(t, e), IsNoop(e)
    PROVE  ApplyReplace(t, e) = t
<1>. DEFINE u == ApplyReplace(t, e)
<1>0. /\ e.index \in Nat /\ e.del = 0 /\ e.ins = <<>> /\ Len(t) \in Nat
  BY EditFields, TextFields DEF IsNoop
<1>1. Len(e.ins) = 0
  <2>1. Len(<<>>) = 0 OBVIOUS
  <2>. QED BY <1>0, <2>1
<1>2. /\ u \in Text /\ Len(u) = Len(t) - e.del + Len(e.ins)
      /\ \A i \in 1..(Len(t) - e.del + Len(e.ins)) : u[i] = CharAfter(t, e, i)
  BY ApplyAt
<1>. HIDE DEF u
<1>3. Len(u) = Len(t) /\ \A i \in 1..Len(t) : u[i] = CharAfter(t, e, i) BY <1>0, <1>1, <1>2
<1>4. ASSUME NEW i \in 1..Len(t) PROVE u[i] = t[i]
  <2>1. i - Len(e.ins) + e.del = i /\ (i <= e.index + Len(e.ins) <=> i <= e.index)
    BY <1>0, <1>1
  <2>2. CharAfter(t, e, i) = t[i] BY <2>1 DEF CharAfter
  <2>. QED BY <1>3, <2>2
<1>5. u = t BY <1>2, <1>3, <1>4, SameText
<1>. QED BY <1>5 DEF u

LEMMA ReverseAt ==
    ASSUME NEW s \in Text, NEW i \in 1..Len(s)
    PROVE  Reverse(s)[i] = s[Len(s) - i + 1]
BY TextFields DEF Reverse

\* diffPlainText finds an op that lies within the first text and makes the second
\* one of it.
THEOREM DiffMakesText ==
    ASSUME NEW s \in Text, NEW t \in Text
    PROVE  /\ DiffPlainText(s, t) \in Edits /\ Inside(s, DiffPlainText(s, t))
           /\ ApplyReplace(s, DiffPlainText(s, t)) = t
           /\ s # t => ~IsNoop(DiffPlainText(s, t))
<1>. DEFINE n == Len(s)
            m == Len(t)
            x == CommonPrefix(s, t)
            a == SubSeq(s, x + 1, n)
            b == SubSeq(t, x + 1, m)
            y == CommonPrefix(Reverse(a), Reverse(b))
            ins == SubSeq(t, x + 1, m - y)
            e == Replace(x, n - y - x, ins)
            u == ApplyReplace(s, e)
<1>0. n \in Nat /\ m \in Nat BY TextFields
<1>1. /\ x \in Nat /\ x <= n /\ x <= m /\ \A i \in 1..x : s[i] = t[i]
  <2>1. x \in 0..Smaller(n, m) /\ \A i \in 1..x : s[i] = t[i] BY PrefixTyped
  <2>. HIDE DEF x
  <2>. QED BY <1>0, <2>1 DEF Smaller
<1>. HIDE DEF x, n, m
<1>2. /\ a \in Text /\ Len(a) = n - x /\ \A i \in 1..(n - x) : a[i] = s[i + x]
      /\ b \in Text /\ Len(b) = m - x /\ \A i \in 1..(m - x) : b[i] = t[i + x]
  <2>1. /\ x + 1 \in Nat \ {0} /\ x + 1 <= n + 1 /\ n <= Len(s)
        /\ x + 1 <= m + 1 /\ m <= Len(t)
    BY <1>0, <1>1 DEF n, m
  <2>2. /\ a \in Text /\ Len(a) = n - (x + 1) + 1
        /\ \A i \in 1..(n - (x + 1) + 1) : a[i] = s[i + (x + 1) - 1]
    BY <1>0, <2>1, SubText
  <2>3. /\ b \in Text /\ Len(b) = m - (x + 1) + 1
        /\ \A i \in 1..(m - (x + 1) + 1) : b[i] = t[i + (x + 1) - 1]
    BY <1>0, <2>1, SubText
  <2>. HIDE DEF a, b
  <2>4. /\ n - (x + 1) + 1 = n - x /\ m - (x + 1) + 1 = m - x
        /\ \A i \in Nat : i + (x + 1) - 1 = i + x
    BY <1>0, <1>1
  <2>5. \A i \in 1..(n - x) : a[i] = s[i + x] BY <1>0, <1>1, <2>2, <2>4
  <2>6. \A i \in 1..(m - x) : b[i] = t[i + x] BY <1>0, <1>1, <2>3, <2>4
  <2>. QED BY <2>2, <2>3, <2>4, <2>5, <2>6
<1>. HIDE DEF a, b
<1>3. /\ y \in Nat /\ y <= n - x /\ y <= m - x
      /\ \A k \in 1..y : Reverse(a)[k] = Reverse(b)[k]
  <2>1. Reverse(a) \in Text /\ Len(Reverse(a)) = Len(a) BY <1>2, ReverseTyped
  <2>2. Reverse(b) \in Text /\ Len(Reverse(b)) = Len(b) BY <1>2, ReverseTyped
  <2>3. /\ y \in 0..Smaller(Len(a), Len(b))
        /\ \A k \in 1..y : Reverse(a)[k] = Reverse(b)[k]
    BY <2>1, <2>2, PrefixTyped
  <2>. HIDE DEF y
  <2>. QED BY <1>0, <1>1, <1>2, <2>3 DEF Smaller
<1>. HIDE DEF y
<1>4. \A k \in 1..y : s[n - k + 1] = t[m - k + 1]
  <2>. SUFFICES ASSUME NEW k \in 1..y PROVE s[n - k + 1] = t[m - k + 1] OBVIOUS
  <2>1. k \in 1..(n - x) /\ k \in 1..(m - x) BY <1>0, <1>1, <1>3
  <2>2. Reverse(a)[k] = a[(n - x) - k + 1] BY <1>2, <2>1, ReverseAt
  <2>3. Reverse(b)[k] = b[(m - x) - k + 1] BY <1>2, <2>1, ReverseAt
  <2>4. /\ (n - x) - k + 1 \in 1..(n - x) /\ ((n - x) - k + 1) + x = n - k + 1
        /\ (m - x) - k + 1 \in 1..(m - x) /\ ((m - x) - k + 1) + x = m - k + 1
    BY <1>0, <1>1, <2>1
  <2>5. a[(n - x) - k + 1] = s[n - k + 1] BY <1>2, <2>4
  <2>6. b[(m - x) - k + 1] = t[m - k + 1] BY <1>2, <2>4
  <2>. QED BY <1>3, <2>2, <2>3, <2>5, <2>6
<1>5. /\ ins \in Text /\ Len(ins) = m - y - x /\ \A i \in 1..(m - y - x) : ins[i] = t[i + x]
  <2>1. x + 1 \in Nat \ {0} /\ m - y \in Nat /\ x + 1 <= (m - y) + 1 /\ m - y <= Len(t)
    BY <1>0, <1>1, <1>3 DEF m
  <2>2. /\ ins \in Text /\ Len(ins) = (m - y) - (x + 1) + 1
        /\ \A i \in 1..((m - y) - (x + 1) + 1) : ins[i] = t[i + (x + 1) - 1]
    BY <2>1, SubText
  <2>. HIDE DEF ins
  <2>3. (m - y) - (x + 1) + 1 = m - y - x /\ \A i \in Nat : i + (x + 1) - 1 = i + x
    BY <1>0, <1>1, <1>3
  <2>4. \A i \in 1..(m - y - x) : i \in Nat OBVIOUS
  <2>. QED BY <2>2, <2>3, <2>4
<1>. HIDE DEF ins
<1>6. DiffPlainText(s, t) = e BY DEF DiffPlainText, e, ins, y, a, b, x, n, m
<1>7. e \in Edits /\ e.index = x /\ e.del = n - y - x /\ e.ins = ins /\ Len(e.ins) = m - y - x
  <2>1. n - y - x \in Nat BY <1>0, <1>1, <1>3
  <2>. QED BY <1>1, <1>5, <2>1, ReplaceTyped DEF Replace
<1>. HIDE DEF e
<1>8. Inside(s, e)
  <2>1. x + (n - y - x) <= n BY <1>0, <1>1, <1>3
  <2>. QED BY <1>7, <2>1 DEF Inside, n
<1>9. /\ u \in Text /\ Len(u) = m /\ \A i \in 1..m : u[i] = CharAfter(s, e, i)
  <2>1. /\ u \in Text /\ Len(u) = n - e.del + Len(e.ins)
        /\ \A i \in 1..(n - e.del + Len(e.ins)) : u[i] = CharAfter(s, e, i)
    BY <1>7, <1>8, ApplyAt DEF n
  <2>. HIDE DEF u
  <2>2. n - e.del + Len(e.ins) = m
    <3>1. n - (n - y - x) + (m - y - x) = m BY <1>0, <1>1, <1>3
    <3>. QED BY <1>7, <3>1
  <2>. QED BY <2>1, <2>2
<1>. HIDE DEF u
<1>10. ASSUME NEW i \in 1..m PROVE u[i] = t[i]
  <2>1. u[i] = IF i <= x THEN s[i] ELSE IF i <= x + (m - y - x) THEN ins[i - x]
               ELSE s[i - (m - y - x) + (n - y - x)]
    BY <1>7, <1>9 DEF CharAfter
  <2>2. CASE i <= x
    <3>1. i \in 1..x BY <1>0, <1>1, <2>2
    <3>. QED BY <1>1, <2>1, <2>2, <3>1
  <2>3. CASE ~(i <= x) /\ i <= x + (m - y - x)
    <3>1. i - x \in 1..(m - y - x) /\ (i - x) + x = i BY <1>0, <1>1, <1>3, <2>3
    <3>2. ins[i - x] = t[i] BY <1>5, <3>1
    <3>. QED BY <2>1, <2>3, <3>2
  <2>4. CASE ~(i <= x) /\ ~(i <= x + (m - y - x))
    <3>. DEFINE k == m - i + 1
    <3>1. /\ k \in 1..y /\ m - k + 1 = i /\ n - k + 1 = i - (m - y - x) + (n - y - x)
      BY <1>0, <1>1, <1>3, <2>4
    <3>. HIDE DEF k
    <3>2. s[n - k + 1] = t[m - k + 1] BY <1>4, <3>1
    <3>. QED BY <2>1, <2>4, <3>1, <3>2
  <2>. QED BY <2>2, <2>3, <2>4
<1>11. u = t BY <1>9, <1>10, SameText DEF m
<1>12. ASSUME IsNoop(e) PROVE s = t
  <2>1. u = s BY <1>7, <1>8, <1>12, NoopApplied DEF u
  <2>. QED BY <1>11, <2>1
<1>. QED BY <1>6, <1>7, <1>8, <1>11, <1>12 DEF u
-----------------------------------------------------------------------------
(* The text the log makes, and an op moved along the log *)

LogText(l) ==
    LET text[n \in 0..Len(l)] ==
          IF n = 0 THEN Seed
          ELSE IF l[n].type = "replace" THEN ApplyReplace(text[n - 1], l[n].body)
          ELSE text[n - 1]
    IN  text

\* The op e, based on the first a entries, as it reads after n entries.
Moved(l, a, e) ==
    LET moved[n \in 0..Len(l)] ==
          IF n = 0 THEN e
          ELSE IF n > a /\ l[n].type = "replace" THEN TransformReplace(moved[n - 1], l[n].body)
          ELSE moved[n - 1]
    IN  moved

LEMMA LogTextAt ==
    ASSUME NEW l, LogTyped(l)
    PROVE  /\ LogText(l) \in [0..Len(l) -> Text] /\ LogText(l)[0] = Seed
           /\ \A n \in 1..Len(l) : LogText(l)[n] = IF l[n].type = "replace" THEN ApplyReplace(LogText(l)[n - 1], l[n].body) ELSE LogText(l)[n - 1]
<1>. DEFINE B(x, n) == IF l[n].type = "replace" THEN ApplyReplace(x, l[n].body) ELSE x
            F == [p \in Text \X DOMAIN l |-> B(p[1], p[2])]
            Of(h) == h = [n \in 0..Len(l) |-> IF n = 0 THEN Seed ELSE B(h[n - 1], n)]
            k == CHOOSE h : Of(h)
<1>0. Len(l) \in Nat /\ DOMAIN l = 1..Len(l) BY IsSeqDom DEF LogTyped
<1>1. \A x \in Text, n \in DOMAIN l : F[<<x, n>>] = B(x, n) OBVIOUS
<1>2. \A x \in Text, n \in DOMAIN l : B(x, n) \in Text
  <2>1. \A n \in DOMAIN l : l[n].type = "replace" => l[n].body \in Edits
    BY DEF LogTyped, BodyTyped
  <2>. QED BY <2>1, ApplyTyped
<1>. HIDE DEF B, F
<1>3. Closed(Text, Len(l), F) BY <1>0, <1>1, <1>2 DEF Closed
<1>4. Seed \in Text BY SeedAssumption DEF Text
<1>5. Of(k)
  <2>1. PICK g : RunOf(g, Text, Seed, Len(l), F) BY <1>0, <1>3, <1>4, LoopExists
  <2>2. ASSUME NEW n \in 0..Len(l) PROVE g[n] = IF n = 0 THEN Seed ELSE B(g[n - 1], n)
    <3>1. n # 0 => n \in DOMAIN l /\ g[n - 1] \in Text BY <1>0, <2>1 DEF RunOf
    <3>. QED BY <1>1, <2>1, <3>1 DEF RunOf
  <2>3. g = [n \in 0..Len(l) |-> g[n]] BY <2>1 DEF RunOf
  <2>4. Of(g) BY <2>2, <2>3
  <2>. QED BY <2>4
<1>6. LogText(l) = k BY DEF LogText, B
<1>. HIDE DEF k
<1>7. \A n \in 0..Len(l) : k[n] = IF n = 0 THEN Seed ELSE B(k[n - 1], n) BY <1>5
<1>8. k[0] = Seed /\ \A n \in 1..Len(l) : k[n - 1] \in Text => k[n] = F[<<k[n - 1], n>>]
  BY <1>0, <1>1, <1>7
<1>9. \A n \in 0..Len(l) : k[n] \in Text BY <1>0, <1>3, <1>4, <1>8, LoopTyped
<1>10. k \in [0..Len(l) -> Text]
  <2>1. k = [n \in 0..Len(l) |-> k[n]] BY <1>5
  <2>. QED BY <1>9, <2>1
<1>11. \A n \in 1..Len(l) : k[n] = B(k[n - 1], n) BY <1>7
<1>. QED BY <1>6, <1>8, <1>10, <1>11 DEF B

LEMMA MovedAt ==
    ASSUME NEW l, LogTyped(l), NEW a, NEW e \in Edits
    PROVE  /\ Moved(l, a, e) \in [0..Len(l) -> Edits] /\ Moved(l, a, e)[0] = e
           /\ \A n \in 1..Len(l) : Moved(l, a, e)[n] = IF n > a /\ l[n].type = "replace" THEN TransformReplace(Moved(l, a, e)[n - 1], l[n].body) ELSE Moved(l, a, e)[n - 1]
<1>. DEFINE B(x, n) == IF n > a /\ l[n].type = "replace" THEN TransformReplace(x, l[n].body) ELSE x
            F == [p \in Edits \X DOMAIN l |-> B(p[1], p[2])]
            Of(h) == h = [n \in 0..Len(l) |-> IF n = 0 THEN e ELSE B(h[n - 1], n)]
            k == CHOOSE h : Of(h)
<1>0. Len(l) \in Nat /\ DOMAIN l = 1..Len(l) BY IsSeqDom DEF LogTyped
<1>1. \A x \in Edits, n \in DOMAIN l : F[<<x, n>>] = B(x, n) OBVIOUS
<1>2. \A x \in Edits, n \in DOMAIN l : B(x, n) \in Edits
  <2>1. \A n \in DOMAIN l : l[n].type = "replace" => l[n].body \in Edits
    BY DEF LogTyped, BodyTyped
  <2>. QED BY <2>1, TransformTyped
<1>. HIDE DEF B, F
<1>3. Closed(Edits, Len(l), F) BY <1>0, <1>1, <1>2 DEF Closed
<1>4. e \in Edits BY DEF Edits
<1>5. Of(k)
  <2>1. PICK g : RunOf(g, Edits, e, Len(l), F) BY <1>0, <1>3, <1>4, LoopExists
  <2>2. ASSUME NEW n \in 0..Len(l) PROVE g[n] = IF n = 0 THEN e ELSE B(g[n - 1], n)
    <3>1. n # 0 => n \in DOMAIN l /\ g[n - 1] \in Edits BY <1>0, <2>1 DEF RunOf
    <3>. QED BY <1>1, <2>1, <3>1 DEF RunOf
  <2>3. g = [n \in 0..Len(l) |-> g[n]] BY <2>1 DEF RunOf
  <2>4. Of(g) BY <2>2, <2>3
  <2>. QED BY <2>4
<1>6. Moved(l, a, e) = k BY DEF Moved, B
<1>. HIDE DEF k
<1>7. \A n \in 0..Len(l) : k[n] = IF n = 0 THEN e ELSE B(k[n - 1], n) BY <1>5
<1>8. k[0] = e /\ \A n \in 1..Len(l) : k[n - 1] \in Edits => k[n] = F[<<k[n - 1], n>>]
  BY <1>0, <1>1, <1>7
<1>9. \A n \in 0..Len(l) : k[n] \in Edits BY <1>0, <1>3, <1>4, <1>8, LoopTyped
<1>10. k \in [0..Len(l) -> Edits]
  <2>1. k = [n \in 0..Len(l) |-> k[n]] BY <1>5
  <2>. QED BY <1>9, <2>1
<1>11. \A n \in 1..Len(l) : k[n] = B(k[n - 1], n) BY <1>7
<1>. QED BY <1>6, <1>8, <1>10, <1>11 DEF B
LEMMA SameRuns ==
    ASSUME NEW m \in Nat, NEW f, NEW g, f[0] = g[0],
           \A n \in 1..m : f[n - 1] = g[n - 1] => f[n] = g[n]
    PROVE  \A n \in 0..m : f[n] = g[n]
<1>. DEFINE A == {n \in 0..m : f[n] = g[n]}
<1>1. 0 \in A OBVIOUS
<1>2. \A n \in 1..m : n - 1 \in A => n \in A OBVIOUS
<1>3. \A n \in 0..m : n \in A
  <2>. HIDE DEF A
  <2>. QED BY <1>1, <1>2, UpTo
<1>. QED BY <1>3

LEMMA Steady ==
    ASSUME NEW m \in Nat, NEW a \in 0..m, NEW f, \A n \in (a + 1)..m : f[n] = f[n - 1]
    PROVE  \A n \in a..m : f[n] = f[a]
<1>. DEFINE A == {n \in 0..m : n >= a => f[n] = f[a]}
<1>1. 0 \in A OBVIOUS
<1>2. ASSUME NEW n \in 1..m, n - 1 \in A PROVE n \in A
  <2>1. CASE n > a
    <3>1. n \in (a + 1)..m /\ n - 1 >= a BY <2>1
    <3>. QED BY <1>2, <3>1
  <2>2. CASE n = a BY <2>2
  <2>3. CASE n < a BY <2>3
  <2>. QED BY <2>1, <2>2, <2>3
<1>3. \A n \in 0..m : n \in A
  <2>. HIDE DEF A
  <2>. QED BY <1>1, <1>2, UpTo
<1>. QED BY <1>3

\* A longer log makes the same texts so far, and moves an op the same way.
LEMMA LogTextMono ==
    ASSUME NEW l, LogTyped(l), NEW k, LogTyped(k), Extends(k, l)
    PROVE  \A n \in 0..Len(l) : LogText(k)[n] = LogText(l)[n]
<1>0. Len(l) \in Nat /\ \A n \in 1..Len(l) : n \in 1..Len(k) /\ k[n] = l[n] BY DEF Extends
<1>1. LogText(k)[0] = LogText(l)[0] BY LogTextAt
<1>2. ASSUME NEW n \in 1..Len(l), LogText(k)[n - 1] = LogText(l)[n - 1]
      PROVE  LogText(k)[n] = LogText(l)[n]
  <2>1. LogText(l)[n] = IF l[n].type = "replace" THEN ApplyReplace(LogText(l)[n - 1], l[n].body)
                        ELSE LogText(l)[n - 1]
    BY LogTextAt
  <2>2. LogText(k)[n] = IF k[n].type = "replace" THEN ApplyReplace(LogText(k)[n - 1], k[n].body)
                        ELSE LogText(k)[n - 1]
    BY <1>0, LogTextAt
  <2>. QED BY <1>0, <1>2, <2>1, <2>2
<1>. DEFINE f == LogText(k)
            g == LogText(l)
            m == Len(l)
<1>3. f[0] = g[0] /\ \A n \in 1..m : f[n - 1] = g[n - 1] => f[n] = g[n] BY <1>1, <1>2
<1>5. m \in Nat BY <1>0
<1>. HIDE DEF f, g, m
<1>4. \A n \in 0..m : f[n] = g[n] BY <1>3, <1>5, SameRuns
<1>. QED BY <1>4 DEF f, g, m

LEMMA MovedMono ==
    ASSUME NEW l, LogTyped(l), NEW k, LogTyped(k), Extends(k, l), NEW a, NEW e \in Edits
    PROVE  \A n \in 0..Len(l) : Moved(k, a, e)[n] = Moved(l, a, e)[n]
<1>0. Len(l) \in Nat /\ \A n \in 1..Len(l) : n \in 1..Len(k) /\ k[n] = l[n] BY DEF Extends
<1>. DEFINE f == Moved(k, a, e)
            g == Moved(l, a, e)
<1>1. f[0] = g[0] BY MovedAt
<1>2. \A n \in 1..Len(l) :
        g[n] = IF n > a /\ l[n].type = "replace" THEN TransformReplace(g[n - 1], l[n].body)
               ELSE g[n - 1]
  BY MovedAt
<1>3. \A n \in 1..Len(l) :
        f[n] = IF n > a /\ k[n].type = "replace" THEN TransformReplace(f[n - 1], k[n].body)
               ELSE f[n - 1]
  BY <1>0, MovedAt
<1>. HIDE DEF f, g
<1>. DEFINE m == Len(l)
<1>4. \A n \in 1..m : f[n - 1] = g[n - 1] => f[n] = g[n] BY <1>0, <1>2, <1>3
<1>6. m \in Nat BY <1>0
<1>. HIDE DEF m
<1>5. \A n \in 0..m : f[n] = g[n] BY <1>1, <1>4, <1>6, SameRuns
<1>. QED BY <1>5 DEF f, g, m

LEMMA MovedBefore ==
    ASSUME NEW l, LogTyped(l), NEW a \in 0..Len(l), NEW e \in Edits
    PROVE  \A n \in 0..a : Moved(l, a, e)[n] = e
<1>. DEFINE g == Moved(l, a, e)
<1>0. Len(l) \in Nat BY IsSeqDom DEF LogTyped
<1>1. /\ g[0] = e
      /\ \A n \in 1..Len(l) :
           g[n] = IF n > a /\ l[n].type = "replace" THEN TransformReplace(g[n - 1], l[n].body)
                  ELSE g[n - 1]
  BY MovedAt
<1>. HIDE DEF g
<1>2. ASSUME NEW n \in (0 + 1)..a PROVE g[n] = g[n - 1]
  <2>1. n \in 1..Len(l) /\ ~(n > a) BY <1>0
  <2>. QED BY <1>1, <2>1
<1>3. a \in Nat /\ 0 \in 0..a BY <1>0
<1>4. \A n \in 0..a : g[n] = g[0] BY <1>2, <1>3, Steady
<1>. QED BY <1>1, <1>4 DEF g

\* An op that is moved to b and on from there.
LEMMA MovedOn ==
    ASSUME NEW l, LogTyped(l), NEW b \in 0..Len(l), NEW a \in 0..b, NEW e \in Edits,
           NEW x \in Edits, Moved(l, a, e)[b] = x
    PROVE  \A n \in b..Len(l) : Moved(l, b, x)[n] = Moved(l, a, e)[n]
<1>. DEFINE f == Moved(l, b, x)
            g == Moved(l, a, e)
            A == {n \in 0..Len(l) : n >= b => f[n] = g[n]}
<1>0. Len(l) \in Nat BY IsSeqDom DEF LogTyped
<1>1. \A n \in 1..Len(l) :
        g[n] = IF n > a /\ l[n].type = "replace" THEN TransformReplace(g[n - 1], l[n].body)
               ELSE g[n - 1]
  BY MovedAt
<1>2. \A n \in 1..Len(l) :
        f[n] = IF n > b /\ l[n].type = "replace" THEN TransformReplace(f[n - 1], l[n].body)
               ELSE f[n - 1]
  BY MovedAt
<1>3. f[b] = g[b]
  <2>1. b \in 0..b BY <1>0
  <2>. QED BY <2>1, MovedBefore
<1>. HIDE DEF f, g
<1>4. 0 \in A BY <1>0, <1>3
<1>5. ASSUME NEW n \in 1..Len(l), n - 1 \in A PROVE n \in A
  <2>1. CASE n > b
    <3>1. n > a /\ n - 1 >= b BY <1>0, <2>1
    <3>2. f[n - 1] = g[n - 1] BY <1>5, <3>1
    <3>. QED BY <1>1, <1>2, <2>1, <3>1, <3>2
  <2>2. CASE n = b BY <1>3, <2>2
  <2>3. CASE n < b BY <1>0, <2>3
  <2>. QED BY <1>0, <2>1, <2>2, <2>3
<1>6. \A n \in 0..Len(l) : n \in A
  <2>. HIDE DEF A
  <2>. QED BY <1>0, <1>4, <1>5, UpTo
<1>7. \A n \in b..Len(l) : n \in 0..Len(l) /\ n >= b BY <1>0
<1>. QED BY <1>6, <1>7 DEF f, g

\* Entries that replace nothing change neither the text nor an op.
NoReplace(l, a, b) == \A n \in (a + 1)..b : l[n].type # "replace"

LEMMA NothingMoved ==
    ASSUME NEW l, LogTyped(l), NEW b \in 0..Len(l), NEW a \in 0..b, NoReplace(l, a, b)
    PROVE  /\ LogText(l)[b] = LogText(l)[a]
           /\ \A e \in Edits : Moved(l, a, e)[b] = e
<1>0. Len(l) \in Nat /\ b \in Nat /\ \A n \in (a + 1)..b : n \in 1..Len(l)
  BY IsSeqDom DEF LogTyped
<1>4. \A n \in (a + 1)..b : l[n].type # "replace" BY DEF NoReplace
<1>5. b \in a..b BY <1>0
<1>1. \A n \in (a + 1)..b : LogText(l)[n] = LogText(l)[n - 1] BY <1>0, <1>4, LogTextAt
<1>2. \A n \in a..b : LogText(l)[n] = LogText(l)[a] BY <1>0, <1>1, Steady
<1>3. ASSUME NEW e \in Edits PROVE \A n \in a..b : Moved(l, a, e)[n] = e
  <2>. DEFINE g == Moved(l, a, e)
  <2>1. \A n \in (a + 1)..b : g[n] = g[n - 1] BY <1>0, <1>4, MovedAt
  <2>2. g[a] = e
    <3>1. a \in 0..a /\ a \in 0..Len(l) BY <1>0
    <3>. QED BY <3>1, MovedBefore
  <2>. HIDE DEF g
  <2>3. \A n \in a..b : g[n] = g[a] BY <1>0, <2>1, Steady
  <2>. QED BY <2>2, <2>3 DEF g
<1>. QED BY <1>2, <1>3, <1>5

-----------------------------------------------------------------------------
(* The server's transform moves an op along the log *)

LEMMA ThroughIs ==
    ASSUME NEW e \in Edits, NEW s, IsSeq(s), \A n \in DOMAIN s : s[n] \in Edits,
           NEW g, g[0] = e, \A n \in 1..Len(s) : g[n] = TransformReplace(g[n - 1], s[n])
    PROVE  TransformReplaceThrough(e, s) = g[Len(s)]
<1>0. Len(s) \in Nat /\ Len(s) \in 0..Len(s) BY IsSeqDom
<1>1. PICK k : ThroughSteps(k, e, s) /\ TransformReplaceThrough(e, s) = k[Len(s)]
  BY ThroughRun
<1>2. k[0] = g[0] /\ \A n \in 1..Len(s) : k[n - 1] = g[n - 1] => k[n] = g[n]
  BY <1>1 DEF ThroughSteps
<1>3. \A n \in 0..Len(s) : k[n] = g[n] BY <1>0, <1>2, SameRuns
<1>. QED BY <1>0, <1>1, <1>3

LEMMA ThroughNothing ==
    ASSUME NEW e \in Edits
    PROVE  TransformReplaceThrough(e, <<>>) = e
<1>. DEFINE s == <<>>
            g == [n \in {0} |-> e]
<1>1. IsSeq(s) /\ DOMAIN s = {} /\ Len(s) = 0 /\ 1..Len(s) = {}
  <2>1. IsSeq(s) /\ DOMAIN s = {} BY PairIsSeq
  <2>2. Len(s) = 0 OBVIOUS
  <2>. HIDE DEF s
  <2>. QED BY <2>1, <2>2
<1>2. g[0] = e OBVIOUS
<1>. HIDE DEF s, g
<1>3. TransformReplaceThrough(e, s) = g[Len(s)] BY <1>1, <1>2, ThroughIs
<1>. QED BY <1>1, <1>2, <1>3 DEF s

LEMMA ThroughOneMore ==
    ASSUME NEW e \in Edits, NEW s, IsSeq(s), \A n \in DOMAIN s : s[n] \in Edits, NEW f \in Edits
    PROVE  TransformReplaceThrough(e, Append(s, f))
             = TransformReplace(TransformReplaceThrough(e, s), f)
<1>. DEFINE q == Append(s, f)
<1>0. Len(s) \in Nat /\ DOMAIN s = 1..Len(s) BY IsSeqDom
<1>1. /\ IsSeq(q) /\ Len(q) = Len(s) + 1 /\ DOMAIN q = 1..(Len(s) + 1)
      /\ \A i \in 1..Len(s) : q[i] = s[i]
      /\ q[Len(s) + 1] = f
  BY AppendIsSeq
<1>. HIDE DEF q
<1>2. \A n \in DOMAIN q : q[n] \in Edits
  <2>1. \A n \in 1..(Len(s) + 1) : n \in 1..Len(s) \/ n = Len(s) + 1 BY <1>0
  <2>. QED BY <1>0, <1>1, <2>1
<1>3. PICK k : ThroughSteps(k, e, q) /\ TransformReplaceThrough(e, q) = k[Len(q)]
  BY <1>1, <1>2, ThroughRun
<1>4. /\ k[0] = e
      /\ \A n \in 1..(Len(s) + 1) : k[n] = TransformReplace(k[n - 1], q[n])
  BY <1>1, <1>3 DEF ThroughSteps
<1>5. \A n \in 1..Len(s) : k[n] = TransformReplace(k[n - 1], s[n]) BY <1>0, <1>1, <1>4
<1>6. TransformReplaceThrough(e, s) = k[Len(s)] BY <1>4, <1>5, ThroughIs
<1>7. Len(s) + 1 \in 1..(Len(s) + 1) /\ (Len(s) + 1) - 1 = Len(s) BY <1>0
<1>8. k[Len(s) + 1] = TransformReplace(k[Len(s)], f) BY <1>1, <1>4, <1>7
<1>. QED BY <1>1, <1>3, <1>6, <1>8 DEF q

Bodies(q) == [n \in DOMAIN q |-> q[n].body]

LEMMA BodiesSeq ==
    ASSUME NEW q, IsSeq(q)
    PROVE  /\ IsSeq(Bodies(q)) /\ Len(Bodies(q)) = Len(q) /\ DOMAIN Bodies(q) = 1..Len(q)
           /\ \A n \in 1..Len(q) : Bodies(q)[n] = q[n].body
<1>1. Len(q) \in Nat /\ DOMAIN q = 1..Len(q) BY IsSeqDom
<1>2. Bodies(q) = [n \in 1..Len(q) |-> Bodies(q)[n]] BY <1>1 DEF Bodies
<1>3. \A n \in 1..Len(q) : Bodies(q)[n] = q[n].body BY <1>1 DEF Bodies
<1>. QED BY <1>1, <1>2, <1>3, FunIsSeq

LEMMA BodiesAppend ==
    ASSUME NEW q, IsSeq(q), NEW x
    PROVE  Bodies(Append(q, x)) = Append(Bodies(q), x.body)
<1>. DEFINE r == Append(q, x)
            a == Bodies(r)
            b == Append(Bodies(q), x.body)
            m == Len(q)
<1>0. m \in Nat BY IsSeqDom
<1>1. /\ IsSeq(r) /\ Len(r) = m + 1
      /\ \A i \in 1..m : r[i] = q[i]
      /\ r[m + 1] = x
  BY AppendIsSeq
<1>2. /\ IsSeq(Bodies(q)) /\ Len(Bodies(q)) = m
      /\ \A n \in 1..m : Bodies(q)[n] = q[n].body
  BY BodiesSeq
<1>. HIDE DEF r
<1>3. /\ IsSeq(a) /\ Len(a) = m + 1 /\ \A n \in 1..(m + 1) : a[n] = r[n].body
  BY <1>1, BodiesSeq
<1>4. /\ IsSeq(b) /\ Len(b) = m + 1 /\ \A n \in 1..m : b[n] = Bodies(q)[n]
      /\ b[m + 1] = x.body
  BY <1>2, AppendIsSeq
<1>. HIDE DEF a, b, m
<1>5. ASSUME NEW n \in 1..(m + 1) PROVE a[n] = b[n]
  <2>1. n \in 1..m \/ n = m + 1 BY <1>0
  <2>. QED BY <1>1, <1>2, <1>3, <1>4, <2>1
<1>6. a = [n \in 1..(m + 1) |-> a[n]] /\ b = [n \in 1..(m + 1) |-> b[n]]
  <2>1. DOMAIN a = 1..(m + 1) /\ DOMAIN b = 1..(m + 1) BY <1>3, <1>4, IsSeqDom
  <2>2. a \in Seq({a[i] : i \in DOMAIN a}) /\ b \in Seq({b[i] : i \in DOMAIN b})
    BY <1>3, <1>4 DEF IsSeq
  <2>. QED BY <2>1, <2>2
<1>. QED BY <1>5, <1>6 DEF a, b, r

\* Through the last ops of the log that ops_after returns, if the ring still
\* holds all of them.
LEMMA RebasedIsMoved ==
    ASSUME NEW s, LogTyped(s.log), NEW base \in 0..Len(s.log),
           Len(OpsAfter(s, base)) = Len(s.log) - base, NEW e \in Edits
    PROVE  TransformReplaceThrough(e, Replaces(OpsAfter(s, base)))
             = Moved(s.log, base, e)[Len(s.log)]
<1>. DEFINE l == s.log
            ops == OpsAfter(s, base)
            T == {n \in DOMAIN ops : ops[n].type = "replace"}
            N == Len(l) - base
            g == Moved(l, base, e)
<1>0. Len(l) \in Nat /\ DOMAIN l = 1..Len(l) /\ N \in Nat BY IsSeqDom DEF LogTyped
<1>1. IsSeq(ops) /\ DOMAIN ops = 1..N /\ \A n \in 1..N : ops[n] = l[base + n]
  <2>1. PICK k \in 0..Len(l) :
          /\ IsSeq(ops) /\ DOMAIN ops = 1..k
          /\ \A n \in 1..k : ops[n] = l[n + (Len(l) - k)]
    BY OpsAfterEnd DEF LogTyped
  <2>2. Len(ops) = N OBVIOUS
  <2>. HIDE DEF ops, N, l
  <2>3. Len(ops) \in Nat /\ DOMAIN ops = 1..Len(ops) BY <2>1, IsSeqDom
  <2>4. k = N
    <3>1. k \in Nat /\ N \in Nat /\ 1..k = 1..N BY <1>0, <2>1, <2>2, <2>3
    <3>. QED BY <3>1
  <2>5. \A n \in 1..N : n + (Len(l) - k) = base + n BY <1>0, <2>4 DEF N, l
  <2>. QED BY <2>1, <2>4, <2>5
<1>. HIDE DEF ops
<1>2. PICK k : KeptSteps(k, ops, T) /\ Kept(ops, T) = k[Len(ops)] BY <1>1, KeptRun
<1>3. Len(ops) = N BY <1>1 DEF ops
<1>4. Replaces(ops) = Bodies(k[N]) BY <1>2, <1>3 DEF Replaces, Bodies
<1>. DEFINE A == {n \in 0..N : TransformReplaceThrough(e, Bodies(k[n])) = g[base + n]}
<1>5. /\ k[0] = <<>>
      /\ \A n \in 0..N : k[n] \in Seq({ops[i] : i \in DOMAIN ops \cap T})
      /\ \A n \in 1..N : k[n] = IF n \in T THEN Append(k[n - 1], ops[n]) ELSE k[n - 1]
  BY <1>2, <1>3 DEF KeptSteps
<1>6. \A n \in T : ops[n].body \in Edits /\ ops[n].type = "replace"
  <2>1. \A n \in DOMAIN ops : base + n \in DOMAIN l BY <1>0, <1>1
  <2>2. \A n \in DOMAIN l : l[n].type = "replace" => l[n].body \in Edits
    BY DEF LogTyped, BodyTyped
  <2>. QED BY <1>1, <2>1, <2>2
<1>7. \A n \in 1..N :
        g[base + n] = IF n \in T THEN TransformReplace(g[base + (n - 1)], ops[n].body)
                      ELSE g[base + (n - 1)]
  <2>. SUFFICES ASSUME NEW n \in 1..N
                PROVE  g[base + n] = IF n \in T
                                     THEN TransformReplace(g[base + (n - 1)], ops[n].body)
                                     ELSE g[base + (n - 1)]
    OBVIOUS
  <2>1. base + n \in 1..Len(l) /\ base + n > base /\ (base + n) - 1 = base + (n - 1) BY <1>0
  <2>2. g[base + n] = IF base + n > base /\ l[base + n].type = "replace"
                      THEN TransformReplace(g[(base + n) - 1], l[base + n].body)
                      ELSE g[(base + n) - 1]
    BY <2>1, MovedAt
  <2>3. ops[n] = l[base + n] /\ (n \in T <=> l[base + n].type = "replace") BY <1>1
  <2>. HIDE DEF g, T
  <2>. QED BY <2>1, <2>2, <2>3
<1>8. 0 \in A
  <2>1. g[base] = e
    <3>1. base \in 0..base BY <1>0
    <3>. QED BY <3>1, MovedBefore
  <2>2. Bodies(k[0]) = <<>>
    <3>1. DOMAIN <<>> = {} OBVIOUS
    <3>. QED BY <1>5, <3>1 DEF Bodies
  <2>3. base + 0 = base BY <1>0
  <2>. HIDE DEF g
  <2>. QED BY <1>0, <2>1, <2>2, <2>3, ThroughNothing
<1>. HIDE DEF T
<1>9. ASSUME NEW n \in 1..N, n - 1 \in A PROVE n \in A
  <2>. DEFINE q == k[n - 1]
  <2>0. n - 1 \in 0..N /\ n \in 0..N BY <1>0
  <2>1. q \in Seq({ops[i] : i \in DOMAIN ops \cap T}) BY <1>5, <2>0
  <2>2. IsSeq(q) /\ Len(q) \in Nat /\ DOMAIN q = 1..Len(q) BY <2>1, SeqIsSeq
  <2>3. \A i \in 1..Len(q) : q[i].body \in Edits BY <1>6, <2>1, <2>2
  <2>4. TransformReplaceThrough(e, Bodies(q)) = g[base + (n - 1)] BY <1>9
  <2>5. k[n] = IF n \in T THEN Append(q, ops[n]) ELSE q BY <1>5
  <2>. HIDE DEF q, g
  <2>6. CASE n \in T
    <3>1. Bodies(k[n]) = Append(Bodies(q), ops[n].body) BY <2>2, <2>5, <2>6, BodiesAppend
    <3>2. /\ IsSeq(Bodies(q)) /\ DOMAIN Bodies(q) = 1..Len(q)
          /\ \A i \in 1..Len(q) : Bodies(q)[i] \in Edits
      BY <2>2, <2>3, BodiesSeq
    <3>3. TransformReplaceThrough(e, Bodies(k[n]))
            = TransformReplace(TransformReplaceThrough(e, Bodies(q)), ops[n].body)
      BY <1>6, <2>6, <3>1, <3>2, ThroughOneMore
    <3>. QED BY <1>7, <2>0, <2>4, <2>6, <3>3
  <2>7. CASE n \notin T BY <1>7, <2>0, <2>4, <2>5, <2>7
  <2>. QED BY <2>6, <2>7
<1>10. N \in A
  <2>1. N \in 0..N BY <1>0
  <2>. HIDE DEF A
  <2>2. \A n \in 0..N : n \in A BY <1>0, <1>8, <1>9, UpTo
  <2>. QED BY <2>1, <2>2
<1>11. base + N = Len(l) BY <1>0
<1>. QED BY <1>4, <1>10, <1>11 DEF ops
-----------------------------------------------------------------------------
(* What an editor that has not gone astray shows *)

\* The server clamps a replace to the text.
Clamped(t, e) ==
    LET index == Smaller(e.index, Len(t))
    IN  Replace(index, Smaller(e.del, Len(t) - index), e.ins)

LEMMA ClampedInside ==
    ASSUME NEW t \in Text, NEW e \in Edits
    PROVE  /\ Clamped(t, e) \in Edits /\ Inside(t, Clamped(t, e))
           /\ Inside(t, e) => Clamped(t, e) = e
<1>1. Len(t) \in Nat BY TextFields
<1>2. e.index \in Nat /\ e.del \in Nat /\ e.ins \in Text BY EditFields
<1>. DEFINE i == Smaller(e.index, Len(t))
            d == Smaller(e.del, Len(t) - i)
<1>3. i \in Nat /\ d \in Nat /\ i + d <= Len(t) BY <1>1, <1>2 DEF Smaller
<1>4. e.index + e.del <= Len(t) => i = e.index /\ d = e.del BY <1>1, <1>2 DEF Smaller
<1>5. e = Replace(e.index, e.del, e.ins) BY DEF Edits, Replace
<1>6. Clamped(t, e) = Replace(i, d, e.ins) BY DEF Clamped
<1>. HIDE DEF i, d
<1>7. Clamped(t, e).index = i /\ Clamped(t, e).del = d BY <1>6 DEF Replace
<1>. QED BY <1>2, <1>3, <1>4, <1>5, <1>6, <1>7, ReplaceTyped DEF Inside

Unlogged(l, x, n) == \A m \in 1..Len(l) : l[m].cid = x => m > n
InLog(l, x)       == \E m \in 1..Len(l) : l[m].cid = x

\* The id and the replace of a change; the ones that latestSeq does not cover.
Change(p) == [cid |-> p.cid, body |-> p.body]
Unseen(l, n, ps) ==
    {Change(ps[i]) : i \in {k \in DOMAIN ps : LivePayload(ps[k]) /\ Unlogged(l, ps[k].cid, n)}}

LiveReq(r) == r.kind = "op" /\ r.type = "replace" /\ ~IsNoop(r.body)

\* The text t of the tab of user u whose latestSeq is n is the log's text at n
\* with the one change in U applied; a request in R that carries a change is in
\* the log, or is the change before the ops that it was moved over; and where
\* the log is ahead of n, the change is what the server has made of it.
AtMostOne(U) == \A p, q \in U : p = q

Shows(l, n, U, t) ==
    /\ U = {} => t = LogText(l)[n]
    /\ \A p \in U : /\ Inside(LogText(l)[n], p.body)
                    /\ t = ApplyReplace(LogText(l)[n], p.body)

Carried(l, n, U, R) ==
    \A r \in R : LiveReq(r) =>
        \/ InLog(l, r.cid)
        \/ \E p \in U : /\ p.cid = r.cid /\ r.base <= n
                        /\ Moved(l, r.base, r.body)[n] = p.body

Ahead(u, l, n, U) ==
    \A m \in 1..Len(l) : (l[m].user = u /\ l[m].type = "replace" /\ m > n) =>
        \E p \in U : /\ p.cid = l[m].cid
                     /\ l[m].body = Clamped(LogText(l)[m - 1], Moved(l, n, p.body)[m - 1])

Reflects(u, l, n, U, t, R) ==
    AtMostOne(U) /\ Shows(l, n, U, t) /\ Carried(l, n, U, R) /\ Ahead(u, l, n, U)

\* What these facts rest on.
LogInside(l) ==
    \A n \in 1..Len(l) : l[n].type = "replace" =>
        Inside(LogText(l)[n - 1], l[n].body) /\ ~IsNoop(l[n].body)

OwnOnce(u, l) ==
    \A m, n \in 1..Len(l) :
        (l[m].user = u /\ l[n].user = u /\ l[m].cid = l[n].cid) => m = n

OwnChanges(u, l, n, U) ==
    \A p \in U : /\ p.body \in Edits /\ ~IsNoop(p.body) /\ Unlogged(l, p.cid, n)
                 /\ \A m \in 1..Len(l) :
                      l[m].cid = p.cid => l[m].user = u /\ l[m].type = "replace"

ReqsOf(l, R) ==
    \A r \in R : LiveReq(r) => r.body \in Edits /\ r.base \in 0..Len(l)

\* latestSeq rises over entries of which only the tab's own change anything.
LEMMA SkipReflects ==
    ASSUME NEW u, NEW l, LogTyped(l), NEW m \in 0..Len(l), NEW n \in 0..m, NEW U, NEW t, NEW R,
           \A k \in (n + 1)..m : l[k].type = "replace" => l[k].user = u,
           OwnOnce(u, l), OwnChanges(u, l, n, U), ReqsOf(l, R), Reflects(u, l, n, U, t, R)
    PROVE  Reflects(u, l, m, {p \in U : Unlogged(l, p.cid, m)}, t, R)
<1>. DEFINE V == {p \in U : Unlogged(l, p.cid, m)}
<1>0. /\ Len(l) \in Nat /\ DOMAIN l = 1..Len(l) /\ n \in Nat /\ m \in Nat /\ n <= m
      /\ m <= Len(l) /\ n \in 0..Len(l)
  BY IsSeqDom DEF LogTyped
<1>1. AtMostOne(V) BY DEF Reflects, AtMostOne
<1>2. CASE NoReplace(l, n, m)
  <2>1. LogText(l)[m] = LogText(l)[n] /\ \A e \in Edits : Moved(l, n, e)[m] = e
    BY <1>2, NothingMoved
  <2>2. m \in n..m /\ m \in n..Len(l) BY <1>0
  <2>3. V = U
    <3>. SUFFICES ASSUME NEW p \in U PROVE Unlogged(l, p.cid, m)
      OBVIOUS
    <3>. SUFFICES ASSUME NEW k \in 1..Len(l), l[k].cid = p.cid PROVE k > m
      BY DEF Unlogged
    <3>1. k > n /\ l[k].type = "replace" BY DEF OwnChanges, Unlogged
    <3>. QED BY <1>0, <1>2, <3>1 DEF NoReplace
  <2>4. Shows(l, m, V, t) BY <2>1, <2>2, <2>3 DEF Reflects, Shows
  <2>5. Carried(l, m, V, R)
    <3>. SUFFICES ASSUME NEW r \in R, LiveReq(r), ~InLog(l, r.cid)
                  PROVE  \E p \in U : /\ p.cid = r.cid /\ r.base <= m
                                      /\ Moved(l, r.base, r.body)[m] = p.body
      BY <2>3 DEF Carried
    <3>1. PICK p \in U : /\ p.cid = r.cid /\ r.base <= n
                         /\ Moved(l, r.base, r.body)[n] = p.body
      BY DEF Reflects, Carried
    <3>2. r.body \in Edits /\ r.base \in 0..Len(l) /\ p.body \in Edits BY DEF ReqsOf, OwnChanges
    <3>3. r.base \in 0..n BY <1>0, <3>1, <3>2
    <3>4. Moved(l, n, p.body)[m] = Moved(l, r.base, r.body)[m]
      BY <1>0, <2>2, <3>1, <3>2, <3>3, MovedOn
    <3>5. Moved(l, n, p.body)[m] = p.body BY <2>1, <2>2, <3>2
    <3>6. r.base <= m BY <1>0, <3>2, <3>3
    <3>. QED BY <3>1, <3>4, <3>5, <3>6
  <2>6. Ahead(u, l, m, V)
    <3>. SUFFICES ASSUME NEW k \in 1..Len(l), l[k].user = u, l[k].type = "replace", k > m
                  PROVE  \E p \in U :
                           /\ p.cid = l[k].cid
                           /\ l[k].body = Clamped(LogText(l)[k - 1], Moved(l, m, p.body)[k - 1])
      BY <2>3 DEF Ahead
    <3>1. k > n BY <1>0
    <3>2. PICK p \in U :
            /\ p.cid = l[k].cid
            /\ l[k].body = Clamped(LogText(l)[k - 1], Moved(l, n, p.body)[k - 1])
      BY <3>1 DEF Reflects, Ahead
    <3>3. p.body \in Edits BY DEF OwnChanges
    <3>4. Moved(l, n, p.body)[m] = p.body BY <2>1, <2>2, <3>3
    <3>5. \A i \in m..Len(l) : Moved(l, m, p.body)[i] = Moved(l, n, p.body)[i]
      BY <1>0, <3>3, <3>4, MovedOn
    <3>6. k - 1 \in m..Len(l) BY <1>0
    <3>. QED BY <3>2, <3>5, <3>6
  <2>. QED BY <1>1, <2>4, <2>5, <2>6 DEF Reflects
<1>3. CASE ~NoReplace(l, n, m)
  <2>1. PICK k \in (n + 1)..m : l[k].type = "replace" BY <1>3 DEF NoReplace
  <2>2. k \in 1..Len(l) /\ l[k].user = u /\ k > n BY <1>0, <2>1
  <2>3. PICK p \in U : /\ p.cid = l[k].cid
                       /\ l[k].body = Clamped(LogText(l)[k - 1], Moved(l, n, p.body)[k - 1])
    BY <2>1, <2>2 DEF Reflects, Ahead
  <2>4. U = {p} BY DEF Reflects, AtMostOne
  <2>5. \A i \in 1..Len(l) : l[i].user = u /\ l[i].type = "replace" /\ i > n => i = k
    <3>. SUFFICES ASSUME NEW i \in 1..Len(l), l[i].user = u, l[i].type = "replace", i > n
                  PROVE  i = k
      OBVIOUS
    <3>1. l[i].cid = p.cid BY <2>4 DEF Reflects, Ahead
    <3>. QED BY <2>2, <2>3, <3>1 DEF OwnOnce
  <2>6. NoReplace(l, n, k - 1) BY <1>0, <2>2, <2>5 DEF NoReplace
  <2>7. k - 1 \in 0..Len(l) /\ n \in 0..(k - 1) /\ k \in 0..Len(l)
    BY <1>0, <2>2
  <2>8. p.body \in Edits BY DEF OwnChanges
  <2>9. LogText(l)[k - 1] = LogText(l)[n] /\ Moved(l, n, p.body)[k - 1] = p.body
    BY <2>6, <2>7, <2>8, NothingMoved
  <2>10. LogText(l)[n] \in Text BY <1>0, LogTextAt
  <2>11. Inside(LogText(l)[n], p.body) /\ t = ApplyReplace(LogText(l)[n], p.body)
    BY DEF Reflects, Shows
  <2>12. l[k].body = p.body BY <2>3, <2>8, <2>9, <2>10, <2>11, ClampedInside
  <2>13. LogText(l)[k] = t BY <2>1, <2>2, <2>9, <2>11, <2>12, LogTextAt
  <2>14. NoReplace(l, k, m) BY <1>0, <2>2, <2>5 DEF NoReplace
  <2>15. k \in 0..m BY <1>0, <2>2
  <2>16. LogText(l)[m] = LogText(l)[k] BY <2>14, <2>15, NothingMoved
  <2>17. V = {} BY <1>0, <2>2, <2>3, <2>4, <2>15 DEF Unlogged
  <2>18. Shows(l, m, V, t) BY <2>13, <2>16, <2>17 DEF Shows
  <2>19. Carried(l, m, V, R)
    <3>. SUFFICES ASSUME NEW r \in R, LiveReq(r) PROVE InLog(l, r.cid)
      BY DEF Carried
    <3>. QED BY <2>2, <2>3, <2>4 DEF Reflects, Carried, InLog
  <2>20. Ahead(u, l, m, V)
    <3>. SUFFICES ASSUME NEW i \in 1..Len(l), l[i].user = u, l[i].type = "replace", i > m
                  PROVE  FALSE
      BY DEF Ahead
    <3>. QED BY <1>0, <2>2, <2>5, <2>15
  <2>. QED BY <1>1, <2>18, <2>19, <2>20 DEF Reflects
<1>. QED BY <1>2, <1>3

\* A key: the editor's first change since latestSeq.
LEMMA EditReflects ==
    ASSUME NEW u, NEW l, LogTyped(l), NEW n \in 0..Len(l), NEW t, NEW R,
           Reflects(u, l, n, {}, t, R), NEW s \in Text, NEW x, NEW Q,
           \A r \in Q : r \in R \/ (LiveReq(r) => /\ r.cid = x /\ r.base = n
                                                  /\ r.body = DiffPlainText(t, s))
    PROVE  Reflects(u, l, n, {[cid |-> x, body |-> DiffPlainText(t, s)]}, s, Q)
<1>. DEFINE e == DiffPlainText(t, s)
            p == [cid |-> x, body |-> e]
            U == {p}
<1>0. n \in 0..n BY IsSeqDom DEF LogTyped
<1>1. t = LogText(l)[n] BY DEF Reflects, Shows
<1>2. t \in Text BY <1>1, LogTextAt
<1>3. e \in Edits /\ Inside(t, e) /\ ApplyReplace(t, e) = s BY <1>2, DiffMakesText
<1>4. p.cid = x /\ p.body = e OBVIOUS
<1>. HIDE DEF e, p
<1>5. AtMostOne(U) BY DEF AtMostOne
<1>6. Shows(l, n, U, s) BY <1>1, <1>3, <1>4 DEF Shows
<1>7. Carried(l, n, U, Q)
  <2>. SUFFICES ASSUME NEW r \in Q, LiveReq(r)
                PROVE  \/ InLog(l, r.cid)
                       \/ p.cid = r.cid /\ r.base <= n /\ Moved(l, r.base, r.body)[n] = p.body
    BY DEF Carried
  <2>1. CASE r \in R BY <2>1 DEF Reflects, Carried
  <2>2. CASE r \notin R
    <3>1. r.cid = x /\ r.base = n /\ r.body = e BY <2>2 DEF e
    <3>2. Moved(l, n, e)[n] = e BY <1>0, <1>3, MovedBefore
    <3>3. n <= n BY <1>0
    <3>. QED BY <1>4, <3>1, <3>2, <3>3
  <2>. QED BY <2>1, <2>2
<1>8. Ahead(u, l, n, U) BY DEF Reflects, Ahead
<1>. QED BY <1>5, <1>6, <1>7, <1>8 DEF Reflects, e, p

\* Requests are taken, lost, answered, or sent again for the change as it is.
LEMMA ReqsReflect ==
    ASSUME NEW u, NEW l, LogTyped(l), NEW n \in 0..Len(l), NEW U, NEW t, NEW R, NEW Q,
           Reflects(u, l, n, U, t, R), \A p \in U : p.body \in Edits,
           \A r \in Q : LiveReq(r) => \/ r \in R
                                      \/ InLog(l, r.cid)
                                      \/ \E p \in U : /\ p.cid = r.cid /\ r.base = n
                                                      /\ r.body = p.body
    PROVE  Reflects(u, l, n, U, t, Q)
<1>1. n \in 0..n /\ n <= n BY IsSeqDom DEF LogTyped
<1>2. \A p \in U : Moved(l, n, p.body)[n] = p.body BY <1>1, MovedBefore
<1>3. Carried(l, n, U, Q) BY <1>1, <1>2 DEF Reflects, Carried
<1>. QED BY <1>3 DEF Reflects

\* The changes, rebased over a replace.
Over(U, b) == {[cid |-> p.cid, body |-> TransformReplace(p.body, b)] : p \in U}

\* The op meets no change; and the text t becomes s by the op, rebased over the
\* change.
Apart(U, b) == \A p \in U : ~Meet(p.body, b)

Turns(t, U, b, s) ==
    /\ U = {} => s = DomApply(t, b)
    /\ \A p \in U : s = DomApply(t, TransformReplace(b, p.body))

\* An op of somebody else's is applied, rebased over the change.
LEMMA IngestReflects ==
    ASSUME NEW u, NEW l, LogTyped(l), LogInside(l), NEW m \in 1..Len(l), NEW U, NEW t, NEW R,
           Reflects(u, l, m - 1, U, t, R), OwnChanges(u, l, m - 1, U), ReqsOf(l, R),
           l[m].type = "replace", Apart(U, l[m].body), NEW s, Turns(t, U, l[m].body, s)
    PROVE  /\ Reflects(u, l, m, Over(U, l[m].body), s, R)
           /\ \A p \in U : ~IsNoop(TransformReplace(p.body, l[m].body))
<1>. DEFINE b == l[m].body
            T(p) == TransformReplace(p.body, b)
            V == {[cid |-> p.cid, body |-> T(p)] : p \in U}
            S == LogText(l)[m - 1]
<1>0. Len(l) \in Nat /\ DOMAIN l = 1..Len(l) /\ m - 1 \in 0..Len(l) /\ m \in 0..Len(l)
      /\ m - 1 \in Nat
  BY IsSeqDom DEF LogTyped
<1>1. b \in Edits /\ Inside(S, b) /\ ~IsNoop(b) BY <1>0 DEF LogTyped, BodyTyped, LogInside
<1>2. S \in Text /\ LogText(l)[m] = ApplyReplace(S, b) BY <1>0, LogTextAt
<1>3. \A p \in U : /\ p.body \in Edits /\ ~IsNoop(p.body) /\ ~Meet(p.body, b)
                   /\ Inside(S, p.body) /\ t = ApplyReplace(S, p.body)
                   /\ s = DomApply(t, TransformReplace(b, p.body))
  BY DEF OwnChanges, Reflects, Shows, Apart, Turns
<1>4. ASSUME NEW p \in U
      PROVE  /\ T(p) \in Edits /\ ~IsNoop(T(p)) /\ Inside(LogText(l)[m], T(p))
             /\ s = ApplyReplace(LogText(l)[m], T(p))
  <2>1. /\ Inside(ApplyReplace(S, b), T(p))
        /\ Inside(ApplyReplace(S, p.body), TransformReplace(b, p.body))
        /\ ApplyReplace(ApplyReplace(S, b), T(p))
             = ApplyReplace(ApplyReplace(S, p.body), TransformReplace(b, p.body))
        /\ ~IsNoop(T(p))
    BY <1>1, <1>2, <1>3, TransformsConverge
  <2>2. T(p) \in Edits /\ TransformReplace(b, p.body) \in Edits BY <1>1, <1>3, TransformTyped
  <2>3. t \in Text BY <1>2, <1>3, ApplyTyped
  <2>4. s = ApplyReplace(t, TransformReplace(b, p.body))
    BY <1>3, <2>1, <2>2, <2>3, DomApplyInside
  <2>. QED BY <1>2, <1>3, <2>1, <2>2, <2>4
<1>. HIDE DEF T, b, S
<1>5. AtMostOne(V) BY DEF Reflects, AtMostOne
<1>6. Shows(l, m, V, s)
  <2>1. ASSUME V = {} PROVE s = LogText(l)[m]
    <3>1. U = {} BY <2>1
    <3>2. t = S /\ s = DomApply(t, b) BY <3>1 DEF Reflects, Shows, Turns, b, S
    <3>. QED BY <1>1, <1>2, <3>2, DomApplyInside
  <2>2. ASSUME NEW q \in V
        PROVE  Inside(LogText(l)[m], q.body) /\ s = ApplyReplace(LogText(l)[m], q.body)
    BY <1>4
  <2>. QED BY <2>1, <2>2 DEF Shows
<1>7. ASSUME NEW a \in 0..(m - 1), NEW e \in Edits, NEW p \in U, Moved(l, a, e)[m - 1] = p.body
      PROVE  Moved(l, a, e)[m] = T(p)
  <2>1. m > a BY <1>0
  <2>. QED BY <1>7, <2>1, MovedAt DEF T, b
<1>11. ASSUME NEW p \in U PROVE \E q \in V : q.cid = p.cid /\ q.body = T(p)
  <2>. DEFINE q == [cid |-> p.cid, body |-> T(p)]
  <2>1. q \in V /\ q.cid = p.cid /\ q.body = T(p) OBVIOUS
  <2>. QED BY <2>1
<1>. HIDE DEF V
<1>8. Carried(l, m, V, R)
  <2>. SUFFICES ASSUME NEW r \in R, LiveReq(r), ~InLog(l, r.cid)
                PROVE  \E q \in V : /\ q.cid = r.cid /\ r.base <= m
                                    /\ Moved(l, r.base, r.body)[m] = q.body
    BY DEF Carried
  <2>1. PICK p \in U : /\ p.cid = r.cid /\ r.base <= m - 1
                       /\ Moved(l, r.base, r.body)[m - 1] = p.body
    BY DEF Reflects, Carried
  <2>2. r.body \in Edits /\ r.base \in 0..Len(l) BY DEF ReqsOf
  <2>3. r.base \in 0..(m - 1) /\ r.base <= m BY <1>0, <2>1, <2>2
  <2>4. Moved(l, r.base, r.body)[m] = T(p) BY <1>7, <2>1, <2>2, <2>3
  <2>5. PICK q \in V : q.cid = p.cid /\ q.body = T(p) BY <1>11
  <2>. QED BY <2>1, <2>3, <2>4, <2>5
<1>9. Ahead(u, l, m, V)
  <2>. SUFFICES ASSUME NEW k \in 1..Len(l), l[k].user = u, l[k].type = "replace", k > m
                PROVE  \E q \in V :
                         /\ q.cid = l[k].cid
                         /\ l[k].body = Clamped(LogText(l)[k - 1], Moved(l, m, q.body)[k - 1])
    BY DEF Ahead
  <2>1. k > m - 1 BY <1>0
  <2>2. PICK p \in U :
          /\ p.cid = l[k].cid
          /\ l[k].body = Clamped(LogText(l)[k - 1], Moved(l, m - 1, p.body)[k - 1])
    BY <2>1 DEF Reflects, Ahead
  <2>3. p.body \in Edits /\ T(p) \in Edits BY <1>3, <1>4
  <2>4. Moved(l, m - 1, p.body)[m - 1] = p.body /\ m - 1 \in 0..(m - 1)
    <3>1. m - 1 \in 0..(m - 1) BY <1>0
    <3>. QED BY <1>0, <2>3, <3>1, MovedBefore
  <2>5. Moved(l, m - 1, p.body)[m] = T(p) BY <1>7, <2>3, <2>4
  <2>6. m - 1 \in 0..m /\ k - 1 \in m..Len(l) BY <1>0
  <2>7. \A i \in m..Len(l) : Moved(l, m, T(p))[i] = Moved(l, m - 1, p.body)[i]
    BY <1>0, <2>3, <2>5, <2>6, MovedOn
  <2>8. PICK q \in V : q.cid = p.cid /\ q.body = T(p) BY <1>11
  <2>. QED BY <2>2, <2>6, <2>7, <2>8
<1>10. \A p \in U : ~IsNoop(T(p)) BY <1>4
<1>. QED BY <1>5, <1>6, <1>8, <1>9, <1>10 DEF Reflects, Over, T, b, V

\* The log grows: by an op of somebody else's, by one that changes nothing, or by
\* the change, which the server rebases as the editor does and clamps.
LEMMA GrowReflects ==
    ASSUME NEW u, NEW l, LogTyped(l), NEW e, LogTyped(Append(l, e)), NEW n \in 0..Len(l),
           NEW U, NEW t, NEW R, Reflects(u, l, n, U, t, R), OwnChanges(u, l, n, U), ReqsOf(l, R),
           e.user = u /\ e.type = "replace" =>
             \E r \in R : /\ LiveReq(r) /\ r.cid = e.cid /\ ~InLog(l, r.cid)
                          /\ e.body = Clamped(LogText(l)[Len(l)],
                                              Moved(l, r.base, r.body)[Len(l)])
    PROVE  Reflects(u, Append(l, e), n, U, t, R)
<1>. DEFINE k == Append(l, e)
            N == Len(l)
<1>0. IsSeq(l) /\ N \in Nat /\ n \in Nat /\ n <= N BY IsSeqDom DEF LogTyped
<1>1. /\ Len(k) = N + 1 /\ \A i \in 1..N : k[i] = l[i]
      /\ k[N + 1] = e
  BY <1>0, AppendIsSeq
<1>. HIDE DEF k
<1>2. LogTyped(k) /\ Extends(k, l) BY <1>0, <1>1 DEF Extends, k
<1>3. \A i \in 0..N : LogText(k)[i] = LogText(l)[i] BY <1>2, LogTextMono
<1>4. \A a : \A x \in Edits : \A i \in 0..N : Moved(k, a, x)[i] = Moved(l, a, x)[i]
  BY <1>2, MovedMono
<1>5. \A p \in U : p.body \in Edits BY DEF OwnChanges
<1>6. Shows(k, n, U, t) BY <1>3 DEF Reflects, Shows
<1>7. Carried(k, n, U, R)
  <2>. SUFFICES ASSUME NEW r \in R, LiveReq(r), ~InLog(k, r.cid)
                PROVE  \E p \in U : /\ p.cid = r.cid /\ r.base <= n
                                    /\ Moved(k, r.base, r.body)[n] = p.body
    BY DEF Carried
  <2>1. ~InLog(l, r.cid)
    <3>1. \A i \in 1..N : i \in 1..Len(k) /\ k[i] = l[i] BY <1>0, <1>1
    <3>. QED BY <3>1 DEF InLog
  <2>2. r.body \in Edits BY DEF ReqsOf
  <2>3. Moved(k, r.base, r.body)[n] = Moved(l, r.base, r.body)[n] BY <1>0, <1>4, <2>2
  <2>. QED BY <2>1, <2>3 DEF Reflects, Carried
<1>8. Ahead(u, k, n, U)
  <2>. SUFFICES ASSUME NEW m \in 1..(N + 1), k[m].user = u, k[m].type = "replace", m > n
                PROVE  \E p \in U :
                         /\ p.cid = k[m].cid
                         /\ k[m].body = Clamped(LogText(k)[m - 1], Moved(k, n, p.body)[m - 1])
    BY <1>1 DEF Ahead
  <2>0. m - 1 \in 0..N BY <1>0
  <2>1. LogText(k)[m - 1] = LogText(l)[m - 1]
        /\ \A p \in U : Moved(k, n, p.body)[m - 1] = Moved(l, n, p.body)[m - 1]
    BY <1>3, <1>4, <1>5, <2>0
  <2>2. CASE m \in 1..N
    <3>1. k[m] = l[m] BY <1>1, <2>2
    <3>. QED BY <2>1, <2>2, <3>1 DEF Reflects, Ahead
  <2>3. CASE m = N + 1
    <3>1. k[m] = e /\ m - 1 = N BY <1>0, <1>1, <2>3
    <3>2. PICK r \in R : /\ LiveReq(r) /\ r.cid = e.cid /\ ~InLog(l, r.cid)
                         /\ e.body = Clamped(LogText(l)[N], Moved(l, r.base, r.body)[N])
      BY <3>1
    <3>3. PICK p \in U : /\ p.cid = r.cid /\ r.base <= n
                         /\ Moved(l, r.base, r.body)[n] = p.body
      BY <3>2 DEF Reflects, Carried
    <3>4. r.body \in Edits /\ r.base \in 0..n /\ p.body \in Edits
      <4>1. r.body \in Edits /\ r.base \in 0..N BY <3>2 DEF ReqsOf
      <4>. QED BY <1>0, <1>5, <3>3, <4>1
    <3>5. \A i \in n..N : Moved(l, n, p.body)[i] = Moved(l, r.base, r.body)[i]
      BY <3>3, <3>4, MovedOn
    <3>6. N \in n..N BY <1>0
    <3>. QED BY <2>1, <3>1, <3>2, <3>3, <3>5, <3>6
  <2>. QED BY <1>0, <2>2, <2>3
<1>. QED BY <1>6, <1>7, <1>8 DEF Reflects, k

\* The editor has been handed all there is and has no change of its own left.
LEMMA AllReflected ==
    ASSUME NEW u, NEW l, LogTyped(l), NEW n \in 0..Len(l), NEW t, NEW R,
           Reflects(u, l, n, {}, t, R), \A k \in (n + 1)..Len(l) : l[k].user = u
    PROVE  t = LogText(l)[Len(l)]
<1>0. Len(l) \in Nat /\ Len(l) \in 0..Len(l) BY IsSeqDom DEF LogTyped
<1>1. NoReplace(l, n, Len(l))
  <2>. SUFFICES ASSUME NEW k \in (n + 1)..Len(l), l[k].type = "replace" PROVE FALSE
    BY DEF NoReplace
  <2>1. k \in 1..Len(l) /\ k > n BY <1>0
  <2>. QED BY <2>1 DEF Reflects, Ahead
<1>2. LogText(l)[Len(l)] = LogText(l)[n] BY <1>0, <1>1, NothingMoved
<1>. QED BY <1>2 DEF Reflects, Shows
-----------------------------------------------------------------------------
(* The entries that a filter of the pending ops keeps *)

Distinct(ps) == \A m, n \in DOMAIN ps : ps[m].cid = ps[n].cid => m = n

KeepsOf(q, s, n, T) ==
    /\ IsSeq(q) /\ \A i \in 1..n : i \in T => \E j \in DOMAIN q : q[j] = s[i]
    /\ \A j \in DOMAIN q : \E i \in 1..n : i \in T /\ q[j] = s[i]
    /\ Distinct(s) => Distinct(q)

LEMMA KeptKeeps ==
    ASSUME NEW s, IsSeq(s), NEW T
    PROVE  KeepsOf(Kept(s, T), s, Len(s), T)
<1>1. PICK k : KeptSteps(k, s, T) /\ Kept(s, T) = k[Len(s)] BY KeptRun
<1>. DEFINE N == Len(s)
            A == {n \in 0..N : KeepsOf(k[n], s, n, T)}
<1>0. N \in Nat /\ DOMAIN s = 1..N /\ N \in 0..N BY IsSeqDom
<1>2. k[0] = <<>> /\ \A n \in 1..N : k[n] = IF n \in T THEN Append(k[n - 1], s[n]) ELSE k[n - 1]
  BY <1>1 DEF KeptSteps
<1>. HIDE DEF N
<1>3. 0 \in A
  <2>1. IsSeq(<<>>) /\ DOMAIN <<>> = {} BY PairIsSeq
  <2>2. KeepsOf(<<>>, s, 0, T) BY <2>1 DEF KeepsOf, Distinct
  <2>. QED BY <1>0, <1>2, <2>2
<1>4. ASSUME NEW n \in 1..N, n - 1 \in A PROVE n \in A
  <2>. DEFINE q == k[n - 1]
              r == k[n]
  <2>0. n \in 0..N /\ n \in DOMAIN s /\ \A i \in 1..(n - 1) : i \in 1..n /\ i # n /\ i \in DOMAIN s
    BY <1>0
  <2>1. KeepsOf(q, s, n - 1, T) BY <1>4
  <2>2. r = IF n \in T THEN Append(q, s[n]) ELSE q BY <1>2
  <2>4. \A i \in 1..n : i = n \/ i \in 1..(n - 1) BY <1>0
  <2>. HIDE DEF q, r
  <2>5. IsSeq(q) /\ Len(q) \in Nat /\ DOMAIN q = 1..Len(q) BY <2>1, IsSeqDom DEF KeepsOf
  <2>6. CASE n \notin T
    <3>1. r = q BY <2>2, <2>6
    <3>2. \A i \in 1..n : i \in T => \E j \in DOMAIN q : q[j] = s[i] BY <2>1, <2>4, <2>6 DEF KeepsOf
    <3>3. \A j \in DOMAIN q : \E i \in 1..n : i \in T /\ q[j] = s[i] BY <2>0, <2>1 DEF KeepsOf
    <3>4. KeepsOf(r, s, n, T) BY <2>1, <3>1, <3>2, <3>3 DEF KeepsOf
    <3>. QED BY <2>0, <3>4 DEF r
  <2>7. CASE n \in T
    <3>1. /\ IsSeq(r) /\ DOMAIN r = 1..(Len(q) + 1)
          /\ \A i \in 1..Len(q) : r[i] = q[i]
          /\ r[Len(q) + 1] = s[n]
      BY <2>2, <2>5, <2>7, AppendIsSeq
    <3>2. \A j \in DOMAIN r : (j \in DOMAIN q /\ r[j] = q[j]) \/ (j = Len(q) + 1 /\ r[j] = s[n])
      BY <2>5, <3>1
    <3>3. \A i \in 1..n : i \in T => \E j \in DOMAIN r : r[j] = s[i]
      <4>1. Len(q) + 1 \in DOMAIN r /\ \A j \in DOMAIN q : j \in DOMAIN r /\ r[j] = q[j]
        BY <2>5, <3>1
      <4>2. \A i \in 1..(n - 1) : i \in T => \E j \in DOMAIN q : q[j] = s[i] BY <2>1 DEF KeepsOf
      <4>. QED BY <2>4, <3>1, <4>1, <4>2
    <3>4. \A j \in DOMAIN q : \E i \in 1..(n - 1) : i \in T /\ q[j] = s[i] BY <2>1 DEF KeepsOf
    <3>5. n \in 1..n BY <1>0
    <3>6. \A j \in DOMAIN r : \E i \in 1..n : i \in T /\ r[j] = s[i]
      BY <2>0, <2>7, <3>2, <3>4, <3>5
    <3>7. ASSUME Distinct(s) PROVE Distinct(r)
      <4>1. \A j \in DOMAIN q : q[j].cid # s[n].cid BY <2>0, <3>4, <3>7 DEF Distinct
      <4>2. Distinct(q) BY <2>1, <3>7 DEF KeepsOf
      <4>3. ASSUME NEW a \in DOMAIN r, NEW b \in DOMAIN r, r[a].cid = r[b].cid PROVE a = b
        <5>1. CASE r[a] = q[a] /\ a \in DOMAIN q
          <6>1. CASE b \in DOMAIN q /\ r[b] = q[b] BY <4>2, <4>3, <5>1, <6>1 DEF Distinct
          <6>2. CASE b = Len(q) + 1 /\ r[b] = s[n] BY <4>1, <4>3, <5>1, <6>2
          <6>. QED BY <3>2, <6>1, <6>2
        <5>2. CASE r[a] = s[n] /\ a = Len(q) + 1
          <6>1. CASE b \in DOMAIN q /\ r[b] = q[b] BY <4>1, <4>3, <5>2, <6>1
          <6>2. CASE b = Len(q) + 1 /\ r[b] = s[n] BY <5>2, <6>2
          <6>. QED BY <3>2, <6>1, <6>2
        <5>. QED BY <3>2, <5>1, <5>2
      <4>. QED BY <4>3 DEF Distinct
    <3>8. KeepsOf(r, s, n, T) BY <3>1, <3>3, <3>6, <3>7 DEF KeepsOf
    <3>. QED BY <2>0, <3>8 DEF r
  <2>. QED BY <2>6, <2>7
<1>5. \A n \in 0..N : n \in A
  <2>. HIDE DEF A
  <2>. QED BY <1>0, <1>3, <1>4, UpTo
<1>. QED BY <1>0, <1>1, <1>5 DEF N

\* A filter that keeps nothing, or one entry.
LEMMA KeptNone ==
    ASSUME NEW s, IsSeq(s), NEW T, \A n \in DOMAIN s : n \notin T
    PROVE  Kept(s, T) = <<>>
<1>1. DOMAIN s = 1..Len(s) BY IsSeqDom
<1>2. IsSeq(Kept(s, T)) /\ DOMAIN Kept(s, T) = {} BY <1>1, KeptKeeps DEF KeepsOf
<1>. DEFINE q == Kept(s, T)
<1>3. Len(q) \in Nat /\ DOMAIN q = 1..Len(q) /\ q \in Seq({q[i] : i \in DOMAIN q})
  BY <1>2, IsSeqDom DEF IsSeq
<1>. HIDE DEF q
<1>4. Len(q) = 0
  <2>1. 1..Len(q) = {} BY <1>2, <1>3 DEF q
  <2>. QED BY <1>3, <2>1
<1>5. q = <<>> BY <1>3, <1>4
<1>. QED BY <1>5 DEF q

LEMMA KeptOne ==
    ASSUME NEW s, IsSeq(s), NEW T, NEW i \in DOMAIN s, i \in T,
           \A n \in DOMAIN s : n \in T => n = i
    PROVE  Kept(s, T) = <<s[i]>>
<1>1. PICK k : KeptSteps(k, s, T) /\ Kept(s, T) = k[Len(s)] BY KeptRun
<1>. DEFINE N == Len(s)
<1>0. N \in Nat /\ DOMAIN s = 1..N BY IsSeqDom
<1>2. k[0] = <<>> /\ \A n \in 1..N : k[n] = IF n \in T THEN Append(k[n - 1], s[n]) ELSE k[n - 1]
  BY <1>1 DEF KeptSteps
<1>. HIDE DEF N
<1>3. i \in 1..N /\ i - 1 \in 0..N /\ 0 \in 0..(i - 1) /\ i \in 0..N /\ i - 1 \in Nat BY <1>0
<1>4. k[i - 1] = k[0]
  <2>. DEFINE j == i - 1
  <2>1. \A n \in (0 + 1)..j : k[n] = k[n - 1] BY <1>0, <1>2, <1>3
  <2>2. j \in Nat /\ 0 \in 0..j /\ j \in 0..j BY <1>3
  <2>. HIDE DEF j
  <2>3. \A n \in 0..j : k[n] = k[0] BY <2>1, <2>2, Steady
  <2>. QED BY <2>2, <2>3 DEF j
<1>5. k[i] = <<s[i]>>
  <2>1. k[i] = Append(<<>>, s[i]) BY <1>2, <1>3, <1>4
  <2>. QED BY <2>1
<1>6. k[N] = k[i]
  <2>1. \A n \in (i + 1)..N : k[n] = k[n - 1] BY <1>0, <1>2, <1>3
  <2>2. N \in i..N BY <1>0, <1>3
  <2>3. \A n \in i..N : k[n] = k[i] BY <1>0, <1>3, <2>1, Steady
  <2>. QED BY <2>2, <2>3
<1>. QED BY <1>1, <1>5, <1>6 DEF N
-----------------------------------------------------------------------------
(* What a handler does to the changes an editor has not seen in the log *)

LEMMA UnseenIn ==
    ASSUME NEW l, NEW n, NEW ps, NEW x
    PROVE  x \in Unseen(l, n, ps) <=>
             \E i \in DOMAIN ps : /\ x = Change(ps[i]) /\ LivePayload(ps[i])
                                  /\ Unlogged(l, ps[i].cid, n)
BY DEF Unseen

LEMMA ChangeFields ==
    ASSUME NEW p
    PROVE  Change(p).cid = p.cid /\ Change(p).body = p.body
BY DEF Change

\* The same ops, other bases and flags.
SameOps(q, ps) ==
    DOMAIN q = DOMAIN ps /\ \A n \in DOMAIN ps : /\ q[n].cid = ps[n].cid
                                                 /\ q[n].type = ps[n].type
                                                 /\ q[n].body = ps[n].body

LEMMA SameUnseen ==
    ASSUME NEW l, NEW n, NEW ps, NEW q, SameOps(q, ps)
    PROVE  Unseen(l, n, q) = Unseen(l, n, ps) /\ (Distinct(ps) => Distinct(q))
<1>1. \A i \in DOMAIN ps : Change(q[i]) = Change(ps[i]) /\ (LivePayload(q[i]) <=> LivePayload(ps[i]))
  BY DEF SameOps, Change, LivePayload
<1>2. {i \in DOMAIN q : LivePayload(q[i]) /\ Unlogged(l, q[i].cid, n)}
        = {i \in DOMAIN ps : LivePayload(ps[i]) /\ Unlogged(l, ps[i].cid, n)}
  BY <1>1 DEF SameOps
<1>3. Unseen(l, n, q) = Unseen(l, n, ps)
  <2>1. ASSUME NEW x PROVE x \in Unseen(l, n, q) <=> x \in Unseen(l, n, ps)
    BY <1>1, UnseenIn DEF SameOps
  <2>. QED BY <2>1
<1>4. Distinct(ps) => Distinct(q) BY DEF SameOps, Distinct
<1>. QED BY <1>3, <1>4

LEMMA UnseenWithout ==
    ASSUME NEW l, NEW n, NEW ps, IsSeq(ps), Distinct(ps), NEW x
    PROVE  LET q == Without(ps, x) IN
           /\ Unseen(l, n, q) = {p \in Unseen(l, n, ps) : p.cid # x}
           /\ IsSeq(q) /\ Distinct(q)
           /\ \A j \in DOMAIN q : \E i \in DOMAIN ps : q[j] = ps[i] /\ ps[i].cid # x
           /\ \A i \in DOMAIN ps : ps[i].cid # x => \E j \in DOMAIN q : q[j] = ps[i]
<1>. DEFINE T == {i \in DOMAIN ps : ps[i].cid # x}
            q == Without(ps, x)
<1>0. DOMAIN ps = 1..Len(ps) BY IsSeqDom
<1>1. KeepsOf(q, ps, Len(ps), T) BY KeptKeeps DEF Without
<1>. HIDE DEF q
<1>2. IsSeq(q) /\ Distinct(q) BY <1>1 DEF KeepsOf
<1>3. \A j \in DOMAIN q : \E i \in DOMAIN ps : q[j] = ps[i] /\ ps[i].cid # x
  BY <1>0, <1>1 DEF KeepsOf
<1>4. \A i \in DOMAIN ps : ps[i].cid # x => \E j \in DOMAIN q : q[j] = ps[i]
  BY <1>0, <1>1 DEF KeepsOf
<1>5. ASSUME NEW p PROVE p \in Unseen(l, n, q) <=> p \in Unseen(l, n, ps) /\ p.cid # x
  <2>1. ASSUME p \in Unseen(l, n, q) PROVE p \in Unseen(l, n, ps) /\ p.cid # x
    <3>1. PICK j \in DOMAIN q : /\ p = Change(q[j]) /\ LivePayload(q[j])
                                /\ Unlogged(l, q[j].cid, n)
      BY <2>1, UnseenIn
    <3>2. PICK i \in DOMAIN ps : q[j] = ps[i] /\ ps[i].cid # x BY <1>3
    <3>. QED BY <3>1, <3>2, UnseenIn, ChangeFields
  <2>2. ASSUME p \in Unseen(l, n, ps), p.cid # x PROVE p \in Unseen(l, n, q)
    <3>1. PICK i \in DOMAIN ps : /\ p = Change(ps[i]) /\ LivePayload(ps[i])
                                 /\ Unlogged(l, ps[i].cid, n)
      BY <2>2, UnseenIn
    <3>2. ps[i].cid # x BY <2>2, <3>1, ChangeFields
    <3>3. PICK j \in DOMAIN q : q[j] = ps[i] BY <1>4, <3>2
    <3>. QED BY <3>1, <3>3, UnseenIn
  <2>. QED BY <2>1, <2>2
<1>6. Unseen(l, n, q) = {p \in Unseen(l, n, ps) : p.cid # x} BY <1>5
<1>. QED BY <1>2, <1>3, <1>4, <1>6 DEF q

LEMMA UnseenAppend ==
    ASSUME NEW l, NEW n, NEW ps, IsSeq(ps), Distinct(ps), NEW p,
           \A i \in DOMAIN ps : ps[i].cid # p.cid
    PROVE  LET q == Append(ps, p) IN
           /\ ~LivePayload(p) => Unseen(l, n, q) = Unseen(l, n, ps)
           /\ LivePayload(p) /\ Unlogged(l, p.cid, n)
                => Unseen(l, n, q) = Unseen(l, n, ps) \cup {Change(p)}
           /\ IsSeq(q) /\ Distinct(q)
           /\ \A j \in DOMAIN q : (j \in DOMAIN ps /\ q[j] = ps[j]) \/ q[j] = p
<1>. DEFINE q == Append(ps, p)
            N == Len(ps)
<1>0. N \in Nat /\ DOMAIN ps = 1..N BY IsSeqDom
<1>1. /\ IsSeq(q) /\ DOMAIN q = 1..(N + 1)
      /\ \A i \in 1..N : q[i] = ps[i]
      /\ q[N + 1] = p
  BY AppendIsSeq
<1>. HIDE DEF q, N
<1>2. N + 1 \in DOMAIN q /\ \A i \in DOMAIN ps : i \in DOMAIN q /\ q[i] = ps[i] BY <1>0, <1>1
<1>3. \A j \in DOMAIN q : (j \in DOMAIN ps /\ q[j] = ps[j]) \/ (j = N + 1 /\ q[j] = p)
  BY <1>0, <1>1
<1>4. Distinct(q)
  <2>. SUFFICES ASSUME NEW a \in DOMAIN q, NEW b \in DOMAIN q, q[a].cid = q[b].cid PROVE a = b
    BY DEF Distinct
  <2>1. CASE a \in DOMAIN ps /\ q[a] = ps[a]
    <3>1. CASE b \in DOMAIN ps /\ q[b] = ps[b] BY <2>1, <3>1 DEF Distinct
    <3>2. CASE q[b] = p BY <2>1, <3>2
    <3>. QED BY <1>3, <3>1, <3>2
  <2>2. CASE a = N + 1 /\ q[a] = p
    <3>1. CASE b \in DOMAIN ps /\ q[b] = ps[b] BY <2>2, <3>1
    <3>2. CASE b = N + 1 BY <2>2, <3>2
    <3>. QED BY <1>3, <3>1, <3>2
  <2>. QED BY <1>3, <2>1, <2>2
<1>5. ASSUME NEW x
      PROVE  x \in Unseen(l, n, q) <=>
               x \in Unseen(l, n, ps) \/ (x = Change(p) /\ LivePayload(p) /\ Unlogged(l, p.cid, n))
  BY <1>1, <1>2, <1>3, UnseenIn
<1>. QED BY <1>1, <1>3, <1>4, <1>5 DEF q

\* rebasePendingThroughRemote: with a replace, when no change is in the log yet.
LEMMA UnseenThrough ==
    ASSUME NEW l, NEW n, NEW ps, IsSeq(ps), NEW op,
           op.type = "replace" =>
             \A i \in DOMAIN ps : LivePayload(ps[i]) =>
               /\ Unlogged(l, ps[i].cid, n)
               /\ ~IsNoop(TransformReplace(ps[i].body, op.body))
    PROVE  LET q == Through(ps, op) IN
           /\ op.type # "replace" => SameOps(q, ps)
           /\ op.type = "replace" =>
                Unseen(l, n, q) = Over(Unseen(l, n, ps), op.body)
           /\ IsSeq(q) /\ DOMAIN q = DOMAIN ps
           /\ \A i \in DOMAIN ps : q[i].cid = ps[i].cid /\ q[i].type = ps[i].type
           /\ \A i \in DOMAIN ps : ~LivePayload(ps[i]) => q[i] = ps[i]
<1>. DEFINE q == Through(ps, op)
            T(b) == TransformReplace(b, op.body)
            U == Unseen(l, n, ps)
            V == {[cid |-> p.cid, body |-> T(p.body)] : p \in U}
<1>0. Len(ps) \in Nat /\ DOMAIN ps = 1..Len(ps) BY IsSeqDom
<1>1. q = [i \in 1..Len(ps) |-> q[i]] BY <1>0 DEF Through
<1>2. IsSeq(q) /\ DOMAIN q = DOMAIN ps BY <1>0, <1>1, FunIsSeq
<1>3. \A i \in DOMAIN ps :
        /\ q[i].cid = ps[i].cid /\ q[i].type = ps[i].type
        /\ q[i].body = IF op.type # "replace" \/ ~LivePayload(ps[i]) THEN ps[i].body
                       ELSE T(ps[i].body)
        /\ ~LivePayload(ps[i]) => q[i] = ps[i]
  BY DEF Through, MkPending
<1>. HIDE DEF q, T, U
<1>4. op.type # "replace" => SameOps(q, ps) BY <1>2, <1>3 DEF SameOps
<1>5. ASSUME op.type = "replace" PROVE Unseen(l, n, q) = V
  <2>1. \A i \in DOMAIN ps : LivePayload(ps[i]) =>
          /\ Unlogged(l, ps[i].cid, n) /\ LivePayload(q[i])
          /\ Change(q[i]) = [cid |-> ps[i].cid, body |-> T(ps[i].body)]
    BY <1>3, <1>5 DEF LivePayload, Change, T
  <2>2. \A i \in DOMAIN ps : ~LivePayload(ps[i]) => ~LivePayload(q[i]) BY <1>3
  <2>3. ASSUME NEW x \in Unseen(l, n, q) PROVE x \in V
    <3>1. PICK i \in DOMAIN q : x = Change(q[i]) /\ LivePayload(q[i]) BY UnseenIn
    <3>2. LivePayload(ps[i]) BY <1>2, <2>2, <3>1
    <3>3. Change(ps[i]) \in U BY <1>2, <2>1, <3>2, UnseenIn DEF U
    <3>4. x = [cid |-> ps[i].cid, body |-> T(ps[i].body)] BY <1>2, <2>1, <3>1, <3>2
    <3>. QED BY <3>3, <3>4, ChangeFields
  <2>4. ASSUME NEW p \in U PROVE [cid |-> p.cid, body |-> T(p.body)] \in Unseen(l, n, q)
    <3>1. PICK i \in DOMAIN ps : p = Change(ps[i]) /\ LivePayload(ps[i]) BY UnseenIn DEF U
    <3>2. p.cid = ps[i].cid /\ p.body = ps[i].body BY <3>1, ChangeFields
    <3>3. Unlogged(l, q[i].cid, n) BY <1>3, <2>1, <3>1
    <3>. QED BY <1>2, <2>1, <3>1, <3>2, <3>3, UnseenIn
  <2>. QED BY <2>3, <2>4
<1>. QED BY <1>2, <1>3, <1>4, <1>5 DEF Over, q, T, U

\* rebaseRemoteAgainstPending: over the one change there is, if there is one.
LEMMA AgainstUnseen ==
    ASSUME NEW l, NEW n, NEW ps, IsSeq(ps), Distinct(ps), NEW op, op.body \in Edits,
           \A i \in DOMAIN ps : LivePayload(ps[i]) => /\ ps[i].body \in Edits
                                                      /\ Unlogged(l, ps[i].cid, n),
           AtMostOne(Unseen(l, n, ps))
    PROVE  /\ Unseen(l, n, ps) = {} => Against(op, ps) = op.body
           /\ \A p \in Unseen(l, n, ps) : Against(op, ps) = TransformReplace(op.body, p.body)
<1>. DEFINE T == {i \in DOMAIN ps : LivePayload(ps[i])}
            live == Kept(ps, T)
            bodies == [i \in DOMAIN live |-> live[i].body]
<1>1. Against(op, ps) = TransformReplaceThrough(op.body, bodies) BY DEF Against
<1>2. \A i \in T : Change(ps[i]) \in Unseen(l, n, ps) BY UnseenIn
<1>. HIDE DEF bodies
<1>3. ASSUME Unseen(l, n, ps) = {} PROVE Against(op, ps) = op.body
  <2>1. T = {} BY <1>2, <1>3
  <2>. HIDE DEF T
  <2>2. live = <<>> BY <2>1, KeptNone
  <2>3. DOMAIN <<>> = {} OBVIOUS
  <2>4. bodies = <<>> BY <2>2, <2>3 DEF bodies
  <2>. QED BY <1>1, <2>4, ThroughNothing
<1>4. ASSUME NEW p \in Unseen(l, n, ps) PROVE Against(op, ps) = TransformReplace(op.body, p.body)
  <2>1. PICK i \in DOMAIN ps : p = Change(ps[i]) /\ LivePayload(ps[i]) BY UnseenIn
  <2>2. i \in T BY <2>1
  <2>3. ASSUME NEW k \in DOMAIN ps, k \in T PROVE k = i
    <3>1. Change(ps[k]) = p BY <1>2, <2>3 DEF AtMostOne
    <3>2. ps[k].cid = ps[i].cid BY <2>1, <3>1, ChangeFields
    <3>. QED BY <3>2 DEF Distinct
  <2>4. p.body = ps[i].body /\ ps[i].body \in Edits BY <2>1, ChangeFields
  <2>. HIDE DEF T
  <2>5. live = <<ps[i]>> BY <2>2, <2>3, KeptOne
  <2>6. Bodies(Append(<<>>, ps[i])) = Append(Bodies(<<>>), ps[i].body) BY PairIsSeq, BodiesAppend
  <2>7. Bodies(<<>>) = <<>>
    <3>1. DOMAIN <<>> = {} OBVIOUS
    <3>. QED BY <3>1 DEF Bodies
  <2>8. bodies = Append(<<>>, ps[i].body)
    <3>1. live = Append(<<>>, ps[i]) BY <2>5
    <3>. QED BY <2>6, <2>7, <3>1 DEF bodies, Bodies
  <2>9. IsSeq(<<>>) /\ DOMAIN <<>> = {} BY PairIsSeq
  <2>10. TransformReplaceThrough(op.body, Append(<<>>, ps[i].body))
           = TransformReplace(TransformReplaceThrough(op.body, <<>>), ps[i].body)
    BY <2>4, <2>9, ThroughOneMore
  <2>. QED BY <1>1, <2>4, <2>8, <2>10, ThroughNothing
<1>. QED BY <1>3, <1>4
-----------------------------------------------------------------------------
(* The invariant, part 1: the session's text is the one its log makes *)

\* Unless every tab has gone astray.  A copy of the current version is current.
TextOK == clash # Tabs =>
    session.text = LogText(session.log)[Len(session.log)] /\ LogInside(session.log)

CopiesOK ==
    \A j \in jobs : (j.at = "read" /\ j.req.kind \in Writes /\ j.ses.version = session.version)
                       => j.ses = session

ServerOK == TextOK /\ CopiesOK

LEMMA InitServer == Init => ServerOK
<1>. SUFFICES ASSUME Init PROVE ServerOK OBVIOUS
<1>1. session.text = Seed /\ session.log = <<>> /\ jobs = {} BY DEF Init, MkSession
<1>2. LogTyped(<<>>) /\ Len(<<>>) = 0 BY PairIsSeq DEF LogTyped
<1>3. LogText(<<>>)[0] = Seed BY <1>2, LogTextAt
<1>4. LogInside(<<>>) BY <1>2 DEF LogInside
<1>. QED BY <1>1, <1>2, <1>3, <1>4 DEF ServerOK, TextOK, CopiesOK

\* A job goes on under another name.
SameJob(j, i) == j.at = i.at /\ j.req = i.req /\ j.ses = i.ses

\* The session stays and so do the copies of it.
LEMMA ServerCalm ==
    ASSUME ServerOK, session' = session, clash \subseteq clash', clash' \subseteq Tabs,
           \A j \in jobs' : \/ j \in jobs \/ j.at # "read" \/ j.req.kind \notin Writes
                           \/ j.ses = session \/ \E i \in jobs : SameJob(j, i)
    PROVE  ServerOK'
<1>1. TextOK' BY DEF ServerOK, TextOK
<1>2. CopiesOK' BY DEF ServerOK, CopiesOK, SameJob
<1>. QED BY <1>1, <1>2 DEF ServerOK

\* Everything a tab does.
LEMMA TabServer ==
    ASSUME NEW c \in Tabs, Client(c)
    PROVE  /\ session' = session /\ clash \subseteq clash'
           /\ \A j \in jobs' : j \in jobs \/ j.at = "new" \/ \E i \in jobs : SameJob(j, i)
<1>0. \A via, req : Job(c, via, req).at = "new" BY DEF Job, MkJob
<1>1. \A type, body : SubmitOp(c, type, body) => \A j \in jobs' : j \in jobs \/ j.at = "new"
  BY <1>0 DEF SubmitOp, Sends, Http
<1>2. \A lk, ops : Presents(c, lk, ops) => \A j \in jobs' : j \in jobs \/ j.at = "new"
  BY <1>0 DEF Presents, Http
<1>3. CASE Start(c) BY <1>0, <1>3 DEF Start, Http
<1>4. CASE Edit(c)
  <2>1. PICK i \in 0..Len(dom[c]), key \in plan.keys :
          /\ SubmitOp(c, "replace", DiffPlainText(dom[c], dom'[c]))
          /\ clash' = clash \cup {x \in {c} : Unconfirmed(c)}
          /\ UNCHANGED <<session, replies, down, conn, polling, seqVars, refs, lock,
                         peers, presence, todo, failed, plan, beats, faults>>
    BY <1>4 DEF Edit
  <2>. QED BY <1>1, <2>1
<1>5. CASE FullSync(c) BY <1>1, <1>5 DEF FullSync
<1>6. CASE FormatRetry(c) BY <1>1, <1>6 DEF FormatRetry
<1>7. CASE MoveCaret(c)
  <2>1. session' = session /\ clash' = clash BY <1>7 DEF MoveCaret
  <2>2. \E lk, ops : Presents(c, lk, ops) BY <1>7 DEF MoveCaret
  <2>. QED BY <1>2, <2>1, <2>2
<1>8. CASE ReleaseLock(c) BY <1>2, <1>8 DEF ReleaseLock
<1>9. CASE FlushPresence(c) BY <1>0, <1>9 DEF FlushPresence, Http
<1>10. CASE Open(c) BY <1>10 DEF Open, serverVars
<1>11. CASE Drop(c)
  <2>1. session' = session /\ clash' = clash BY <1>11 DEF Drop
  <2>2. ASSUME NEW j \in Orphans(c) PROVE j \in jobs /\ SameJob(Orphan(j), j)
    BY OrphanFields DEF Orphans, SameJob
  <2>3. GetOps(c).at = "new" /\ Orphan(Frame(c)).at = "new" BY <1>0, ReceivedFields DEF GetOps, Http
  <2>4. \A j \in jobs' : j \in jobs \/ j.at = "new" \/ \E i \in jobs : SameJob(j, i)
    BY <1>11, <2>2, <2>3, DropJobs
  <2>. QED BY <2>1, <2>4
<1>12. CASE Poll(c) BY <1>0, <1>12 DEF Poll, GetOps, Http
<1>13. CASE LoseHttp(c) BY <1>13 DEF LoseHttp
<1>14. CASE Stop(c) BY <1>14 DEF Stop, serverVars
<1>15. CASE Receive(c) BY <1>15 DEF Receive, serverVars
<1>. QED BY <1>3, <1>4, <1>5, <1>6, <1>7, <1>8, <1>9, <1>10, <1>11, <1>12, <1>13, <1>14, <1>15
         DEF Client

LEMMA HandlerServer ==
    ASSUME Handler
    PROVE  session' = session /\ clash \subseteq clash' /\ \A j \in jobs' : j \in jobs \/ j.at = "new"
<1>1. CASE StepOp
  <2>1. clash' = clash \/ \E c, it : IngestOp(c, it) BY <1>1 DEF StepOp
  <2>2. clash \subseteq clash' BY <2>1 DEF IngestOp
  <2>. QED BY <1>1, <2>2 DEF StepOp, serverVars
<1>2. CASE StepSession BY <1>2 DEF StepSession, serverVars
<1>3. CASE StepError BY <1>3 DEF StepError, serverVars
<1>4. ASSUME NEW r \in replies, Answer(r)
      PROVE  session' = session /\ clash \subseteq clash' /\ jobs' = jobs
  BY <1>4 DEF Answer
<1>5. ASSUME NEW r \in replies, AnswerFailed(r)
      PROVE  /\ session' = session /\ clash \subseteq clash'
             /\ \A j \in jobs' : j \in jobs \/ j.at = "new"
  <2>1. session' = session /\ clash' = clash BY <1>5 DEF AnswerFailed
  <2>2. jobs' = jobs \/ \E f : Sends(r.tab, f) BY <1>5 DEF AnswerFailed
  <2>. QED BY <2>1, <2>2 DEF Sends, Http, Job, MkJob
<1>. QED BY <1>1, <1>2, <1>3, <1>4, <1>5 DEF Handler

LEMMA RebasedFields ==
    ASSUME NEW s, LogTyped(s.log), s.text \in Text, NEW req, req.body \in Edits
    PROVE  LET through == TransformReplaceThrough(req.body, Replaces(OpsAfter(s, req.base)))
           IN  /\ through \in Edits /\ Rebased(s, req) = Clamped(s.text, through)
               /\ Rebased(s, req) \in Edits /\ Inside(s.text, Rebased(s, req))
<1>. DEFINE e == TransformReplaceThrough(req.body, Replaces(OpsAfter(s, req.base)))
<1>1. LogTyped(OpsAfter(s, req.base))
  <2>1. LET ops == OpsAfter(s, req.base) IN
          IsSeq(ops) /\ \A n \in DOMAIN ops : \E m \in DOMAIN s.log : ops[n] = s.log[m]
    BY OpsAfterOf DEF LogTyped
  <2>. QED BY <2>1 DEF LogTyped
<1>2. e \in Edits BY <1>1, ReplacesTyped, ThroughTyped
<1>3. Rebased(s, req) = Clamped(s.text, e) BY DEF Rebased, Clamped
<1>. HIDE DEF e
<1>. QED BY <1>2, <1>3, ClampedInside DEF e

\* The entry that a saved op becomes.
Entry(j) == Op(Len(session.log) + 1, UserOf[j.tab], j.req.cid, j.req.type,
               BodyOf(session, j.req))

Commits(j) ==
    /\ j \in jobs /\ j.req.kind = "op" /\ j.ses = session /\ session' = Outcome(j)
    /\ Verdict(session, UserOf[j.tab], j.req) = "ok" /\ clash' = clash \cup AstrayBySave(j)

LEMMA EntryFields ==
    ASSUME NEW j
    PROVE  /\ Entry(j).user = UserOf[j.tab] /\ Entry(j).cid = j.req.cid
           /\ Entry(j).type = j.req.type /\ Entry(j).body = BodyOf(session, j.req)
BY DEF Entry, Op

LEMMA CommitLog ==
    ASSUME Inv, Traffic, Typed, NEW j, Commits(j)
    PROVE  /\ session'.log = Append(session.log, Entry(j))
           /\ session'.text = TextAfter(session, j.req.type, BodyOf(session, j.req))
           /\ j.req.base \in 0..Len(session.log)
           /\ j.req.type = "replace" =>
                /\ j.req.body \in Edits /\ ~IsNoop(j.req.body)
                /\ BodyOf(session, j.req) = Rebased(session, j.req)
                /\ ~IsNoop(Rebased(session, j.req))
           /\ j.req.type = "format_commit" => j.req.body.text = session.text
<1>. DEFINE u == UserOf[j.tab]
            r == j.req
            s == session
<1>1. session' = Applied(s, u, r) BY DEF Commits, Outcome
<1>2. session'.log = Append(session.log, Entry(j))
      /\ session'.text = TextAfter(s, r.type, BodyOf(s, r))
  BY <1>1 DEF Applied, MkSession, Entry
<1>3. r.base \in 0..Len(s.log) BY DEF Commits, Traffic, JobReqsOK, GoodReq
<1>4. r.base <= Len(s.log) /\ ~(r.base > Len(s.log))
  <2>1. Len(s.log) \in Nat BY IsSeqDom DEF Inv, LogOK
  <2>. QED BY <1>3, <2>1
<1>5. Verdict(s, u, r) = "ok" BY DEF Commits
<1>6. ASSUME r.type = "replace"
      PROVE  /\ r.body \in Edits /\ ~IsNoop(r.body) /\ BodyOf(s, r) = Rebased(s, r)
             /\ ~IsNoop(Rebased(s, r))
  <2>1. r.body \in Edits BY <1>6 DEF Commits, Typed, JobsTyped, JobTyped, ReqTyped, BodyTyped
  <2>2. BodyOf(s, r) = Rebased(s, r) BY <1>6 DEF BodyOf
  <2>. HIDE DEF s, r, u
  <2>3. ~IsNoop(r.body) /\ ~IsNoop(Rebased(s, r)) BY <1>4, <1>5, <1>6 DEF Verdict
  <2>. QED BY <2>1, <2>2, <2>3
<1>7. ASSUME r.type = "format_commit" PROVE r.body.text = s.text
  <2>. HIDE DEF s, r, u
  <2>. QED BY <1>4, <1>5, <1>7 DEF Verdict
<1>. QED BY <1>2, <1>3, <1>6, <1>7

LEMMA CommitText ==
    ASSUME Inv, Traffic, Typed, ServerOK, NEW j, Commits(j), LogTyped(session'.log),
           clash \subseteq clash', clash' \subseteq Tabs
    PROVE  TextOK'
<1>. DEFINE l == session.log
            k == session'.log
            N == Len(l)
            b == BodyOf(session, j.req)
            e == Entry(j)
<1>. SUFFICES ASSUME clash' # Tabs
              PROVE  session'.text = LogText(k)[Len(k)] /\ LogInside(k)
  BY DEF TextOK
<1>1. session.text = LogText(l)[N] /\ LogInside(l) BY DEF ServerOK, TextOK
<1>2. IsSeq(l) /\ N \in Nat /\ LogTyped(l) /\ session.text \in Text
  BY IsSeqDom DEF Inv, LogOK, Typed, SessionTyped, CopyTyped
<1>3. /\ k = Append(l, e) /\ session'.text = TextAfter(session, j.req.type, b)
      /\ j.req.type = "replace" => /\ j.req.body \in Edits /\ b = Rebased(session, j.req)
                                   /\ ~IsNoop(Rebased(session, j.req))
      /\ j.req.type = "format_commit" => j.req.body.text = session.text
  BY CommitLog
<1>4. Len(k) = N + 1 /\ (\A i \in 1..N : k[i] = l[i]) /\ k[N + 1] = e
  BY <1>2, <1>3, AppendIsSeq
<1>5. e.type = j.req.type /\ e.body = b BY EntryFields
<1>6. LogTyped(k) /\ Extends(k, l) BY <1>2, <1>4 DEF Extends
<1>7. \A i \in 0..N : LogText(k)[i] = LogText(l)[i] BY <1>2, <1>6, LogTextMono
<1>8. LogText(k)[N] = session.text
  <2>1. N \in 0..N BY <1>2
  <2>. QED BY <1>1, <1>7, <2>1
<1>9. LogText(k)[N + 1] = IF e.type = "replace" THEN ApplyReplace(session.text, b)
                          ELSE session.text
  <2>1. N + 1 \in 1..Len(k) /\ (N + 1) - 1 = N BY <1>2, <1>4
  <2>. HIDE DEF k, b, e, N
  <2>. DEFINE n == N + 1
  <2>2. n \in 1..Len(k) /\ n - 1 = N BY <2>1
  <2>. HIDE DEF n
  <2>3. LogText(k)[n] = IF k[n].type = "replace" THEN ApplyReplace(LogText(k)[n - 1], k[n].body)
                        ELSE LogText(k)[n - 1]
    BY <1>6, <2>2, LogTextAt
  <2>. QED BY <1>4, <1>5, <1>8, <2>2, <2>3 DEF n
<1>10. session'.text = LogText(k)[Len(k)]
  <2>1. TextAfter(session, j.req.type, b)
          = IF j.req.type = "replace" THEN ApplyReplace(session.text, b) ELSE session.text
    <3>1. j.req.type = "format_commit" => b = j.req.body BY DEF BodyOf
    <3>. QED BY <1>3, <3>1 DEF TextAfter
  <2>. HIDE DEF k, b, e, N
  <2>. QED BY <1>3, <1>4, <1>5, <1>9, <2>1
<1>11. LogInside(k)
  <2>. SUFFICES ASSUME NEW n \in 1..(N + 1), k[n].type = "replace"
                PROVE  Inside(LogText(k)[n - 1], k[n].body) /\ ~IsNoop(k[n].body)
    BY <1>4 DEF LogInside
  <2>1. CASE n \in 1..N
    <3>1. k[n] = l[n] /\ n - 1 \in 0..N BY <1>2, <1>4, <2>1
    <3>. QED BY <1>1, <1>7, <2>1, <3>1 DEF LogInside
  <2>2. CASE n = N + 1
    <3>1. k[n] = e /\ n - 1 = N BY <1>2, <1>4, <2>2
    <3>2. j.req.type = "replace" BY <1>5, <3>1
    <3>3. Inside(session.text, Rebased(session, j.req)) BY <1>2, <1>3, <3>2, RebasedFields
    <3>. QED BY <1>3, <1>5, <1>8, <3>1, <3>2, <3>3
  <2>. QED BY <1>2, <2>1, <2>2
<1>. QED BY <1>10, <1>11

LEMMA SaveServer ==
    ASSUME Inv, Traffic, Typed, ServerOK, NEW j \in jobs, SaveSession(j), Typed'
    PROVE  ServerOK'
<1>0. clash \subseteq clash' /\ clash' \subseteq Tabs /\ LogTyped(session'.log)
      /\ j.at = "read" /\ j.req.kind \in Writes
  BY DEF SaveSession, Typed, HistoryTyped, SessionTyped, CopyTyped
<1>1. CASE session.version # j.ses.version
  <2>1. session' = session BY <1>1 DEF SaveSession
  <2>2. \A k \in jobs' : k \in jobs \/ k.at = "new"
    BY <1>1 DEF SaveSession, Turned, MkJob
  <2>. QED BY <1>0, <2>1, <2>2, ServerCalm
<1>2. CASE session.version = j.ses.version
  <2>1. /\ session' = Outcome(j) /\ clash' = clash \cup AstrayBySave(j)
        /\ jobs' = (jobs \ {j}) \cup {Turned(j, "saved", Outcome(j), j.tries)}
    BY <1>2 DEF SaveSession
  <2>2. j.ses = session BY <1>0, <1>2 DEF ServerOK, CopiesOK
  <2>3. session'.version = session.version + 1
    BY <1>0, <2>1, <2>2 DEF Outcome, Beaten, Joined, Applied, MkSession
  <2>4. CopiesOK'
    <3>. SUFFICES ASSUME NEW k \in jobs', k.at = "read", k.req.kind \in Writes,
                         k.ses.version = session'.version
                  PROVE  FALSE
      BY DEF CopiesOK
    <3>1. k \in jobs BY <2>1 DEF Turned, MkJob
    <3>2. k.ses.version \in Nat /\ k.ses.version <= session.version BY <3>1 DEF Inv, JobsOK, JobOK
    <3>3. session.version \in Nat BY DEF Inv, LogOK
    <3>. QED BY <2>3, <3>2, <3>3
  <2>5. CASE j.req.kind = "op"
    <3>1. Verdict(session, UserOf[j.tab], j.req) = "ok" BY <2>2, <2>5 DEF SaveSession
    <3>2. Commits(j) BY <2>1, <2>2, <2>5, <3>1 DEF Commits
    <3>. QED BY <1>0, <2>4, <3>2, CommitText DEF ServerOK
  <2>6. CASE j.req.kind # "op"
    <3>1. session'.log = session.log
      BY <1>0, <2>1, <2>2, <2>6 DEF Outcome, Beaten, Joined, MkSession, Writes
    <3>2. ASSUME clash' # Tabs PROVE session'.text = session.text
      <4>1. CASE j.req.kind = "heartbeat" BY <2>1, <2>2, <4>1 DEF Outcome, Beaten, MkSession
      <4>2. CASE j.req.kind = "join"
        <5>1. session'.text = IF session.text = <<>> THEN j.req.seed ELSE session.text
          BY <2>1, <2>2, <4>2 DEF Outcome, Joined, MkSession
        <5>2. AstrayBySave(j) = {x \in Tabs : session.text = <<>> /\ j.req.seed # <<>>}
          BY <2>2, <4>2 DEF AstrayBySave
        <5>3. ~(session.text = <<>> /\ j.req.seed # <<>>) BY <1>0, <2>1, <3>2, <5>2
        <5>. QED BY <5>1, <5>3
      <4>. QED BY <1>0, <2>6, <4>1, <4>2 DEF Writes
    <3>3. TextOK' BY <1>0, <3>1, <3>2 DEF ServerOK, TextOK
    <3>. QED BY <2>4, <3>3 DEF ServerOK
  <2>. QED BY <2>5, <2>6
<1>. QED BY <1>1, <1>2

LEMMA BackendServer ==
    ASSUME Inv, Traffic, Typed, ServerOK, Backend, Typed'
    PROVE  ServerOK'
<1>0. clash' \subseteq Tabs BY DEF Typed, HistoryTyped
<1>1. \A j, i, J, v : ReadFor(j, J) => /\ session' = session /\ clash' = clash
                                       /\ jobs' = J \cup {Turned(j, "read", session, j.tries)}
  BY DEF ReadFor
<1>2. \A j, at, ses, n : Turned(j, at, ses, n).ses = ses /\ Turned(j, at, ses, n).req = j.req
  BY DEF Turned, MkJob
<1>3. ASSUME NEW c \in Tabs, TakeWrite(c) PROVE ServerOK'
  <2>1. \A k \in jobs' : k \in jobs \/ k.ses = session BY <1>1, <1>2, <1>3 DEF TakeWrite
  <2>. QED BY <1>0, <1>1, <1>3, <2>1, ServerCalm DEF TakeWrite
<1>4. ASSUME NEW c \in Tabs, TakeSync(c) PROVE ServerOK'
  <2>1. session' = session /\ clash' = clash BY <1>4 DEF TakeSync
  <2>2. \A k \in jobs' : k \in jobs \/ k.req.kind = "sync" BY <1>2, <1>4 DEF TakeSync
  <2>. QED BY <1>0, <2>1, <2>2, ServerCalm DEF Writes
<1>5. ASSUME NEW j \in jobs, ReadSession(j) PROVE ServerOK'
  <2>1. \A k \in jobs' : k \in jobs \/ k.ses = session BY <1>1, <1>2, <1>5 DEF ReadSession
  <2>. QED BY <1>0, <1>1, <1>5, <2>1, ServerCalm DEF ReadSession
<1>6. ASSUME NEW j \in jobs,
             RefuseOp(j) \/ Publish(j) \/ SyncSend(j) \/ AnswerGet(j) \/ AbortFrame(j)
      PROVE  ServerOK'
  <2>1. session' = session /\ clash \subseteq clash' /\ jobs' = jobs \ {j}
    BY <1>6 DEF RefuseOp, Publish, SyncSend, AnswerGet, AbortFrame
  <2>. QED BY <1>0, <2>1, ServerCalm
<1>. QED BY <1>3, <1>4, <1>5, <1>6, SaveServer DEF Backend

LEMMA NextServer ==
    ASSUME Inv, Traffic, Typed, ServerOK, [Next]_vars, Typed'
    PROVE  ServerOK'
<1>0. clash' \subseteq Tabs BY DEF Typed, HistoryTyped
<1>1. CASE Backend BY <1>1, BackendServer
<1>2. CASE Handler BY <1>0, <1>2, HandlerServer, ServerCalm
<1>3. CASE \E c \in Tabs : Client(c) BY <1>0, <1>3, TabServer, ServerCalm
<1>4. CASE UNCHANGED vars
  <2>1. session' = session /\ clash' = clash /\ jobs' = jobs BY <1>4 DEF vars, serverVars
  <2>. QED BY <1>0, <2>1, ServerCalm
<1>. QED BY <1>1, <1>2, <1>3, <1>4 DEF Next
-----------------------------------------------------------------------------
(* The ops a tab has on their way to the log *)

Reqs(u, J, c) == {u[c][n] : n \in DOMAIN u[c]}
                   \cup {j.req : j \in {k \in J : k.tab = c /\ k.at # "saved"}}

\* No op is on its way that was not, but for the tab c those in F.
OpsFrom(c, F) ==
    \A d \in Tabs : \A r \in Reqs(up', jobs', d) :
        r.kind = "op" => r \in Reqs(up, jobs, d) \/ (d = c /\ r \in F)

NoNewOps ==
    \A d \in Tabs : \A r \in Reqs(up', jobs', d) : r.kind = "op" => r \in Reqs(up, jobs, d)

LEMMA ReqsIn ==
    ASSUME NEW u, NEW J, NEW c, NEW r
    PROVE  r \in Reqs(u, J, c) <=> \/ \E n \in DOMAIN u[c] : r = u[c][n]
                                   \/ \E j \in J : j.tab = c /\ j.at # "saved" /\ r = j.req
BY DEF Reqs

\* The frames and jobs that a step leaves.
FramesFrom(q, u, F) ==
    \A n \in DOMAIN q : q[n].kind # "op" \/ q[n] \in F \/ \E m \in DOMAIN u : q[n] = u[m]

JobsFrom(c, F) ==
    \A j \in jobs' : \/ j.at = "saved" \/ j.req.kind # "op"
                     \/ j.tab = c /\ j.req \in F
                     \/ \E i \in jobs : i.at # "saved" /\ i.tab = j.tab /\ i.req = j.req
                     \/ \E n \in DOMAIN up[j.tab] : up[j.tab][n] = j.req

UpFrom(c, F) ==
    up' = up \/ \E q : up' = [up EXCEPT ![c] = q] /\ FramesFrom(q, up[c], F)

LEMMA ReqsStep ==
    ASSUME up = [c \in Tabs |-> up[c]], NEW c \in Tabs, NEW F, UpFrom(c, F), JobsFrom(c, F)
    PROVE  OpsFrom(c, F)
<1>. SUFFICES ASSUME NEW d \in Tabs, NEW r \in Reqs(up', jobs', d), r.kind = "op"
              PROVE  r \in Reqs(up, jobs, d) \/ (d = c /\ r \in F)
  BY DEF OpsFrom
<1>1. ASSUME NEW n \in DOMAIN up'[d], r = up'[d][n]
      PROVE  r \in Reqs(up, jobs, d) \/ (d = c /\ r \in F)
  <2>1. CASE up' = up BY <1>1, <2>1, ReqsIn
  <2>2. ASSUME NEW q, up' = [up EXCEPT ![c] = q], FramesFrom(q, up[c], F)
        PROVE  r \in Reqs(up, jobs, d) \/ (d = c /\ r \in F)
    <3>1. up' = [e \in Tabs |-> IF e = c THEN q ELSE up[e]] BY <2>2
    <3>2. CASE d = c
      <4>1. up'[d] = q BY <3>1, <3>2
      <4>2. r \in F \/ \E m \in DOMAIN up[c] : r = up[c][m] BY <1>1, <2>2, <4>1 DEF FramesFrom
      <4>. QED BY <3>2, <4>2, ReqsIn
    <3>3. CASE d # c
      <4>1. up'[d] = up[d] BY <3>1, <3>3
      <4>. QED BY <1>1, <4>1, ReqsIn
    <3>. QED BY <3>2, <3>3
  <2>. QED BY <2>1, <2>2 DEF UpFrom
<1>2. ASSUME NEW j \in jobs', j.tab = d, j.at # "saved", r = j.req
      PROVE  r \in Reqs(up, jobs, d) \/ (d = c /\ r \in F)
  BY <1>2, ReqsIn DEF JobsFrom
<1>. QED BY <1>1, <1>2, ReqsIn

LEMMA CalmReqs ==
    ASSUME up = [c \in Tabs |-> up[c]], NEW c \in Tabs, UpFrom(c, {}), JobsFrom(c, {})
    PROVE  NoNewOps
<1>1. OpsFrom(c, {}) BY ReqsStep
<1>. QED BY <1>1 DEF OpsFrom, NoNewOps

LEMMA UpFromSame == ASSUME NEW c, NEW F, up' = up PROVE UpFrom(c, F)
BY DEF UpFrom

LEMMA UpFromCleared ==
    ASSUME NEW c, NEW F, up' = [up EXCEPT ![c] = <<>>]
    PROVE  UpFrom(c, F)
<1>1. FramesFrom(<<>>, up[c], F) BY PairIsSeq DEF FramesFrom
<1>. QED BY <1>1 DEF UpFrom

\* One frame more.
LEMMA FramesMore ==
    ASSUME NEW u, IsSeq(u), NEW f, NEW F, f.kind # "op" \/ f \in F, NEW v, FramesFrom(u, v, F)
    PROVE  FramesFrom(u \o <<f>>, v, F) /\ IsSeq(u \o <<f>>)
<1>1. /\ IsSeq(u \o <<f>>)
      /\ \A n \in DOMAIN (u \o <<f>>) :
           \/ n \in DOMAIN u /\ (u \o <<f>>)[n] = u[n]
           \/ n = Len(u) + 1 /\ (u \o <<f>>)[n] = f
  BY OneMore
<1>. DEFINE q == u \o <<f>>
<1>2. IsSeq(q) /\ \A n \in DOMAIN q : (n \in DOMAIN u /\ q[n] = u[n]) \/ q[n] = f BY <1>1, Zenon
<1>. HIDE DEF q
<1>3. ASSUME NEW n \in DOMAIN q
      PROVE  q[n].kind # "op" \/ q[n] \in F \/ \E m \in DOMAIN v : q[n] = v[m]
  BY <1>2 DEF FramesFrom
<1>. QED BY <1>2, <1>3 DEF FramesFrom, q

LEMMA FramesSelf == ASSUME NEW u, NEW F PROVE FramesFrom(u, u, F)
BY DEF FramesFrom

LEMMA ConcatNothing ==
    ASSUME NEW u, IsSeq(u)
    PROVE  u \o <<>> = u
<1>1. u \in Seq({u[i] : i \in DOMAIN u}) BY DEF IsSeq
<1>. QED BY <1>1

\* Sends of one frame, and updatePresence behind no op or one.
LEMMA SendsFrom ==
    ASSUME Traffic, NEW c \in Tabs, NEW f, NEW F, f.kind # "op" \/ f \in F, Sends(c, <<f>>)
    PROVE  UpFrom(c, F) /\ JobsFrom(c, F)
<1>1. IsSeq(up[c]) BY DEF Traffic, UpOK
<1>2. FramesFrom(up[c] \o <<f>>, up[c], F) BY <1>1, FramesSelf, FramesMore
<1>3. up' = up \/ up' = [up EXCEPT ![c] = up[c] \o <<f>>] BY DEF Sends
<1>4. UpFrom(c, F) BY <1>2, <1>3 DEF UpFrom
<1>5. jobs' \subseteq jobs \cup {Http(c, f)} BY OneHttp DEF Sends
<1>6. Http(c, f).req = f /\ Http(c, f).tab = c BY DEF Http, Job, MkJob
<1>7. JobsFrom(c, F) BY <1>5, <1>6 DEF JobsFrom
<1>. QED BY <1>4, <1>7

LEMMA PresentsFrom ==
    ASSUME Traffic, NEW c \in Tabs, NEW lk, NEW f, NEW F,
           \/ f.kind = "op" /\ f \in F /\ Presents(c, lk, <<f>>)
           \/ Presents(c, lk, <<>>)
    PROVE  UpFrom(c, F) /\ JobsFrom(c, F)
<1>. DEFINE b == Beat(Merged(c, lk))
<1>0. b.kind # "op" BY DEF Beat
<1>. HIDE DEF b
<1>1. IsSeq(up[c]) BY DEF Traffic, UpOK
<1>2. FramesFrom(up[c] \o <<b>>, up[c], F) BY <1>0, <1>1, FramesSelf, FramesMore
<1>3. CASE f \in F /\ Presents(c, lk, <<f>>)
  <2>1. FramesFrom(up[c] \o <<f>> \o <<b>>, up[c], F) BY <1>0, <1>1, <1>3, FramesSelf, FramesMore
  <2>2. up' = up \/ up' = [up EXCEPT ![c] = up[c] \o <<f>> \o <<b>>] BY <1>3 DEF Presents, b
  <2>3. UpFrom(c, F) BY <2>1, <2>2 DEF UpFrom
  <2>4. jobs' \subseteq jobs \cup {Http(c, f)} BY <1>3, OneHttp DEF Presents
  <2>5. Http(c, f).req = f /\ Http(c, f).tab = c BY DEF Http, Job, MkJob
  <2>6. JobsFrom(c, F) BY <1>3, <2>4, <2>5 DEF JobsFrom
  <2>. QED BY <2>3, <2>6
<1>4. CASE Presents(c, lk, <<>>)
  <2>1. up' = up \/ up' = [up EXCEPT ![c] = up[c] \o <<>> \o <<b>>] BY <1>4 DEF Presents, b
  <2>2. UpFrom(c, F) BY <1>1, <1>2, <2>1, ConcatNothing DEF UpFrom
  <2>3. \A j \in jobs' : j \in jobs BY <1>4, PairIsSeq DEF Presents
  <2>4. ASSUME NEW j \in jobs' PROVE j.at = "saved" \/ \E i \in jobs : i.at # "saved" /\ i.tab = j.tab /\ i.req = j.req
    BY <2>3
  <2>5. JobsFrom(c, F) BY <2>4 DEF JobsFrom
  <2>. QED BY <2>2, <2>5
<1>. QED BY <1>3, <1>4
-----------------------------------------------------------------------------
(* Whose ids are whose *)

\* Tab c has a pending op, or one on its way, with the id x and the type t.
NameIn(u, J, q, c, x, t) ==
    \/ \E n \in DOMAIN q[c] : q[c][n].cid = x /\ q[c][n].type = t
    \/ \E r \in Reqs(u, J, c) : r.kind = "op" /\ r.cid = x /\ r.type = t

Names(c, x, t) == NameIn(up, jobs, pending, c, x, t)

\* An id is one tab's and one op's, in the log too.
OwnersOK ==
    /\ \A c, d \in Tabs : \A x, s, t : Names(c, x, s) /\ Names(d, x, t) => c = d /\ s = t
    /\ \A c \in Tabs : \A x, t : Names(c, x, t) =>
         \A n \in DOMAIN session.log :
           session.log[n].cid = x => session.log[n].user = UserOf[c] /\ session.log[n].type = t
    /\ \A c \in Tabs : Distinct(pending[c])

LEMMA InitOwners == Init => OwnersOK
<1>. SUFFICES ASSUME Init PROVE OwnersOK OBVIOUS
<1>1. /\ session.log = <<>> /\ jobs = {} /\ up = [c \in Tabs |-> <<>>]
      /\ pending = [c \in Tabs |-> <<>>]
  BY DEF Init, MkSession
<1>2. DOMAIN <<>> = {} BY PairIsSeq
<1>3. \A c \in Tabs : \A x, t : ~Names(c, x, t) BY <1>1, <1>2 DEF Names, NameIn, Reqs
<1>4. \A c \in Tabs : Distinct(pending[c]) BY <1>1, <1>2 DEF Distinct
<1>. QED BY <1>3, <1>4 DEF OwnersOK

\* The ids in use have been given out.
LEMMA NamedIds ==
    ASSUME Traffic, NEW c \in Tabs, NEW x, NEW t, Names(c, x, t)
    PROVE  x \in 1..made
<1>1. ASSUME NEW n \in DOMAIN pending[c], pending[c][n].cid = x PROVE x \in 1..made
  BY <1>1 DEF Traffic, PendingOK, GoodPending
<1>2. ASSUME NEW n \in DOMAIN up[c], up[c][n].kind = "op", up[c][n].cid = x PROVE x \in 1..made
  BY <1>2 DEF Traffic, UpOK, GoodReq
<1>3. ASSUME NEW j \in jobs, j.req.kind = "op", j.req.cid = x PROVE x \in 1..made
  BY <1>3 DEF Traffic, JobReqsOK, GoodReq
<1>. QED BY <1>1, <1>2, <1>3 DEF Names, NameIn, Reqs

\* At most one new op gets the next id, and at most one op that is on its way
\* gets into the log.
NamesFrom(c, t) ==
    \A d \in Tabs : \A x, s : Names(d, x, s)' =>
        Names(d, x, s) \/ (d = c /\ x = made + 1 /\ s = t)

LEMMA OwnersStep ==
    ASSUME Inv, Traffic, OwnersOK, NEW c \in Tabs, NEW t, NamesFrom(c, t),
           \A d \in Tabs : Distinct(pending'[d]),
           \/ session'.log = session.log
           \/ \E e : \E d \in Tabs : /\ session'.log = Append(session.log, e)
                                 /\ Names(d, e.cid, e.type) /\ e.user = UserOf[d]
    PROVE  OwnersOK'
<1>0. made \in Nat /\ IsSeq(session.log) BY DEF Traffic, LogCidsOK, Inv, LogOK
<1>1. \A d \in Tabs : \A x, s : Names(d, x, s) => x # made + 1 BY <1>0, NamedIds
<1>2. ASSUME NEW d \in Tabs, NEW f \in Tabs, NEW x, NEW r, NEW s, Names(d, x, r)', Names(f, x, s)'
      PROVE  d = f /\ r = s
  <2>1. \/ Names(d, x, r) \/ (d = c /\ x = made + 1 /\ r = t) BY <1>2 DEF NamesFrom
  <2>2. \/ Names(f, x, s) \/ (f = c /\ x = made + 1 /\ s = t) BY <1>2 DEF NamesFrom
  <2>. QED BY <1>1, <2>1, <2>2 DEF OwnersOK
<1>3. ASSUME NEW d \in Tabs, NEW x, NEW s, Names(d, x, s)',
             NEW n \in DOMAIN session.log, session.log[n].cid = x
      PROVE  session.log[n].user = UserOf[d] /\ session.log[n].type = s
  <2>1. x # made + 1 BY <1>0, <1>3 DEF Traffic, LogCidsOK
  <2>2. Names(d, x, s) BY <1>3, <2>1 DEF NamesFrom
  <2>. QED BY <1>3, <2>2 DEF OwnersOK
<1>4. ASSUME NEW d \in Tabs, NEW x, NEW s, Names(d, x, s)',
             NEW n \in DOMAIN session'.log, session'.log[n].cid = x
      PROVE  session'.log[n].user = UserOf[d] /\ session'.log[n].type = s
  <2>1. CASE session'.log = session.log BY <1>3, <1>4, <2>1
  <2>2. ASSUME NEW e, NEW f \in Tabs, session'.log = Append(session.log, e),
               Names(f, e.cid, e.type), e.user = UserOf[f]
        PROVE  session'.log[n].user = UserOf[d] /\ session'.log[n].type = s
    <3>1. \/ n \in DOMAIN session.log /\ session'.log[n] = session.log[n]
          \/ session'.log[n] = e
      BY <1>0, <1>4, <2>2, AppendIsSeq, IsSeqDom
    <3>2. CASE session'.log[n] = e
      <4>1. e.cid = x /\ x # made + 1 BY <1>1, <1>4, <2>2, <3>2
      <4>2. Names(d, x, s) BY <1>4, <4>1 DEF NamesFrom
      <4>3. d = f /\ s = e.type BY <2>2, <4>1, <4>2 DEF OwnersOK
      <4>. QED BY <2>2, <3>2, <4>3
    <3>. QED BY <1>3, <1>4, <3>1, <3>2
  <2>. QED BY <2>1, <2>2
<1>. QED BY <1>2, <1>4 DEF OwnersOK

\* Every op that is left was there, by its id and type.
OpsStay(q, ps) ==
    \A n \in DOMAIN q : \E m \in DOMAIN ps : q[n].cid = ps[m].cid /\ q[n].type = ps[m].type

LEMMA NamesStay ==
    ASSUME NoNewOps, \A d \in Tabs : OpsStay(pending'[d], pending[d]), NEW c, NEW t
    PROVE  NamesFrom(c, t)
<1>. SUFFICES ASSUME NEW d \in Tabs, NEW x, NEW s, Names(d, x, s)' PROVE Names(d, x, s)
  BY DEF NamesFrom
<1>1. ASSUME NEW n \in DOMAIN pending'[d], pending'[d][n].cid = x, pending'[d][n].type = s
      PROVE  Names(d, x, s)
  <2>1. PICK m \in DOMAIN pending[d] : pending[d][m].cid = x /\ pending[d][m].type = s
    BY <1>1 DEF OpsStay
  <2>. QED BY <2>1 DEF Names, NameIn
<1>2. ASSUME NEW r \in Reqs(up', jobs', d), r.kind = "op", r.cid = x, r.type = s
      PROVE  Names(d, x, s)
  BY <1>2 DEF NoNewOps, Names, NameIn
<1>3. \/ \E n \in DOMAIN pending'[d] : pending'[d][n].cid = x /\ pending'[d][n].type = s
      \/ \E r \in Reqs(up', jobs', d) : r.kind = "op" /\ r.cid = x /\ r.type = s
  BY DEF Names, NameIn, Reqs
<1>. QED BY <1>1, <1>2, <1>3

LEMMA OpsStaySame == ASSUME NEW ps PROVE OpsStay(ps, ps)
BY DEF OpsStay

LEMMA SameOpsStay == ASSUME NEW q, NEW ps, SameOps(q, ps) PROVE OpsStay(q, ps)
BY DEF OpsStay, SameOps
-----------------------------------------------------------------------------
(* What the editor of a tab shows *)

\* The changes that latestSeq does not cover.
Mine(c) == Unseen(session.log, latest[c], pending[c])

Good(c) == Reflects(UserOf[c], session.log, latest[c], Mine(c), dom[c], Reqs(up, jobs, c))

\* Every foreign op up to latestSeq was handed to the editor.
Handed(c) == \A n \in Foreign(c) : n <= latest[c] => \E k \in DOMAIN seen[c] : seen[c][k] = n
Clean(c)  == c \notin clash /\ Alone(c) /\ Once(c) /\ Handed(c)

Conv == \A c \in Tabs : Clean(c) => Good(c)

LEMMA InitConv == Init => Conv
<1>. SUFFICES ASSUME Init, NEW c \in Tabs PROVE Good(c) BY DEF Conv
<1>1. /\ session.log = <<>> /\ jobs = {} /\ up[c] = <<>> /\ latest[c] = 0
      /\ pending[c] = <<>> /\ dom[c] = Seed
  BY DEF Init, MkSession
<1>2. DOMAIN <<>> = {} /\ LogTyped(<<>>) /\ Len(<<>>) = 0 BY PairIsSeq DEF LogTyped
<1>3. Reqs(up, jobs, c) = {} BY <1>1, <1>2 DEF Reqs
<1>4. Mine(c) = {} BY <1>1, <1>2 DEF Mine, Unseen
<1>5. LogText(<<>>)[0] = Seed BY <1>2, LogTextAt
<1>6. Reflects(UserOf[c], <<>>, 0, {}, Seed, {})
  BY <1>2, <1>5 DEF Reflects, AtMostOne, Shows, Carried, Ahead
<1>. QED BY <1>1, <1>3, <1>4, <1>6 DEF Good

\* What the lemmas on Reflects ask for.
LEMMA TabFacts ==
    ASSUME Inv, Traffic, Typed, OwnersOK, NEW c \in Tabs
    PROVE  /\ LogTyped(session.log) /\ Len(session.log) \in Nat
           /\ latest[c] \in 0..Len(session.log) /\ DOMAIN session.log = 1..Len(session.log)
           /\ IsSeq(pending[c]) /\ Distinct(pending[c])
           /\ \A n \in DOMAIN pending[c] : LivePayload(pending[c][n]) => pending[c][n].body \in Edits
           /\ dom[c] \in Text
<1>1. LogTyped(session.log) BY DEF Typed, SessionTyped, CopyTyped
<1>2. Len(session.log) \in Nat /\ DOMAIN session.log = 1..Len(session.log)
  BY IsSeqDom DEF Inv, LogOK
<1>3. latest[c] \in 0..Len(session.log) BY <1>2 DEF Inv, SeenOK
<1>4. IsSeq(pending[c]) /\ Distinct(pending[c]) BY DEF Traffic, PendingOK, OwnersOK
<1>5. \A n \in DOMAIN pending[c] : LivePayload(pending[c][n]) => pending[c][n].body \in Edits
  BY DEF Typed, PendingTyped, OpsTyped, BodyTyped, LivePayload
<1>6. dom[c] \in Text BY DEF Typed, EditorTyped
<1>. QED BY <1>1, <1>2, <1>3, <1>4, <1>5, <1>6

LEMMA ReqsFacts ==
    ASSUME Inv, Traffic, Typed, NEW c \in Tabs
    PROVE  ReqsOf(session.log, Reqs(up, jobs, c))
<1>. SUFFICES ASSUME NEW r \in Reqs(up, jobs, c), LiveReq(r)
              PROVE  r.body \in Edits /\ r.base \in 0..Len(session.log)
  BY DEF ReqsOf
<1>1. r.kind = "op" /\ r.type = "replace" BY DEF LiveReq
<1>2. CASE \E n \in DOMAIN up[c] : r = up[c][n]
  <2>1. ReqTyped(r) BY <1>2 DEF Typed, UpTyped, FramesTyped
  <2>2. GoodReq(Len(session.log), made, r) BY <1>2 DEF Traffic, UpOK
  <2>. QED BY <1>1, <2>1, <2>2 DEF ReqTyped, BodyTyped, GoodReq
<1>3. CASE \E j \in jobs : r = j.req
  <2>1. ReqTyped(r) BY <1>3 DEF Typed, JobsTyped, JobTyped
  <2>2. GoodReq(Len(session.log), made, r) BY <1>3 DEF Traffic, JobReqsOK
  <2>. QED BY <1>1, <2>1, <2>2 DEF ReqTyped, BodyTyped, GoodReq
<1>. QED BY <1>2, <1>3, ReqsIn

LEMMA OwnFacts ==
    ASSUME Inv, Traffic, Typed, OwnersOK, NEW c \in Tabs
    PROVE  /\ OwnChanges(UserOf[c], session.log, latest[c], Mine(c))
           /\ \A p \in Mine(c) : p.body \in Edits
<1>. SUFFICES ASSUME NEW p \in Mine(c)
              PROVE  /\ p.body \in Edits /\ ~IsNoop(p.body)
                     /\ Unlogged(session.log, p.cid, latest[c])
                     /\ \A m \in 1..Len(session.log) : session.log[m].cid = p.cid =>
                          session.log[m].user = UserOf[c] /\ session.log[m].type = "replace"
  BY DEF OwnChanges
<1>1. PICK i \in DOMAIN pending[c] : /\ p = Change(pending[c][i]) /\ LivePayload(pending[c][i])
                                     /\ Unlogged(session.log, pending[c][i].cid, latest[c])
  BY UnseenIn DEF Mine
<1>2. p.cid = pending[c][i].cid /\ p.body = pending[c][i].body BY <1>1, ChangeFields
<1>3. p.body \in Edits /\ ~IsNoop(p.body) BY <1>1, <1>2, TabFacts DEF LivePayload
<1>4. Names(c, p.cid, "replace") BY <1>1, <1>2 DEF Names, NameIn, LivePayload
<1>5. DOMAIN session.log = 1..Len(session.log) BY TabFacts
<1>. QED BY <1>1, <1>2, <1>3, <1>4, <1>5 DEF OwnersOK

LEMMA OnceFacts ==
    ASSUME Inv, NEW c \in Tabs, Once(c)
    PROVE  OwnOnce(UserOf[c], session.log)
<1>1. DOMAIN session.log = 1..Len(session.log) BY IsSeqDom DEF Inv, LogOK
<1>. QED BY <1>1 DEF OwnOnce, Once, Foreign

\* A tab that is clean after a step that leaves the log was clean before it.
LEMMA CleanBack ==
    ASSUME NEW c \in Tabs, session'.log = session.log, clash \subseteq clash',
           seen'[c] = seen[c], latest[c] \in Nat, latest'[c] \in Nat, latest[c] <= latest'[c],
           IsSeq(session.log), Clean(c)'
    PROVE  Clean(c) /\ c \notin clash'
<1>1. Foreign(c)' = Foreign(c) BY DEF Foreign
<1>2. \A n \in Foreign(c) : n \in Nat BY IsSeqDom DEF Foreign
<1>3. Once(c)' = Once(c) BY <1>1 DEF Once
<1>4. Alone(c) /\ Once(c) /\ c \notin clash' BY <1>3 DEF Clean, Alone
<1>5. ASSUME NEW n \in Foreign(c), n <= latest[c] PROVE \E k \in DOMAIN seen[c] : seen[c][k] = n
  <2>1. n <= latest'[c] BY <1>2, <1>5
  <2>2. \E k \in DOMAIN seen'[c] : seen'[c][k] = n BY <1>1, <1>5, <2>1 DEF Clean, Handed
  <2>. QED BY <2>2
<1>. QED BY <1>4, <1>5 DEF Clean, Handed

\* A tab whose text and changes stay, with nothing on its way that was not, but
\* for a change that is sent again as it is.
SameReqs(c) ==
    \A r \in Reqs(up', jobs', c) : LiveReq(r) =>
        \/ r \in Reqs(up, jobs, c)
        \/ InLog(session.log, r.cid)
        \/ \E p \in Mine(c) : p.cid = r.cid /\ r.base = latest[c] /\ r.body = p.body

LEMMA QuietTab ==
    ASSUME Inv, Traffic, Typed, OwnersOK, Conv, NEW c \in Tabs, session'.log = session.log,
           clash \subseteq clash', seen'[c] = seen[c], latest'[c] = latest[c],
           c \notin clash' => /\ dom'[c] = dom[c] /\ SameReqs(c)
                              /\ Unseen(session.log, latest[c], pending'[c]) = Mine(c)
    PROVE  Clean(c)' => Good(c)'
<1>. SUFFICES ASSUME Clean(c)' PROVE Good(c)' OBVIOUS
<1>. DEFINE l == session.log
            n == latest[c]
<1>1. LogTyped(l) /\ n \in 0..Len(l) /\ \A p \in Mine(c) : p.body \in Edits BY TabFacts, OwnFacts
<1>2. Clean(c) /\ c \notin clash'
  <2>1. n \in Nat /\ IsSeq(l) /\ n <= latest'[c] BY DEF Inv, LogOK, SeenOK
  <2>. QED BY <2>1, CleanBack
<1>3. Reflects(UserOf[c], l, n, Mine(c), dom[c], Reqs(up, jobs, c)) BY <1>2 DEF Conv, Good
<1>4. \A r \in Reqs(up', jobs', c) : LiveReq(r) =>
        \/ r \in Reqs(up, jobs, c) \/ InLog(l, r.cid)
        \/ \E p \in Mine(c) : p.cid = r.cid /\ r.base = n /\ r.body = p.body
  BY <1>2 DEF SameReqs
<1>. HIDE DEF l, n
<1>5. Reflects(UserOf[c], l, n, Mine(c), dom[c], Reqs(up', jobs', c))
  BY <1>1, <1>3, <1>4, ReqsReflect
<1>6. Mine(c)' = Mine(c) BY <1>2 DEF Mine
<1>7. dom'[c] = dom[c] /\ session'.log = l /\ latest'[c] = n BY <1>2 DEF l, n
<1>. QED BY <1>5, <1>6, <1>7 DEF Good

LEMMA NoNewSame == ASSUME NoNewOps, NEW c \in Tabs PROVE SameReqs(c)
BY DEF NoNewOps, SameReqs, LiveReq

\* Most steps: the log, latestSeq and what was handed over stay.
QuietStep ==
    /\ session'.log = session.log /\ latest' = latest /\ seen' = seen /\ clash \subseteq clash'
    /\ NoNewOps
    /\ \A d \in Tabs : /\ OpsStay(pending'[d], pending[d]) /\ Distinct(pending'[d])
                       /\ d \notin clash' =>
                            /\ dom'[d] = dom[d]
                            /\ Unseen(session.log, latest[d], pending'[d]) = Mine(d)

LEMMA QuietKeeps ==
    ASSUME Inv, Traffic, Typed, OwnersOK, Conv, QuietStep
    PROVE  OwnersOK' /\ Conv'
<1>1. OwnersOK'
  <2>1. ASSUME NEW c \in Tabs PROVE NamesFrom(c, "replace") BY NamesStay DEF QuietStep
  <2>2. CASE Tabs = {} BY <2>2 DEF OwnersOK
  <2>3. CASE Tabs # {}
    <3>1. PICK c \in Tabs : TRUE BY <2>3
    <3>. QED BY <2>1, <3>1, OwnersStep DEF QuietStep
  <2>. QED BY <2>2, <2>3
<1>2. ASSUME NEW c \in Tabs PROVE Clean(c)' => Good(c)'
  BY QuietTab, NoNewSame DEF QuietStep
<1>. QED BY <1>1, <1>2 DEF Conv

\* The same where no tab's pending ops or text change.
LEMMA StillKeeps ==
    ASSUME Inv, Traffic, Typed, OwnersOK, Conv, session'.log = session.log, latest' = latest,
           seen' = seen, clash \subseteq clash', NoNewOps, pending' = pending,
           \A d \in Tabs : d \notin clash' => dom'[d] = dom[d]
    PROVE  OwnersOK' /\ Conv'
<1>1. \A d \in Tabs : Distinct(pending'[d]) BY DEF OwnersOK
<1>2. \A d \in Tabs : OpsStay(pending'[d], pending[d]) BY OpsStaySame
<1>3. QuietStep BY <1>1, <1>2 DEF QuietStep, Mine
<1>. QED BY <1>3, QuietKeeps
-----------------------------------------------------------------------------
(* The steps of the backend but a commit *)

\* A job that brings no op on its way.
Tame(j) == \/ j.at = "saved" \/ j.req.kind # "op"
           \/ \E i \in jobs : i.at # "saved" /\ i.tab = j.tab /\ i.req = j.req
           \/ \E n \in DOMAIN up[j.tab] : up[j.tab][n] = j.req

LEMMA TameJobs ==
    ASSUME NEW c, NEW F, \A j \in jobs' : j \in jobs \/ Tame(j)
    PROVE  JobsFrom(c, F)
<1>. SUFFICES ASSUME NEW j \in jobs'
              PROVE  \/ j.at = "saved" \/ j.req.kind # "op"
                     \/ j.tab = c /\ j.req \in F
                     \/ \E i \in jobs : i.at # "saved" /\ i.tab = j.tab /\ i.req = j.req
                     \/ \E n \in DOMAIN up[j.tab] : up[j.tab][n] = j.req
  BY DEF JobsFrom
<1>. QED BY DEF Tame

LEMMA TurnedTame ==
    ASSUME NEW j \in jobs, j.at # "saved", NEW at, NEW ses, NEW n
    PROVE  Tame(Turned(j, at, ses, n))
<1>1. Turned(j, at, ses, n).tab = j.tab /\ Turned(j, at, ses, n).req = j.req BY DEF Turned, MkJob
<1>. QED BY <1>1 DEF Tame

LEMMA TakenTame ==
    ASSUME NEW c \in Tabs, IsSeq(up[c]), up[c] # <<>>, NEW at, NEW ses, NEW n
    PROVE  Tame(Turned(Frame(c), at, ses, n))
<1>1. Frame(c).tab = c /\ Frame(c).req = Head(up[c]) BY DEF Frame, Job, MkJob
<1>2. /\ Turned(Frame(c), at, ses, n).tab = c
      /\ Turned(Frame(c), at, ses, n).req = Head(up[c])
  BY <1>1 DEF Turned, MkJob
<1>. DEFINE u == up[c]
<1>3. IsSeq(u) /\ u # <<>> OBVIOUS
<1>. HIDE DEF u
<1>4. Head(u) = u[1] /\ Len(u) \in Nat \ {0} BY <1>3, TailIsSeq
<1>5. 1 \in DOMAIN u BY <1>3, <1>4, IsSeqDom
<1>. QED BY <1>2, <1>4, <1>5 DEF Tame, u

LEMMA TakenFrom ==
    ASSUME NEW c \in Tabs, IsSeq(up[c]), up[c] # <<>>, up' = [up EXCEPT ![c] = Tail(@)]
    PROVE  UpFrom(c, {})
<1>. DEFINE u == up[c]
<1>1. IsSeq(u) /\ u # <<>> OBVIOUS
<1>. HIDE DEF u
<1>2. /\ DOMAIN Tail(u) = 1..(Len(u) - 1) /\ \A i \in 1..(Len(u) - 1) : Tail(u)[i] = u[i + 1]
      /\ Len(u) \in Nat /\ DOMAIN u = 1..Len(u)
  BY <1>1, TailIsSeq, IsSeqDom
<1>3. \A i \in 1..(Len(u) - 1) : i + 1 \in 1..Len(u) BY <1>2
<1>4. FramesFrom(Tail(u), u, {}) BY <1>2, <1>3 DEF FramesFrom
<1>5. up' = [up EXCEPT ![c] = Tail(u)] BY DEF u
<1>. QED BY <1>4, <1>5 DEF UpFrom, u

\* What the backend does leaves the tabs alone.
LEMMA BackendQuiet ==
    ASSUME Inv, Traffic, Typed, OwnersOK, Conv, NEW c \in Tabs, UpFrom(c, {}),
           \A j \in jobs' : j \in jobs \/ Tame(j), session'.log = session.log,
           clash \subseteq clash', UNCHANGED <<seqVars, editorVars>>
    PROVE  OwnersOK' /\ Conv'
<1>1. JobsFrom(c, {}) BY TameJobs
<1>2. up = [d \in Tabs |-> up[d]] BY DEF Traffic, UpOK
<1>3. NoNewOps BY <1>1, <1>2, CalmReqs
<1>4. latest' = latest /\ seen' = seen /\ pending' = pending /\ dom' = dom BY DEF seqVars, editorVars
<1>. QED BY <1>3, <1>4, StillKeeps

LEMMA TakeConv ==
    ASSUME Inv, Traffic, Typed, OwnersOK, Conv, NEW c \in Tabs, TakeWrite(c) \/ TakeSync(c)
    PROVE  OwnersOK' /\ Conv'
<1>1. \A d \in Tabs : IsSeq(up[d]) BY DEF Traffic, UpOK
<1>2. CanTake(c) /\ up[c] # <<>> /\ up' = [up EXCEPT ![c] = Tail(@)]
  BY DEF TakeWrite, TakeSync, CanTake, Frame, Job, MkJob
<1>4. \A at, ses, n : Tame(Turned(Frame(c), at, ses, n)) BY <1>1, <1>2, TakenTame
<1>5. \A j \in jobs' : j \in jobs \/ Tame(j)
  <2>1. CASE TakeWrite(c) BY <1>4, <2>1 DEF TakeWrite, ReadFor
  <2>2. CASE TakeSync(c) BY <1>4, <2>2 DEF TakeSync
  <2>. QED BY <2>1, <2>2
<1>6. session' = session /\ clash' = clash /\ UNCHANGED <<seqVars, editorVars>>
  BY DEF TakeWrite, TakeSync, ReadFor
<1>7. UpFrom(c, {}) BY <1>1, <1>2, TakenFrom
<1>. QED BY <1>5, <1>6, <1>7, BackendQuiet

LEMMA JobConv ==
    ASSUME Inv, Traffic, Typed, OwnersOK, Conv, NEW j \in jobs,
           \/ ReadSession(j) \/ RefuseOp(j) \/ Publish(j) \/ SyncSend(j) \/ AnswerGet(j)
           \/ AbortFrame(j)
    PROVE  OwnersOK' /\ Conv'
<1>1. j.tab \in Tabs /\ \A d \in Tabs : IsSeq(up[d]) BY DEF Inv, JobsOK, JobOK, Traffic, UpOK
<1>2. session' = session /\ up' = up /\ clash \subseteq clash' /\ UNCHANGED <<seqVars, editorVars>>
  BY DEF ReadSession, ReadFor, RefuseOp, Publish, SyncSend, AnswerGet, AbortFrame, wireVars
<1>3. \A k \in jobs' : k \in jobs \/ Tame(k)
  <2>1. CASE ReadSession(j)
    <3>1. j.at # "saved" /\ jobs' = (jobs \ {j}) \cup {Turned(j, "read", session, j.tries)}
      BY <2>1 DEF ReadSession, ReadFor
    <3>2. Tame(Turned(j, "read", session, j.tries)) BY <3>1, TurnedTame
    <3>. QED BY <3>1, <3>2
  <2>2. CASE ~ReadSession(j)
    <3>1. jobs' = jobs \ {j} BY <2>2 DEF RefuseOp, Publish, SyncSend, AnswerGet, AbortFrame
    <3>. QED BY <3>1
  <2>. QED BY <2>1, <2>2
<1>4. UpFrom(j.tab, {}) BY <1>2, UpFromSame
<1>. QED BY <1>1, <1>2, <1>3, <1>4, BackendQuiet

\* A save that adds nothing to the log.
LEMMA SaveConv ==
    ASSUME Inv, Traffic, Typed, OwnersOK, Conv, NEW j \in jobs, SaveSession(j),
           session'.log = session.log
    PROVE  OwnersOK' /\ Conv'
<1>1. /\ j.tab \in Tabs /\ (\A d \in Tabs : IsSeq(up[d])) /\ j.at # "saved"
  BY DEF Inv, JobsOK, JobOK, Traffic, UpOK, SaveSession
<1>2. up' = up /\ clash \subseteq clash' /\ UNCHANGED <<seqVars, editorVars>>
  BY DEF SaveSession, wireVars
<1>3. \A at, ses, n : Tame(Turned(j, at, ses, n)) BY <1>1, TurnedTame
<1>4. \A k \in jobs' : k \in jobs \/ Tame(k) BY <1>3 DEF SaveSession
<1>5. UpFrom(j.tab, {}) BY <1>2, UpFromSame
<1>. QED BY <1>1, <1>2, <1>4, <1>5, BackendQuiet
-----------------------------------------------------------------------------
(* A commit *)

LEMMA UnseenGrown ==
    ASSUME NEW l, IsSeq(l), NEW e, NEW n \in 0..Len(l), NEW ps
    PROVE  Unseen(Append(l, e), n, ps) = Unseen(l, n, ps)
<1>. DEFINE k == Append(l, e)
<1>1. /\ Len(l) \in Nat /\ Len(k) = Len(l) + 1 /\ \A i \in 1..Len(l) : k[i] = l[i]
  BY AppendIsSeq, IsSeqDom
<1>. HIDE DEF k
<1>2. ASSUME NEW x PROVE Unlogged(k, x, n) <=> Unlogged(l, x, n)
  <2>1. \A m \in 1..Len(k) : m \in 1..Len(l) \/ m > n BY <1>1
  <2>2. \A m \in 1..Len(l) : m \in 1..Len(k) BY <1>1
  <2>. QED BY <1>1, <2>1, <2>2 DEF Unlogged
<1>. QED BY <1>2 DEF Unseen, k

\* The change that the server commits is the one that the editor shows.
LEMMA CommittedChange ==
    ASSUME Inv, Traffic, Typed, ServerOK, OwnersOK, NEW j, Commits(j), j.at # "saved",
           NEW c \in Tabs \ clash', Alone(c), Once(c)', Entry(j).user = UserOf[c],
           Entry(j).type = "replace"
    PROVE  /\ j.req \in Reqs(up, jobs, c) /\ LiveReq(j.req) /\ j.req.cid = Entry(j).cid
           /\ ~InLog(session.log, j.req.cid)
           /\ Entry(j).body = Clamped(LogText(session.log)[Len(session.log)],
                                      Moved(session.log, j.req.base, j.req.body)[Len(session.log)])
<1>. DEFINE l == session.log
            N == Len(l)
<1>0. j \in jobs /\ j.req.kind = "op" /\ j.ses = session /\ clash' = clash \cup AstrayBySave(j)
  BY DEF Commits
<1>1. j.tab = c
  <2>1. j.tab \in Tabs BY <1>0 DEF Inv, JobsOK, JobOK
  <2>. QED BY <2>1, EntryFields DEF Alone
<1>2. j.req.type = "replace" /\ j.req.cid = Entry(j).cid BY EntryFields
<1>3. j.req \in Reqs(up, jobs, c) BY <1>0, <1>1, ReqsIn
<1>4. /\ session'.log = Append(l, Entry(j)) /\ j.req.base \in 0..N /\ j.req.body \in Edits
      /\ ~IsNoop(j.req.body) /\ BodyOf(session, j.req) = Rebased(session, j.req)
  BY <1>2, CommitLog
<1>5. LiveReq(j.req) BY <1>0, <1>2, <1>4 DEF LiveReq
<1>6. N \in Nat /\ DOMAIN l = 1..N /\ IsSeq(l) /\ LogTyped(l) /\ session.text \in Text
  BY IsSeqDom DEF Inv, LogOK, Typed, SessionTyped, CopyTyped
<1>7. ~InLog(l, j.req.cid)
  <2>. SUFFICES ASSUME NEW m \in 1..N, l[m].cid = j.req.cid PROVE FALSE BY DEF InLog
  <2>1. Names(c, j.req.cid, "replace") BY <1>0, <1>2, <1>3 DEF Names, NameIn
  <2>2. l[m].user = UserOf[c] BY <1>6, <2>1 DEF OwnersOK
  <2>. DEFINE k == session'.log
  <2>3. /\ DOMAIN k = 1..(N + 1) /\ k[m] = l[m] /\ k[N + 1] = Entry(j)
    BY <1>4, <1>6, AppendIsSeq
  <2>4. m \in DOMAIN k \ Foreign(c)' BY <1>6, <2>2, <2>3 DEF Foreign
  <2>5. N + 1 \in DOMAIN k \ Foreign(c)' BY <1>6, <2>3 DEF Foreign
  <2>6. m = N + 1 BY <1>2, <2>3, <2>4, <2>5 DEF Once
  <2>. QED BY <1>6, <2>6
<1>8. Entry(j).body = Clamped(LogText(l)[N], Moved(l, j.req.base, j.req.body)[N])
  <2>1. Len(OpsAfter(session, j.req.base)) = N - j.req.base
    <3>1. c \notin AstrayBySave(j) BY <1>0
    <3>2. AstrayBySave(j) = {x \in {c} : /\ j.req.type = "replace"
                                         /\ Len(OpsAfter(session, j.req.base)) # N - j.req.base}
      BY <1>0, <1>1 DEF AstrayBySave
    <3>. QED BY <1>2, <3>1, <3>2
  <2>2. session.text = LogText(l)[N]
    <3>1. c \notin clash BY <1>0
    <3>. QED BY <3>1 DEF ServerOK, TextOK
  <2>3. Rebased(session, j.req) = Clamped(session.text,
          TransformReplaceThrough(j.req.body, Replaces(OpsAfter(session, j.req.base))))
    BY <1>4, <1>6, RebasedFields
  <2>4. TransformReplaceThrough(j.req.body, Replaces(OpsAfter(session, j.req.base)))
          = Moved(l, j.req.base, j.req.body)[N]
    BY <1>4, <1>6, <2>1, RebasedIsMoved
  <2>. QED BY <1>4, <2>2, <2>3, <2>4, EntryFields
<1>. QED BY <1>2, <1>3, <1>5, <1>7, <1>8

LEMMA CommitClean ==
    ASSUME Inv, Traffic, Typed, NEW j, Commits(j), NEW c \in Tabs, seen'[c] = seen[c],
           latest'[c] = latest[c], Clean(c)'
    PROVE  Clean(c) /\ c \notin clash' /\ Alone(c) /\ Once(c)'
<1>. DEFINE l == session.log
            k == session'.log
            N == Len(l)
<1>1. N \in Nat /\ DOMAIN l = 1..N /\ IsSeq(l) /\ latest[c] \in 0..N
  BY IsSeqDom DEF Inv, LogOK, SeenOK
<1>2. k = Append(l, Entry(j)) BY CommitLog
<1>3. DOMAIN k = 1..(N + 1) /\ \A i \in 1..N : k[i] = l[i] BY <1>1, <1>2, AppendIsSeq
<1>4. clash \subseteq clash' BY DEF Commits
<1>5. Alone(c) /\ Once(c)' /\ c \notin clash' BY DEF Clean, Alone
<1>6. \A n \in DOMAIN l : n \in DOMAIN k /\ k[n] = l[n] BY <1>1, <1>3
<1>7. Foreign(c) = {n \in DOMAIN l : l[n].user # UserOf[c]}
      /\ Foreign(c)' = {n \in DOMAIN k : k[n].user # UserOf[c]} BY DEF Foreign
<1>. HIDE DEF k
<1>8. \A n \in DOMAIN l : n \in Foreign(c) <=> n \in Foreign(c)' BY <1>6, <1>7
<1>9. Once(c)
  <2>1. \A m, n \in DOMAIN k \ Foreign(c)' : k[m].cid = k[n].cid => m = n
    BY <1>5 DEF Once, k
  <2>. QED BY <1>6, <1>8, <2>1 DEF Once
<1>10. Handed(c)
  <2>1. \A n \in Foreign(c)' : n <= latest'[c] => \E i \in DOMAIN seen'[c] : seen'[c][i] = n
    BY DEF Clean, Handed
  <2>2. \A n \in Foreign(c) : n \in Foreign(c)' BY <1>7, <1>8
  <2>. QED BY <2>1, <2>2 DEF Handed
<1>. QED BY <1>4, <1>5, <1>9, <1>10 DEF Clean

LEMMA CommitGood ==
    ASSUME Inv, Traffic, Typed, ServerOK, OwnersOK, Conv, NEW j, Commits(j), j.at # "saved",
           NoNewOps, LogTyped(session'.log), UNCHANGED <<seqVars, editorVars>>,
           NEW c \in Tabs, Clean(c)'
    PROVE  Good(c)'
<1>. DEFINE u == UserOf[c]
            l == session.log
            e == Entry(j)
            n == latest[c]
            U == Mine(c)
            R == Reqs(up, jobs, c)
            Q == Reqs(up', jobs', c)
<1>0. seen'[c] = seen[c] /\ latest'[c] = n /\ pending' = pending /\ dom' = dom
  BY DEF seqVars, editorVars
<1>1. Clean(c) /\ c \notin clash' /\ Alone(c) /\ Once(c)' BY <1>0, CommitClean
<1>2. Reflects(u, l, n, U, dom[c], R) BY <1>1 DEF Conv, Good
<1>3. /\ LogTyped(l) /\ n \in 0..Len(l) /\ Len(l) \in Nat /\ ReqsOf(l, R) /\ OwnChanges(u, l, n, U)
      /\ \A p \in U : p.body \in Edits
  BY TabFacts, OwnFacts, ReqsFacts
<1>4. session'.log = Append(l, e) BY CommitLog
<1>5. e.user = u /\ e.type = "replace" =>
        \E r \in R : /\ LiveReq(r) /\ r.cid = e.cid /\ ~InLog(l, r.cid)
                     /\ e.body = Clamped(LogText(l)[Len(l)], Moved(l, r.base, r.body)[Len(l)])
  BY <1>1, CommittedChange
<1>6. \A r \in Q : LiveReq(r) => r \in R BY DEF NoNewOps, LiveReq
<1>7. Unseen(Append(l, e), n, pending[c]) = U
  <2>1. IsSeq(l) BY DEF Inv, LogOK
  <2>. QED BY <1>3, <2>1, UnseenGrown DEF Mine
<1>8. Good(c)' = Reflects(u, session'.log, latest'[c],
                          Unseen(session'.log, latest'[c], pending'[c]), dom'[c], Q)
  BY DEF Good, Mine
<1>9. LogTyped(Append(l, e)) BY <1>4
<1>10. n \in 0..Len(Append(l, e))
  <2>1. Len(Append(l, e)) = Len(l) + 1
    <3>1. IsSeq(l) BY DEF Inv, LogOK
    <3>. QED BY <3>1, AppendIsSeq
  <2>. QED BY <1>3, <2>1
<1>. HIDE DEF u, l, e, n, U, R, Q
<1>11. Reflects(u, Append(l, e), n, U, dom[c], R) BY <1>2, <1>3, <1>5, <1>9, GrowReflects
<1>12. Reflects(u, Append(l, e), n, U, dom[c], Q) BY <1>3, <1>6, <1>9, <1>10, <1>11, ReqsReflect
<1>. QED BY <1>0, <1>4, <1>7, <1>8, <1>12

LEMMA CommitConv ==
    ASSUME Inv, Traffic, Typed, ServerOK, OwnersOK, Conv, NEW j \in jobs, SaveSession(j), Typed',
           session'.log # session.log
    PROVE  OwnersOK' /\ Conv'
<1>1. session.version = j.ses.version /\ j.at = "read" /\ j.req.kind \in Writes
  BY DEF SaveSession
<1>2. /\ session' = Outcome(j) /\ clash' = clash \cup AstrayBySave(j)
      /\ jobs' = (jobs \ {j}) \cup {Turned(j, "saved", Outcome(j), j.tries)}
  BY <1>1 DEF SaveSession
<1>3. j.ses = session BY <1>1 DEF ServerOK, CopiesOK
<1>4. j.req.kind = "op"
  <2>1. j.req.kind \in {"heartbeat", "join"} => session'.log = session.log
    BY <1>2, <1>3 DEF Outcome, Beaten, Joined, MkSession
  <2>. QED BY <1>1, <2>1 DEF Writes
<1>5. Commits(j) BY <1>2, <1>3, <1>4 DEF SaveSession, Commits
<1>6. j.tab \in Tabs BY DEF Inv, JobsOK, JobOK
<1>7. up' = up /\ UNCHANGED <<seqVars, editorVars>> BY DEF SaveSession, wireVars
<1>8. NoNewOps
  <2>1. Turned(j, "saved", Outcome(j), j.tries).at = "saved" BY DEF Turned, MkJob
  <2>2. \A k \in jobs' : k \in jobs \/ Tame(k) BY <1>2, <2>1 DEF Tame
  <2>3. UpFrom(j.tab, {}) /\ JobsFrom(j.tab, {}) BY <1>7, <2>2, UpFromSame, TameJobs
  <2>4. up = [d \in Tabs |-> up[d]] BY DEF Traffic, UpOK
  <2>. QED BY <1>6, <2>3, <2>4, CalmReqs
<1>9. OwnersOK'
  <2>1. pending' = pending BY <1>7 DEF editorVars
  <2>2. \A d \in Tabs : OpsStay(pending'[d], pending[d]) /\ Distinct(pending'[d])
    BY <2>1, OpsStaySame DEF OwnersOK
  <2>3. NamesFrom(j.tab, "replace") BY <1>8, <2>2, NamesStay
  <2>4. session'.log = Append(session.log, Entry(j)) BY <1>5, CommitLog
  <2>5. Names(j.tab, Entry(j).cid, Entry(j).type) /\ Entry(j).user = UserOf[j.tab]
    <3>1. j.req \in Reqs(up, jobs, j.tab) BY <1>1, ReqsIn
    <3>. QED BY <1>4, <3>1, EntryFields DEF Names, NameIn
  <2>. QED BY <1>6, <2>2, <2>3, <2>4, <2>5, OwnersStep
<1>10. LogTyped(session'.log) BY DEF Typed, SessionTyped, CopyTyped
<1>11. ASSUME NEW c \in Tabs, Clean(c)' PROVE Good(c)'
  BY <1>1, <1>5, <1>7, <1>8, <1>10, <1>11, CommitGood
<1>. QED BY <1>9, <1>11 DEF Conv

LEMMA BackendConv ==
    ASSUME Inv, Traffic, Typed, ServerOK, OwnersOK, Conv, Backend, Typed'
    PROVE  OwnersOK' /\ Conv'
<1>1. ASSUME NEW c \in Tabs, TakeWrite(c) \/ TakeSync(c) PROVE OwnersOK' /\ Conv'
  BY <1>1, TakeConv
<1>2. ASSUME NEW j \in jobs, SaveSession(j) PROVE OwnersOK' /\ Conv'
  BY <1>2, SaveConv, CommitConv
<1>3. ASSUME NEW j \in jobs,
             \/ ReadSession(j) \/ RefuseOp(j) \/ Publish(j) \/ SyncSend(j) \/ AnswerGet(j)
             \/ AbortFrame(j)
      PROVE  OwnersOK' /\ Conv'
  BY <1>3, JobConv
<1>. QED BY <1>1, <1>2, <1>3 DEF Backend
-----------------------------------------------------------------------------
(* latestSeq rises *)

LEMMA UnseenLater ==
    ASSUME NEW l, NEW m \in Nat, NEW n \in Nat, n <= m, Len(l) \in Nat, NEW ps
    PROVE  Unseen(l, m, ps) = {p \in Unseen(l, n, ps) : Unlogged(l, p.cid, m)}
<1>1. \A x : Unlogged(l, x, m) => Unlogged(l, x, n) BY DEF Unlogged
<1>2. ASSUME NEW p \in Unseen(l, m, ps) PROVE p \in Unseen(l, n, ps) /\ Unlogged(l, p.cid, m)
  <2>1. PICK i \in DOMAIN ps : /\ p = Change(ps[i]) /\ LivePayload(ps[i])
                               /\ Unlogged(l, ps[i].cid, m)
    BY UnseenIn
  <2>. QED BY <1>1, <2>1, UnseenIn, ChangeFields
<1>3. ASSUME NEW p \in Unseen(l, n, ps), Unlogged(l, p.cid, m) PROVE p \in Unseen(l, m, ps)
  <2>1. PICK i \in DOMAIN ps : p = Change(ps[i]) /\ LivePayload(ps[i]) BY UnseenIn
  <2>. QED BY <1>3, <2>1, UnseenIn, ChangeFields
<1>. QED BY <1>2, <1>3

\* Over entries of which no foreign one changes anything.
LEMMA SkipGood ==
    ASSUME Inv, Traffic, Typed, OwnersOK, Conv, NEW c \in Tabs, Clean(c),
           session'.log = session.log, latest'[c] \in latest[c]..Len(session.log),
           \A k \in (latest[c] + 1)..latest'[c] :
             session.log[k].type = "replace" => session.log[k].user = UserOf[c],
           dom'[c] = dom[c], NoNewOps,
           Unseen(session.log, latest'[c], pending'[c])
             = Unseen(session.log, latest'[c], pending[c])
    PROVE  Good(c)'
<1>. DEFINE u == UserOf[c]
            l == session.log
            n == latest[c]
            m == latest'[c]
            U == Mine(c)
            V == {p \in U : Unlogged(l, p.cid, m)}
            R == Reqs(up, jobs, c)
            Q == Reqs(up', jobs', c)
<1>1. Reflects(u, l, n, U, dom[c], R) BY DEF Conv, Good
<1>2. /\ LogTyped(l) /\ Len(l) \in Nat /\ n \in 0..Len(l) /\ ReqsOf(l, R)
      /\ OwnChanges(u, l, n, U) /\ OwnOnce(u, l) /\ \A p \in U : p.body \in Edits
  BY TabFacts, OwnFacts, ReqsFacts, OnceFacts DEF Clean
<1>3. m \in 0..Len(l) /\ n \in 0..m /\ n <= m /\ m \in Nat /\ n \in Nat BY <1>2
<1>4. V = Unseen(l, m, pending'[c]) BY <1>2, <1>3, UnseenLater DEF Mine
<1>5. \A k \in (n + 1)..m : l[k].type = "replace" => l[k].user = u OBVIOUS
<1>6. \A r \in Q : LiveReq(r) => r \in R BY DEF NoNewOps, LiveReq
<1>7. Good(c)' = Reflects(u, session'.log, m, Unseen(session'.log, m, pending'[c]), dom'[c], Q)
  BY DEF Good, Mine
<1>8. \A p \in V : p.body \in Edits BY <1>2
<1>. HIDE DEF u, l, n, m, U, R, Q
<1>9. Reflects(u, l, m, V, dom[c], R) BY <1>1, <1>2, <1>3, <1>5, SkipReflects
<1>. HIDE DEF V
<1>10. Reflects(u, l, m, V, dom[c], Q) BY <1>2, <1>3, <1>6, <1>8, <1>9, ReqsReflect
<1>. QED BY <1>4, <1>7, <1>10 DEF l

\* An echo, an acknowledgement or a session view.
LEMMA SkipTab ==
    ASSUME Inv, Traffic, Typed, OwnersOK, Conv, NEW c \in Tabs, clash \subseteq clash',
           session'.log = session.log, latest'[c] \in latest[c]..Len(session.log),
           seen'[c] = seen[c], dom'[c] = dom[c], NoNewOps,
           Unseen(session.log, latest'[c], pending'[c])
             = Unseen(session.log, latest'[c], pending[c])
    PROVE  Clean(c)' => Good(c)'
<1>. SUFFICES ASSUME Clean(c)' PROVE Good(c)' OBVIOUS
<1>1. /\ Len(session.log) \in Nat /\ DOMAIN session.log = 1..Len(session.log)
      /\ IsSeq(session.log) /\ latest[c] \in Nat
      /\ \A k \in DOMAIN seen[c] : seen[c][k] <= latest[c]
  BY IsSeqDom DEF Inv, LogOK, SeenOK
<1>2. latest'[c] \in Nat /\ latest[c] <= latest'[c] BY <1>1
<1>3. Clean(c) BY <1>1, <1>2, CleanBack
<1>4. ASSUME NEW k \in (latest[c] + 1)..latest'[c], session.log[k].user # UserOf[c] PROVE FALSE
  <2>1. k \in 1..Len(session.log) /\ k <= latest'[c] /\ ~(k <= latest[c]) BY <1>1, <1>2
  <2>2. k \in Foreign(c)' BY <1>1, <1>4, <2>1 DEF Foreign
  <2>3. \E i \in DOMAIN seen'[c] : seen'[c][i] = k BY <2>1, <2>2 DEF Clean, Handed
  <2>. QED BY <1>1, <2>1, <2>3
<1>. QED BY <1>3, <1>4, SkipGood
-----------------------------------------------------------------------------
(* An op arrives *)

\* What is left of the pending ops is the same changes.
LEMMA RestUnseen ==
    ASSUME Inv, Traffic, Typed, OwnersOK, NEW c \in Tabs, NEW op, In(session.log, op), NEW n \in Nat,
           op.seq <= n \/ \A i \in DOMAIN pending[c] : pending[c][i].cid # op.cid
    PROVE  Unseen(session.log, n, Without(pending[c], op.cid)) = Unseen(session.log, n, pending[c])
<1>. DEFINE l == session.log
            ps == pending[c]
<1>1. IsSeq(ps) /\ Distinct(ps) BY TabFacts
<1>2. op.seq \in 1..Len(l) /\ l[op.seq] = op /\ Len(l) \in Nat BY TabFacts DEF In
<1>3. op.seq <= n \/ \A i \in DOMAIN ps : ps[i].cid # op.cid OBVIOUS
<1>. HIDE DEF l, ps
<1>4. Unseen(l, n, Without(ps, op.cid)) = {p \in Unseen(l, n, ps) : p.cid # op.cid}
  BY <1>1, UnseenWithout
<1>5. ASSUME NEW p \in Unseen(l, n, ps) PROVE p.cid # op.cid
  <2>1. PICK i \in DOMAIN ps : p = Change(ps[i]) /\ Unlogged(l, ps[i].cid, n) BY UnseenIn
  <2>2. p.cid = ps[i].cid BY <2>1, ChangeFields
  <2>3. CASE op.seq <= n
    <3>1. ~(op.seq > n) BY <1>2, <2>3
    <3>. QED BY <1>2, <2>1, <2>2, <3>1 DEF Unlogged
  <2>. QED BY <1>3, <2>2, <2>3
<1>. QED BY <1>4, <1>5 DEF l, ps

\* A tab that is clean after a remote op had been handed every foreign op
\* before it.
LEMMA RemoteBack ==
    ASSUME Inv, NEW c \in Tabs, session'.log = session.log, clash \subseteq clash',
           NEW m \in 1..Len(session.log), latest[c] < m, latest'[c] = m,
           seen'[c] = Append(seen[c], m), Clean(c)'
    PROVE  /\ Clean(c) /\ c \notin clash'
           /\ \A k \in (latest[c] + 1)..(m - 1) : session.log[k].user = UserOf[c]
<1>0. /\ Len(session.log) \in Nat /\ DOMAIN session.log = 1..Len(session.log)
      /\ latest[c] \in Nat /\ \A k \in DOMAIN seen[c] : seen[c][k] <= latest[c]
  BY IsSeqDom DEF Inv, LogOK, SeenOK
<1>1. Foreign(c)' = Foreign(c) BY DEF Foreign
<1>2. Alone(c) /\ Once(c) /\ c \notin clash' BY <1>1 DEF Clean, Alone, Once
<1>3. \A i \in DOMAIN seen'[c] : (i \in DOMAIN seen[c] /\ seen'[c][i] = seen[c][i]) \/ seen'[c][i] = m
  <2>. DEFINE s == seen[c]
  <2>1. s \in Seq(Nat) BY DEF Inv, SeenOK
  <2>2. IsSeq(s) BY <2>1, SeqIsSeq
  <2>. HIDE DEF s
  <2>3. \A i \in DOMAIN Append(s, m) : \/ i \in DOMAIN s /\ Append(s, m)[i] = s[i]
                                       \/ Append(s, m)[i] = m
    BY <2>2, AppendIsSeq, IsSeqDom
  <2>. QED BY <2>3 DEF s
<1>4. \A n \in Foreign(c) : n <= m => \E i \in DOMAIN seen'[c] : seen'[c][i] = n
  BY <1>1 DEF Clean, Handed
<1>5. \A n \in Foreign(c) : n < m => \E i \in DOMAIN seen[c] : seen[c][i] = n
  <2>1. \A n \in Foreign(c) : n < m => n <= m /\ n # m BY <1>0 DEF Foreign
  <2>. QED BY <1>3, <1>4, <2>1
<1>6. Handed(c)
  <2>1. \A n \in Foreign(c) : n <= latest[c] => n < m BY <1>0 DEF Foreign
  <2>. QED BY <1>5, <2>1 DEF Handed
<1>7. ASSUME NEW k \in (latest[c] + 1)..(m - 1), session.log[k].user # UserOf[c] PROVE FALSE
  <2>1. k \in 1..Len(session.log) /\ k < m /\ ~(k <= latest[c]) BY <1>0
  <2>2. k \in Foreign(c) BY <1>0, <1>7, <2>1 DEF Foreign
  <2>. QED BY <1>0, <1>5, <2>1, <2>2
<1>. QED BY <1>2, <1>6, <1>7 DEF Clean

\* A remote op that changes no text: a format commit with the HTML on show, a lock.
LEMMA RemoteOther ==
    ASSUME Inv, Traffic, Typed, OwnersOK, Conv, NEW c \in Tabs, NEW op, In(session.log, op),
           Clean(c), op.type # "replace", latest[c] < op.seq,
           \A k \in (latest[c] + 1)..(op.seq - 1) : session.log[k].user = UserOf[c],
           session'.log = session.log, latest'[c] = op.seq, dom'[c] = dom[c], NoNewOps,
           \A i \in DOMAIN pending[c] : pending[c][i].cid # op.cid,
           pending'[c] = Through(Without(pending[c], op.cid), op)
    PROVE  Good(c)'
<1>. DEFINE l == session.log
            rest == Without(pending[c], op.cid)
<1>1. /\ op.seq \in 1..Len(l) /\ l[op.seq] = op /\ Len(l) \in Nat /\ latest[c] \in 0..Len(l)
      /\ IsSeq(pending[c]) /\ Distinct(pending[c]) /\ op.seq \in Nat
  BY TabFacts DEF In
<1>2. latest'[c] \in latest[c]..Len(l) BY <1>1
<1>3. \A k \in (latest[c] + 1)..latest'[c] : l[k].type = "replace" => l[k].user = UserOf[c]
  <2>1. \A k \in (latest[c] + 1)..op.seq : k = op.seq \/ k \in (latest[c] + 1)..(op.seq - 1) BY <1>1
  <2>. QED BY <1>1, <2>1
<1>4. Unseen(l, op.seq, rest) = Unseen(l, op.seq, pending[c]) BY <1>1, RestUnseen
<1>5. IsSeq(rest) BY <1>1, UnseenWithout
<1>. HIDE DEF l, rest
<1>6. SameOps(Through(rest, op), rest) BY <1>5, UnseenThrough
<1>7. Unseen(l, op.seq, Through(rest, op)) = Unseen(l, op.seq, rest) BY <1>6, SameUnseen
<1>. QED BY <1>2, <1>3, <1>4, <1>7, SkipGood DEF l, rest

LEMMA RestOf ==
    ASSUME NEW ps, IsSeq(ps), Distinct(ps), NEW x, NEW rest, rest = Without(ps, x)
    PROVE  /\ IsSeq(rest) /\ Distinct(rest)
           /\ \A j \in DOMAIN rest : \E i \in DOMAIN ps : rest[j] = ps[i]
BY UnseenWithout

\* A remote replace that meets no pending change.
LEMMA RemoteReplace ==
    ASSUME Inv, Traffic, Typed, ServerOK, OwnersOK, Conv, NEW c \in Tabs, NEW op,
           In(session.log, op), Clean(c), op.type = "replace", latest[c] < op.seq,
           \A k \in (latest[c] + 1)..(op.seq - 1) : session.log[k].user = UserOf[c],
           session'.log = session.log, latest'[c] = op.seq, NoNewOps,
           \A i \in DOMAIN pending[c] : pending[c][i].cid # op.cid,
           NEW rest, rest = Without(pending[c], op.cid),
           \A i \in DOMAIN rest : LivePayload(rest[i]) =>
             ~Logged(rest[i].cid, op.seq) /\ ~Meet(rest[i].body, op.body),
           dom'[c] = DomApply(dom[c], Against(op, rest)), pending'[c] = Through(rest, op)
    PROVE  Good(c)'
<1>. DEFINE u == UserOf[c]
            l == session.log
            N == Len(l)
            n == latest[c]
            m == op.seq
            ps == pending[c]
            V == Unseen(l, m - 1, rest)
            t == dom[c]
            s == DomApply(t, Against(op, rest))
            R == Reqs(up, jobs, c)
            Q == Reqs(up', jobs', c)
            W == Over(V, op.body)
<1>1. /\ LogTyped(l) /\ N \in Nat /\ n \in 0..N /\ ReqsOf(l, R) /\ OwnChanges(u, l, n, Mine(c))
      /\ OwnOnce(u, l) /\ m \in 1..N /\ l[m] = op /\ DOMAIN l = 1..N
      /\ IsSeq(ps) /\ Distinct(ps)
  BY TabFacts, OwnFacts, ReqsFacts, OnceFacts DEF Clean, In
<1>2. LogInside(l)
  <2>1. clash # Tabs BY DEF Clean
  <2>. QED BY <2>1 DEF ServerOK, TextOK
<1>3. Reflects(u, l, n, Mine(c), t, R) BY DEF Conv, Good
<1>4. m - 1 \in 0..N /\ m - 1 \in Nat /\ n \in 0..(m - 1) /\ n <= m - 1 /\ n \in Nat /\ m \in Nat
  BY <1>1
<1>5. op.body \in Edits BY <1>1 DEF LogTyped, BodyTyped
<1>6. /\ IsSeq(rest) /\ Distinct(rest)
      /\ \A j \in DOMAIN rest : \E i \in DOMAIN ps : rest[j] = ps[i]
  BY <1>1, RestOf
<1>7. \A i \in DOMAIN rest : LivePayload(rest[i]) =>
        /\ rest[i].body \in Edits /\ Unlogged(l, rest[i].cid, m)
        /\ Unlogged(l, rest[i].cid, m - 1)
  <2>. SUFFICES ASSUME NEW i \in DOMAIN rest, LivePayload(rest[i])
                PROVE  /\ rest[i].body \in Edits /\ Unlogged(l, rest[i].cid, m)
                       /\ Unlogged(l, rest[i].cid, m - 1)
    OBVIOUS
  <2>1. rest[i].body \in Edits BY <1>6, TabFacts
  <2>2. ~Logged(rest[i].cid, m) OBVIOUS
  <2>3. \A k \in 1..N : l[k].cid = rest[i].cid => ~(k <= m) BY <1>1, <2>2 DEF Logged
  <2>4. \A k \in 1..N : ~(k <= m) => k > m /\ k > m - 1 BY <1>1, <1>4
  <2>. QED BY <2>1, <2>3, <2>4 DEF Unlogged
<1>8. V = {p \in Mine(c) : Unlogged(l, p.cid, m - 1)}
  <2>1. V = Unseen(l, m - 1, ps) BY <1>4, RestUnseen
  <2>. QED BY <1>1, <1>4, <2>1, UnseenLater DEF Mine
<1>9. \A k \in (n + 1)..(m - 1) : l[k].type = "replace" => l[k].user = u OBVIOUS
<1>10. \A r \in Q : LiveReq(r) => r \in R BY DEF NoNewOps, LiveReq
<1>11. Good(c)' = Reflects(u, session'.log, latest'[c],
                           Unseen(session'.log, latest'[c], pending'[c]), dom'[c], Q)
  BY DEF Good, Mine
<1>12. \A i \in DOMAIN rest : LivePayload(rest[i]) => ~Meet(rest[i].body, op.body) OBVIOUS
<1>13. dom'[c] = s /\ pending'[c] = Through(rest, op) /\ session'.log = l /\ latest'[c] = m
  OBVIOUS
<1>14. op.type = "replace" OBVIOUS
<1>. DEFINE M == Mine(c)
<1>15. OwnChanges(u, l, n, M) /\ Reflects(u, l, n, M, t, R)
       /\ V = {p \in M : Unlogged(l, p.cid, m - 1)}
  BY <1>1, <1>3, <1>8
<1>. HIDE DEF u, l, N, n, m, ps, t, R, Q, M
<1>16. Reflects(u, l, m - 1, V, t, R)
  <2>. HIDE DEF V
  <2>1. Reflects(u, l, m - 1, {p \in M : Unlogged(l, p.cid, m - 1)}, t, R)
    BY <1>1, <1>4, <1>9, <1>15, SkipReflects DEF N
  <2>. QED BY <1>15, <2>1
<1>17. OwnChanges(u, l, m - 1, V)
  <2>. HIDE DEF V
  <2>. QED BY <1>15 DEF OwnChanges
<1>18. /\ V = {} => Against(op, rest) = op.body
       /\ \A p \in V : Against(op, rest) = TransformReplace(op.body, p.body)
  <2>1. AtMostOne(V) BY <1>16 DEF Reflects
  <2>. QED BY <1>5, <1>6, <1>7, <2>1, AgainstUnseen
<1>19. ASSUME NEW p \in V
       PROVE  ~Meet(p.body, l[m].body) /\ p.body \in Edits
  <2>1. PICK i \in DOMAIN rest : p = Change(rest[i]) /\ LivePayload(rest[i]) BY UnseenIn
  <2>. QED BY <1>1, <1>7, <1>12, <2>1, ChangeFields
<1>20. Turns(t, V, l[m].body, s) BY <1>1, <1>18 DEF Turns
<1>21. Reflects(u, l, m, W, s, R) /\ \A p \in V : ~IsNoop(TransformReplace(p.body, op.body))
  <2>1. l[m].type = "replace" /\ m \in 1..Len(l) BY <1>1, <1>14 DEF N
  <2>2. op.body = l[m].body BY <1>1
  <2>. HIDE DEF V, s
  <2>3. Apart(V, l[m].body) BY <1>19 DEF Apart
  <2>4. LogTyped(l) /\ LogInside(l) /\ ReqsOf(l, R) BY <1>1, <1>2
  <2>. QED BY <1>16, <1>17, <1>20, <2>1, <2>2, <2>3, <2>4, IngestReflects DEF W
<1>22. Unseen(l, m, Through(rest, op)) = W
  <2>1. \A i \in DOMAIN rest : LivePayload(rest[i]) =>
          Unlogged(l, rest[i].cid, m) /\ ~IsNoop(TransformReplace(rest[i].body, op.body))
    <3>. SUFFICES ASSUME NEW i \in DOMAIN rest, LivePayload(rest[i])
                  PROVE  ~IsNoop(TransformReplace(rest[i].body, op.body))
      BY <1>7
    <3>1. Change(rest[i]) \in V BY <1>7, UnseenIn
    <3>2. Change(rest[i]).body = rest[i].body BY ChangeFields
    <3>. QED BY <1>21, <3>1, <3>2
  <2>2. Unseen(l, m, Through(rest, op)) = Over(Unseen(l, m, rest), op.body)
    BY <1>6, <1>14, <2>1, UnseenThrough
  <2>3. Unseen(l, m, rest) = {p \in V : Unlogged(l, p.cid, m)}
    <3>1. m - 1 <= m /\ Len(l) \in Nat BY <1>1, <1>4 DEF N
    <3>. QED BY <1>4, <3>1, UnseenLater
  <2>4. ASSUME NEW p \in V PROVE Unlogged(l, p.cid, m)
    <3>1. PICK i \in DOMAIN rest : p = Change(rest[i]) /\ LivePayload(rest[i]) BY UnseenIn
    <3>. QED BY <1>7, <3>1, ChangeFields
  <2>5. Unseen(l, m, rest) = V BY <2>3, <2>4
  <2>. QED BY <2>2, <2>5
<1>23. \A p \in W : p.body \in Edits BY <1>5, <1>19, TransformTyped DEF Over
<1>. HIDE DEF V, s, W
<1>24. Reflects(u, l, m, W, s, Q)
  <2>1. m \in 0..Len(l) BY <1>1 DEF N
  <2>. QED BY <1>1, <1>10, <1>21, <1>23, <2>1, ReqsReflect
<1>. QED BY <1>11, <1>13, <1>22, <1>24

LEMMA ThroughStay ==
    ASSUME NEW ps, Distinct(ps), NEW op
    PROVE  OpsStay(Through(ps, op), ps) /\ Distinct(Through(ps, op))
<1>. DEFINE q == Through(ps, op)
<1>1. /\ DOMAIN q = DOMAIN ps
      /\ \A i \in DOMAIN ps : q[i].cid = ps[i].cid /\ q[i].type = ps[i].type
  BY DEF Through, MkPending
<1>. HIDE DEF q
<1>. QED BY <1>1 DEF OpsStay, Distinct, q

LEMMA RestStay ==
    ASSUME NEW ps, IsSeq(ps), Distinct(ps), NEW x
    PROVE  OpsStay(Without(ps, x), ps) /\ Distinct(Without(ps, x))
<1>. DEFINE q == Without(ps, x)
<1>1. Distinct(q) /\ \A j \in DOMAIN q : \E i \in DOMAIN ps : q[j] = ps[i] BY RestOf
<1>. HIDE DEF q
<1>. QED BY <1>1 DEF OpsStay, q

LEMMA StayOn ==
    ASSUME NEW q, NEW r, NEW s, OpsStay(q, r), OpsStay(r, s)
    PROVE  OpsStay(q, s)
<1>. SUFFICES ASSUME NEW n \in DOMAIN q
              PROVE  \E m \in DOMAIN s : q[n].cid = s[m].cid /\ q[n].type = s[m].type
  BY DEF OpsStay
<1>1. PICK k \in DOMAIN r : q[n].cid = r[k].cid /\ q[n].type = r[k].type BY DEF OpsStay
<1>2. PICK m \in DOMAIN s : r[k].cid = s[m].cid /\ r[k].type = s[m].type BY DEF OpsStay
<1>. QED BY <1>1, <1>2

\* The item that the running handler takes.
LEMMA HeadItem ==
    ASSUME Inv, todo # <<>>
    PROVE  /\ Head(todo).tab \in Tabs /\ GoodItem(session.log, Head(todo).item)
           /\ Head(todo) = todo[1] /\ 1 \in DOMAIN todo
<1>1. IsSeq(todo) BY DEF Inv, TodoOK
<1>2. Head(todo) = todo[1] /\ 1 \in DOMAIN todo BY <1>1, TailIsSeq, IsSeqDom
<1>. QED BY <1>2 DEF Inv, TodoOK

LEMMA SameWay == up' = up /\ jobs' = jobs => NoNewOps
BY DEF NoNewOps, Reqs

LEMMA IngestConv ==
    ASSUME Inv, Traffic, Typed, ServerOK, OwnersOK, Conv, NEW c \in Tabs, NEW it,
           In(session.log, it.op), Fresh(c, it), IngestOp(c, it), session' = session, NoNewOps
    PROVE  OwnersOK' /\ Conv'
<1>. DEFINE op == it.op
            rest == Without(pending[c], op.cid)
            remote == ~IsLocal(c, op) /\ ~it.ack
            body == IF op.type = "replace" /\ ~IsNoop(op.body) THEN Against(op, rest) ELSE op.body
            kept == IF remote THEN Through(rest, op) ELSE rest
<1>1. /\ latest' = [latest EXCEPT ![c] = Larger(latest[c], op.seq)]
      /\ pending' = [pending EXCEPT ![c] = kept]
      /\ seen' = IF remote THEN [seen EXCEPT ![c] = Append(seen[c], op.seq)] ELSE seen
      /\ dom' = IF remote THEN [dom EXCEPT ![c] = Shown(dom[c], op.type, body)] ELSE dom
      /\ clash' = clash \cup {x \in {c} : remote /\ AstrayByOp(c, op, rest)}
  BY DEF IngestOp
<1>2. /\ pending = [d \in Tabs |-> pending[d]] /\ latest \in [Tabs -> Nat]
      /\ seen \in [Tabs -> Seq(Nat)] /\ dom \in [Tabs -> Text]
  BY DEF Traffic, PendingOK, Inv, SeenOK, Typed, EditorTyped
<1>3. ASSUME NEW d \in Tabs \ {c}
      PROVE  /\ pending'[d] = pending[d] /\ latest'[d] = latest[d] /\ seen'[d] = seen[d]
             /\ dom'[d] = dom[d]
  BY <1>1, <1>2
<1>4. /\ pending'[c] = kept /\ latest'[c] = Larger(latest[c], op.seq)
      /\ remote => /\ seen'[c] = Append(seen[c], op.seq)
                   /\ dom'[c] = Shown(dom[c], op.type, body)
      /\ ~remote => seen'[c] = seen[c] /\ dom'[c] = dom[c]
  BY <1>1, <1>2
<1>5. clash \subseteq clash' /\ session'.log = session.log BY <1>1
<1>6. IsSeq(pending[c]) /\ Distinct(pending[c]) BY TabFacts
<1>7. /\ Len(session.log) \in Nat /\ op.seq \in 1..Len(session.log)
      /\ op = session.log[op.seq] /\ latest[c] \in 0..Len(session.log)
      /\ op.seq \in Nat /\ latest[c] \in Nat
  BY TabFacts DEF In
<1>8. OwnersOK'
  <2>1. OpsStay(rest, pending[c]) /\ Distinct(rest) BY <1>6, RestStay
  <2>2. OpsStay(kept, pending[c]) /\ Distinct(kept) BY <2>1, ThroughStay, StayOn
  <2>. HIDE DEF kept
  <2>3. ASSUME NEW d \in Tabs PROVE OpsStay(pending'[d], pending[d]) /\ Distinct(pending'[d])
    <3>1. CASE d = c BY <1>4, <2>2, <3>1
    <3>2. CASE d # c BY <1>3, <3>2, OpsStaySame DEF OwnersOK
    <3>. QED BY <3>1, <3>2
  <2>4. NamesFrom(c, "replace") BY <2>3, NamesStay
  <2>. QED BY <1>5, <2>3, <2>4, OwnersStep
<1>9. ASSUME NEW d \in Tabs \ {c} PROVE Clean(d)' => Good(d)'
  <2>1. SameReqs(d) BY NoNewSame
  <2>2. Unseen(session.log, latest[d], pending'[d]) = Mine(d) BY <1>3, <1>9 DEF Mine
  <2>. QED BY <1>3, <1>5, <2>1, <2>2, QuietTab
<1>10. CASE ~remote
  <2>1. latest'[c] \in latest[c]..Len(session.log) /\ op.seq <= latest'[c] /\ latest'[c] \in Nat
    BY <1>4, <1>7 DEF Larger
  <2>2. Unseen(session.log, latest'[c], rest) = Unseen(session.log, latest'[c], pending[c])
    BY <2>1, RestUnseen
  <2>3. pending'[c] = rest /\ seen'[c] = seen[c] /\ dom'[c] = dom[c] BY <1>4, <1>10
  <2>. HIDE DEF rest, kept, remote
  <2>4. Clean(c)' => Good(c)' BY <1>5, <2>1, <2>2, <2>3, SkipTab
  <2>. QED BY <1>8, <1>9, <2>4 DEF Conv
<1>11. CASE remote
  <2>. SUFFICES ASSUME Clean(c)' PROVE Good(c)' BY <1>8, <1>9 DEF Conv
  <2>1. latest[c] < op.seq BY <1>7, <1>11 DEF Fresh
  <2>2. latest'[c] = op.seq BY <1>4, <1>7, <2>1 DEF Larger
  <2>3. /\ Clean(c) /\ c \notin clash'
        /\ \A k \in (latest[c] + 1)..(op.seq - 1) : session.log[k].user = UserOf[c]
    BY <1>4, <1>5, <1>7, <1>11, <2>1, <2>2, RemoteBack
  <2>4. \A i \in DOMAIN pending[c] : pending[c][i].cid # op.cid BY <1>11 DEF IsLocal
  <2>5. ~AstrayByOp(c, op, rest) BY <1>1, <1>11, <2>3
  <2>6. pending'[c] = Through(rest, op) /\ dom'[c] = Shown(dom[c], op.type, body) BY <1>4, <1>11
  <2>7. CASE op.type = "replace"
    <3>1. ~IsNoop(op.body)
      <4>1. clash # Tabs BY <2>3 DEF Clean
      <4>. QED BY <1>7, <2>7, <4>1 DEF ServerOK, TextOK, LogInside
    <3>2. dom'[c] = DomApply(dom[c], Against(op, rest)) BY <2>6, <2>7, <3>1 DEF Shown
    <3>3. \A i \in DOMAIN rest : LivePayload(rest[i]) =>
            ~Logged(rest[i].cid, op.seq) /\ ~Meet(rest[i].body, op.body)
      BY <2>5, <2>7 DEF AstrayByOp
    <3>4. rest = Without(pending[c], op.cid) OBVIOUS
    <3>. HIDE DEF op, rest, remote, body, kept
    <3>. QED BY <1>5, <2>1, <2>2, <2>3, <2>4, <2>6, <2>7, <3>2, <3>3, <3>4, RemoteReplace DEF op
  <2>8. CASE op.type # "replace"
    <3>1. dom'[c] = dom[c] BY <2>5, <2>6, <2>8 DEF Shown, AstrayByOp
    <3>. QED BY <1>5, <2>1, <2>2, <2>3, <2>4, <2>6, <2>8, <3>1, RemoteOther
  <2>. QED BY <2>7, <2>8
<1>. QED BY <1>10, <1>11

LEMMA StepOpConv ==
    ASSUME Inv, Traffic, Typed, ServerOK, OwnersOK, Conv, StepOp
    PROVE  OwnersOK' /\ Conv'
<1>. DEFINE c == Head(todo).tab
            it == Head(todo).item
<1>1. c \in Tabs /\ In(session.log, it.op) BY HeadItem DEF StepOp, GoodItem
<1>2. session' = session /\ up' = up /\ jobs' = jobs BY DEF StepOp, serverVars, wireVars
<1>3. NoNewOps BY <1>2, SameWay
<1>4. CASE Fresh(c, it)
  <2>1. IngestOp(c, it) BY <1>4 DEF StepOp
  <2>. QED BY <1>1, <1>2, <1>3, <1>4, <2>1, IngestConv
<1>5. CASE ~Fresh(c, it)
  <2>1. latest' = latest /\ pending' = pending /\ seen' = seen /\ dom' = dom /\ clash' = clash
    BY <1>5 DEF StepOp
  <2>. QED BY <1>2, <1>3, <2>1, StillKeeps
<1>. QED BY <1>4, <1>5

LEMMA StepSessionConv ==
    ASSUME Inv, Traffic, Typed, OwnersOK, Conv, StepSession
    PROVE  OwnersOK' /\ Conv'
<1>0. Head(todo).tab \in Tabs /\ Head(todo).item.view.latest \in 0..Len(session.log)
  BY HeadItem DEF StepSession, GoodItem
<1>1. PICK c \in Tabs, n \in 0..Len(session.log) :
        c = Head(todo).tab /\ n = Head(todo).item.view.latest
  BY <1>0
<1>2. /\ session' = session /\ up' = up /\ jobs' = jobs /\ seen' = seen /\ pending' = pending
      /\ dom' = dom /\ clash' = clash /\ latest' = [latest EXCEPT ![c] = Larger(@, n)]
  BY <1>1 DEF StepSession, serverVars, wireVars
<1>3. NoNewOps BY <1>2, SameWay
<1>4. latest \in [Tabs -> Nat] BY DEF Inv, SeenOK
<1>5. OwnersOK'
  <2>1. \A d \in Tabs : OpsStay(pending'[d], pending[d]) /\ Distinct(pending'[d])
    BY <1>2, OpsStaySame DEF OwnersOK
  <2>2. NamesFrom(c, "replace") BY <1>3, <2>1, NamesStay
  <2>. QED BY <1>1, <1>2, <2>1, <2>2, OwnersStep
<1>6. Clean(c)' => Good(c)'
  <2>1. latest'[c] \in latest[c]..Len(session.log)
    <3>1. Len(session.log) \in Nat /\ latest[c] \in 0..Len(session.log) BY <1>1, TabFacts
    <3>2. latest'[c] = Larger(latest[c], n) BY <1>1, <1>2, <1>4
    <3>. QED BY <1>1, <3>1, <3>2 DEF Larger
  <2>2. pending'[c] = pending[c] /\ seen'[c] = seen[c] /\ dom'[c] = dom[c] BY <1>2
  <2>. QED BY <1>1, <1>2, <1>3, <2>1, <2>2, SkipTab
<1>7. ASSUME NEW d \in Tabs \ {c} PROVE Clean(d)' => Good(d)'
  <2>1. latest'[d] = latest[d] BY <1>2, <1>4
  <2>2. SameReqs(d) BY <1>3, NoNewSame
  <2>3. Unseen(session.log, latest[d], pending'[d]) = Mine(d) BY <1>2 DEF Mine
  <2>. QED BY <1>2, <2>1, <2>2, <2>3, QuietTab
<1>. QED BY <1>5, <1>6, <1>7 DEF Conv
-----------------------------------------------------------------------------
(* A tab submits an op *)

\* The change that a replace makes, the first one that latestSeq does not cover.
FirstChange(c, type, body) ==
    type = "replace" /\ c \notin clash' =>
      ~Unconfirmed(c) /\ dom'[c] # dom[c] /\ body = DiffPlainText(dom[c], dom'[c])

LEMMA SubmitGood ==
    ASSUME Inv, Traffic, Typed, OwnersOK, Conv, NEW c \in Tabs, NEW type, NEW body, NEW p,
           p = Submitted(c, type, body), session'.log = session.log, latest'[c] = latest[c],
           seen'[c] = seen[c], clash \subseteq clash', pending'[c] = Append(pending[c], p),
           OpsFrom(c, {OpFrame(p)}), dom'[c] \in Text,
           type # "replace" => dom'[c] = dom[c], FirstChange(c, type, body)
    PROVE  Clean(c)' => Good(c)'
<1>. SUFFICES ASSUME Clean(c)' PROVE Good(c)' OBVIOUS
<1>. DEFINE u == UserOf[c]
            l == session.log
            n == latest[c]
            t == dom[c]
            s == dom'[c]
            ps == pending[c]
            U == Mine(c)
            R == Reqs(up, jobs, c)
            Q == Reqs(up', jobs', c)
            f == OpFrame(p)
<1>1. /\ LogTyped(l) /\ n \in 0..Len(l) /\ Len(l) \in Nat /\ IsSeq(ps) /\ Distinct(ps)
      /\ DOMAIN l = 1..Len(l) /\ t \in Text /\ \A q \in U : q.body \in Edits
  BY TabFacts, OwnFacts
<1>2. Clean(c) /\ c \notin clash'
  <2>1. n \in Nat /\ IsSeq(l) /\ n <= latest'[c] BY <1>1 DEF Inv, LogOK
  <2>. QED BY <2>1, CleanBack
<1>3. Reflects(u, l, n, U, t, R) BY <1>2 DEF Conv, Good
<1>4. p.cid = made + 1 /\ p.type = type /\ p.body = body /\ p.base = n
  BY DEF Submitted, MkPending
<1>5. /\ f.kind = "op" /\ f.type = type /\ f.cid = made + 1 /\ f.body = body /\ f.base = n
  BY <1>4 DEF OpFrame
<1>6. made \in Nat /\ (\A i \in DOMAIN ps : ps[i].cid # p.cid) /\ Unlogged(l, p.cid, n)
  <2>1. made \in Nat /\ made + 1 \notin 1..made BY DEF Traffic, LogCidsOK
  <2>2. \A i \in DOMAIN ps : ps[i].cid \in 1..made BY DEF Traffic, PendingOK, GoodPending
  <2>3. \A m \in 1..Len(l) : l[m].cid \in 1..made BY <1>1 DEF Traffic, LogCidsOK
  <2>. QED BY <1>4, <2>1, <2>2, <2>3 DEF Unlogged
<1>7. \A r \in Q : r.kind = "op" => r \in R \/ r = f BY DEF OpsFrom
<1>8. Good(c)' = Reflects(u, session'.log, latest'[c],
                          Unseen(session'.log, latest'[c], pending'[c]), s, Q)
  BY DEF Good, Mine
<1>9. /\ ~LivePayload(p) => Unseen(l, n, pending'[c]) = U
      /\ LivePayload(p) => Unseen(l, n, pending'[c]) = U \cup {Change(p)}
  BY <1>1, <1>6, UnseenAppend DEF Mine
<1>10. CASE type # "replace"
  <2>1. ~LivePayload(p) /\ ~LiveReq(f) BY <1>4, <1>5, <1>10 DEF LivePayload, LiveReq
  <2>2. s = t /\ Unseen(l, n, pending'[c]) = U BY <1>9, <1>10, <2>1
  <2>3. \A r \in Q : LiveReq(r) => r \in R BY <1>7, <2>1 DEF LiveReq
  <2>4. session'.log = l /\ latest'[c] = n OBVIOUS
  <2>. HIDE DEF u, l, n, t, s, U, R, Q, f
  <2>5. Reflects(u, l, n, U, t, Q) BY <1>1, <1>3, <2>3, ReqsReflect
  <2>. QED BY <1>8, <2>2, <2>4, <2>5
<1>11. CASE type = "replace"
  <2>1. ~Unconfirmed(c) /\ s # t /\ body = DiffPlainText(t, s) BY <1>2, <1>11 DEF FirstChange
  <2>2. U = {}
    <3>. SUFFICES ASSUME NEW x \in U PROVE FALSE OBVIOUS
    <3>1. PICK i \in DOMAIN ps : LivePayload(ps[i]) /\ Unlogged(l, ps[i].cid, n)
      BY UnseenIn DEF Mine
    <3>2. PICK m \in DOMAIN l : m <= n /\ l[m].cid = ps[i].cid
      BY <2>1, <3>1 DEF Unconfirmed, Logged
    <3>3. ~(m > n) BY <1>1, <3>2
    <3>. QED BY <1>1, <3>1, <3>2, <3>3 DEF Unlogged
  <2>3. LivePayload(p)
    <3>1. ~IsNoop(DiffPlainText(t, s)) BY <1>1, <2>1, DiffMakesText
    <3>. QED BY <1>4, <1>11, <2>1, <3>1 DEF LivePayload
  <2>4. Unseen(l, n, pending'[c]) = {[cid |-> made + 1, body |-> DiffPlainText(t, s)]}
    <3>1. Change(p) = [cid |-> made + 1, body |-> DiffPlainText(t, s)]
      BY <1>4, <2>1 DEF Change
    <3>. QED BY <1>9, <2>2, <2>3, <3>1
  <2>5. \A r \in Q : r \in R \/ (LiveReq(r) => /\ r.cid = made + 1 /\ r.base = n
                                               /\ r.body = DiffPlainText(t, s))
    BY <1>5, <1>7, <2>1 DEF LiveReq
  <2>6. session'.log = l /\ latest'[c] = n /\ s \in Text OBVIOUS
  <2>. HIDE DEF u, l, n, t, s, U, R, Q, f
  <2>7. Reflects(u, l, n, {}, t, R) BY <1>3, <2>2
  <2>8. Reflects(u, l, n, {[cid |-> made + 1, body |-> DiffPlainText(t, s)]}, s, Q)
    BY <1>1, <2>5, <2>6, <2>7, EditReflects
  <2>. QED BY <1>8, <2>4, <2>6, <2>8
<1>. QED BY <1>10, <1>11

LEMMA SubmitConv ==
    ASSUME Inv, Traffic, Typed, OwnersOK, Conv, NEW c \in Tabs, NEW type, NEW body, NEW p,
           p = Submitted(c, type, body), session'.log = session.log, latest' = latest,
           seen' = seen, clash \subseteq clash',
           pending' = [pending EXCEPT ![c] = Append(@, p)],
           UpFrom(c, {OpFrame(p)}), JobsFrom(c, {OpFrame(p)}), dom'[c] \in Text,
           \A d \in Tabs \ {c} : dom'[d] = dom[d],
           type # "replace" => dom'[c] = dom[c], FirstChange(c, type, body)
    PROVE  OwnersOK' /\ Conv'
<1>. DEFINE f == OpFrame(p)
<1>0. up = [d \in Tabs |-> up[d]] /\ pending = [d \in Tabs |-> pending[d]]
  BY DEF Traffic, UpOK, PendingOK
<1>1. OpsFrom(c, {f}) BY <1>0, ReqsStep
<1>2. pending'[c] = Append(pending[c], p) /\ \A d \in Tabs \ {c} : pending'[d] = pending[d]
  BY <1>0
<1>3. /\ p.cid = made + 1 /\ p.type = type /\ f.kind = "op" /\ f.cid = made + 1 /\ f.type = type
  BY DEF Submitted, MkPending, OpFrame
<1>4. IsSeq(pending[c]) /\ Distinct(pending[c]) BY TabFacts
<1>5. \A i \in DOMAIN pending[c] : pending[c][i].cid # p.cid
  <2>1. made \in Nat /\ made + 1 \notin 1..made BY DEF Traffic, LogCidsOK
  <2>. QED BY <1>3, <2>1 DEF Traffic, PendingOK, GoodPending
<1>6. /\ Distinct(pending'[c])
      /\ \A j \in DOMAIN pending'[c] : \/ /\ j \in DOMAIN pending[c]
                                          /\ pending'[c][j] = pending[c][j]
                                       \/ pending'[c][j] = p
  BY <1>2, <1>4, <1>5, UnseenAppend
<1>. HIDE DEF f
<1>7. NamesFrom(c, type)
  <2>. SUFFICES ASSUME NEW d \in Tabs, NEW x, NEW s, Names(d, x, s)'
                PROVE  Names(d, x, s) \/ (d = c /\ x = made + 1 /\ s = type)
    BY DEF NamesFrom
  <2>1. ASSUME NEW n \in DOMAIN pending'[d], pending'[d][n].cid = x, pending'[d][n].type = s
        PROVE  Names(d, x, s) \/ (d = c /\ x = made + 1 /\ s = type)
    <3>1. CASE d = c BY <1>3, <1>6, <2>1, <3>1 DEF Names, NameIn
    <3>2. CASE d # c BY <1>2, <2>1, <3>2 DEF Names, NameIn
    <3>. QED BY <3>1, <3>2
  <2>2. ASSUME NEW r \in Reqs(up', jobs', d), r.kind = "op", r.cid = x, r.type = s
        PROVE  Names(d, x, s) \/ (d = c /\ x = made + 1 /\ s = type)
    <3>1. r \in Reqs(up, jobs, d) \/ (d = c /\ r = f) BY <1>1, <2>2 DEF OpsFrom
    <3>. QED BY <1>3, <2>2, <3>1 DEF Names, NameIn
  <2>3. \/ \E n \in DOMAIN pending'[d] : pending'[d][n].cid = x /\ pending'[d][n].type = s
        \/ \E r \in Reqs(up', jobs', d) : r.kind = "op" /\ r.cid = x /\ r.type = s
    BY DEF Names, NameIn, Reqs
  <2>. QED BY <2>1, <2>2, <2>3
<1>8. \A d \in Tabs : Distinct(pending'[d]) BY <1>2, <1>6 DEF OwnersOK
<1>9. OwnersOK' BY <1>7, <1>8, OwnersStep
<1>10. Clean(c)' => Good(c)' BY <1>1, <1>2, SubmitGood DEF f
<1>11. ASSUME NEW d \in Tabs \ {c} PROVE Clean(d)' => Good(d)'
  <2>1. \A r \in Reqs(up', jobs', d) : r.kind = "op" => r \in Reqs(up, jobs, d)
    BY <1>1 DEF OpsFrom
  <2>2. SameReqs(d) BY <2>1 DEF SameReqs, LiveReq
  <2>3. Unseen(session.log, latest[d], pending'[d]) = Mine(d) BY <1>2 DEF Mine
  <2>. QED BY <2>2, <2>3, QuietTab
<1>. QED BY <1>9, <1>10, <1>11 DEF Conv

\* An edit, a commit of the editor's HTML, and the locks.
LEMMA EditConv ==
    ASSUME Inv, Traffic, Typed, OwnersOK, Conv, NEW c \in Tabs, Edit(c), Typed'
    PROVE  OwnersOK' /\ Conv'
<1>1. PICK i \in 0..Len(dom[c]), key \in plan.keys :
        LET op == Replace(i, key[1], SubSeq(<<made + 1>>, 1, key[2])) IN
        /\ ApplyReplace(dom[c], op) # dom[c]
        /\ dom' = [dom EXCEPT ![c] = ApplyReplace(@, op)]
        /\ SubmitOp(c, "replace", DiffPlainText(dom[c], dom'[c]))
        /\ clash' = clash \cup {x \in {c} : Unconfirmed(c)}
        /\ session' = session /\ latest' = latest /\ seen' = seen
  BY DEF Edit, seqVars
<1>. DEFINE body == DiffPlainText(dom[c], dom'[c])
            p == Submitted(c, "replace", body)
<1>2. dom \in [Tabs -> Text] /\ dom' \in [Tabs -> Text] BY DEF Typed, EditorTyped
<1>3. dom'[c] # dom[c] /\ (\A d \in Tabs \ {c} : dom'[d] = dom[d]) /\ dom'[c] \in Text
  BY <1>1, <1>2
<1>4. c \notin clash' => ~Unconfirmed(c) BY <1>1
<1>5. FirstChange(c, "replace", body) BY <1>3, <1>4 DEF FirstChange
<1>6. pending' = [pending EXCEPT ![c] = Append(@, p)] /\ Sends(c, <<OpFrame(p)>>)
  BY <1>1 DEF SubmitOp
<1>7. clash \subseteq clash' /\ session'.log = session.log /\ latest' = latest /\ seen' = seen BY <1>1
<1>. HIDE DEF body
<1>8. UpFrom(c, {OpFrame(p)}) /\ JobsFrom(c, {OpFrame(p)}) BY <1>6, SendsFrom
<1>. HIDE DEF p
<1>9. p = Submitted(c, "replace", body) BY DEF p
<1>. QED BY <1>3, <1>5, <1>6, <1>7, <1>8, <1>9, SubmitConv

\* An op that leaves the text.
LEMMA AsideConv ==
    ASSUME Inv, Traffic, Typed, OwnersOK, Conv, NEW c \in Tabs, NEW type, NEW body, NEW p,
           type # "replace", p = Submitted(c, type, body), session' = session, latest' = latest,
           seen' = seen, clash' = clash, dom' = dom,
           pending' = [pending EXCEPT ![c] = Append(@, p)],
           Sends(c, <<OpFrame(p)>>) \/ \E lk : Presents(c, lk, <<OpFrame(p)>>)
    PROVE  OwnersOK' /\ Conv'
<1>1. OpFrame(p).kind = "op" BY DEF OpFrame
<1>2. UpFrom(c, {OpFrame(p)}) /\ JobsFrom(c, {OpFrame(p)}) BY <1>1, SendsFrom, PresentsFrom
<1>3. FirstChange(c, type, body) BY DEF FirstChange
<1>4. dom'[c] \in Text BY DEF Typed, EditorTyped
<1>5. /\ session'.log = session.log /\ clash \subseteq clash' /\ dom'[c] = dom[c]
      /\ \A d \in Tabs \ {c} : dom'[d] = dom[d]
  OBVIOUS
<1>. QED BY <1>2, <1>3, <1>4, <1>5, SubmitConv

LEMMA CommitsConv ==
    ASSUME Inv, Traffic, Typed, OwnersOK, Conv, NEW c \in Tabs, FullSync(c) \/ FormatRetry(c)
    PROVE  OwnersOK' /\ Conv'
<1>1. /\ session' = session /\ latest' = latest /\ seen' = seen /\ clash' = clash /\ dom' = dom
      /\ \E body : SubmitOp(c, "format_commit", body)
  BY DEF FullSync, FormatRetry, seqVars
<1>2. PICK body : SubmitOp(c, "format_commit", body) BY <1>1
<1>3. PICK p : p = Submitted(c, "format_commit", body) OBVIOUS
<1>4. pending' = [pending EXCEPT ![c] = Append(@, p)] /\ Sends(c, <<OpFrame(p)>>)
  BY <1>2, <1>3 DEF SubmitOp
<1>5. PICK type : type = "format_commit" OBVIOUS
<1>6. type # "replace" /\ p = Submitted(c, type, body) BY <1>3, <1>5
<1>. QED BY <1>1, <1>4, <1>6, AsideConv

LEMMA CaretConv ==
    ASSUME Inv, Traffic, Typed, OwnersOK, Conv, NEW c \in Tabs, MoveCaret(c) \/ ReleaseLock(c)
    PROVE  OwnersOK' /\ Conv'
<1>1. session' = session /\ latest' = latest /\ seen' = seen /\ clash' = clash /\ dom' = dom
  BY DEF MoveCaret, ReleaseLock, seqVars
<1>2. CASE \E type \in {"lock", "unlock"} : \E body, lk : \E p : 
             /\ p = Submitted(c, type, body) /\ pending' = [pending EXCEPT ![c] = Append(@, p)]
             /\ Presents(c, lk, <<OpFrame(p)>>)
  <2>1. \A type \in {"lock", "unlock"} : type # "replace" OBVIOUS
  <2>. QED BY <1>1, <1>2, <2>1, AsideConv
<1>3. CASE Presents(c, Keep, <<>>) /\ pending' = pending
  <2>1. UpFrom(c, {}) /\ JobsFrom(c, {}) BY <1>3, PresentsFrom
  <2>2. up = [d \in Tabs |-> up[d]] BY DEF Traffic, UpOK
  <2>3. NoNewOps BY <2>1, <2>2, CalmReqs
  <2>. QED BY <1>1, <1>3, <2>3, StillKeeps
<1>4. CASE MoveCaret(c)
  <2>1. \/ \E r : LET p == Submitted(c, "lock", r)
                  IN  pending' = [pending EXCEPT ![c] = Append(@, p)] /\ Presents(c, r, <<OpFrame(p)>>)
        \/ Presents(c, Keep, <<>>) /\ pending' = pending
    BY <1>4 DEF MoveCaret
  <2>. QED BY <1>2, <1>3, <2>1
<1>5. CASE ReleaseLock(c)
  <2>1. LET p == Submitted(c, "unlock", NoRange)
        IN  pending' = [pending EXCEPT ![c] = Append(@, p)] /\ Presents(c, NoRange, <<OpFrame(p)>>)
    BY <1>5 DEF ReleaseLock
  <2>. QED BY <1>2, <2>1
<1>. QED BY <1>4, <1>5
-----------------------------------------------------------------------------
(* The other steps of a tab *)

\* What onopen sends again.
Resent(c) == {OpFrame(Raised(pending[c][n], latest[c])) : n \in DOMAIN pending[c]}

LEMMA ResentFields ==
    ASSUME NEW c, NEW r \in Resent(c)
    PROVE  \E n \in DOMAIN pending[c] :
             /\ r.kind = "op" /\ r.cid = pending[c][n].cid /\ r.type = pending[c][n].type
             /\ r.base = latest[c] /\ r.body = pending[c][n].body
<1>1. PICK n \in DOMAIN pending[c] : r = OpFrame(Raised(pending[c][n], latest[c])) BY DEF Resent
<1>. DEFINE p == pending[c][n]
            s == Raised(p, latest[c])
<1>2. s.cid = p.cid /\ s.type = p.type /\ s.base = latest[c] /\ s.body = p.body
  BY DEF Raised, MkPending
<1>. HIDE DEF s
<1>3. r.kind = "op" /\ r.cid = s.cid /\ r.type = s.type /\ r.base = s.base /\ r.body = s.body
  BY <1>1 DEF OpFrame, s
<1>. QED BY <1>2, <1>3

LEMMA OpenFrom ==
    ASSUME Inv, Traffic, NEW c \in Tabs, Open(c)
    PROVE  /\ OpsFrom(c, Resent(c))
           /\ \A d \in Tabs : SameOps(pending'[d], pending[d])
<1>. DEFINE ps == pending[c]
            raised == [n \in DOMAIN ps |-> IF ps[n].inFlight THEN ps[n]
                                           ELSE Raised(ps[n], latest[c])]
            T == {n \in DOMAIN ps : ~ps[n].inFlight}
            again == Kept(ps, T)
            resent == [n \in DOMAIN again |-> OpFrame(Raised(again[n], latest[c]))]
            sync == [kind |-> "sync", after |-> latest[c]]
            q == <<sync>> \o resent
<1>0. /\ jobs' = jobs /\ pending' = [pending EXCEPT ![c] = raised]
      /\ up' = [up EXCEPT ![c] = q]
  BY DEF Open, serverVars
<1>1. /\ up = [d \in Tabs |-> up[d]] /\ pending = [d \in Tabs |-> pending[d]] /\ IsSeq(ps)
  BY DEF Traffic, UpOK, PendingOK
<1>2. SameOps(raised, ps)
  <2>1. \A n \in DOMAIN ps : raised[n] = ps[n] \/ raised[n] = Raised(ps[n], latest[c]) OBVIOUS
  <2>2. DOMAIN raised = DOMAIN ps OBVIOUS
  <2>3. \A n \in DOMAIN ps : LET p == Raised(ps[n], latest[c]) IN
          p.cid = ps[n].cid /\ p.type = ps[n].type /\ p.body = ps[n].body
    BY DEF Raised, MkPending
  <2>. HIDE DEF raised, ps
  <2>. QED BY <2>1, <2>2, <2>3 DEF SameOps
<1>3. ASSUME NEW d \in Tabs PROVE SameOps(pending'[d], pending[d])
  <2>1. CASE d = c BY <1>0, <1>1, <1>2, <2>1
  <2>2. CASE d # c
    <3>1. pending'[d] = pending[d] BY <1>0, <1>1, <2>2
    <3>. QED BY <3>1 DEF SameOps
  <2>. QED BY <2>1, <2>2
<1>. HIDE DEF T
<1>4. /\ IsSeq(again)
      /\ \A k \in DOMAIN again : \E n \in DOMAIN ps : again[k] = ps[n]
  BY <1>1, KeptOf
<1>. HIDE DEF again
<1>5. Len(again) \in Nat /\ DOMAIN again = 1..Len(again) BY <1>4, IsSeqDom
<1>6. resent = [i \in 1..Len(again) |-> resent[i]] BY <1>5
<1>7. IsSeq(resent) /\ DOMAIN resent = DOMAIN again BY <1>5, <1>6, FunIsSeq
<1>8. ASSUME NEW k \in DOMAIN again PROVE resent[k] \in Resent(c) BY <1>4 DEF Resent
<1>9. sync.kind # "op" OBVIOUS
<1>. HIDE DEF resent, sync
<1>10. IsSeq(<<sync>>) /\ Len(<<sync>>) = 1 /\ <<sync>>[1] = sync BY PairIsSeq
<1>11. /\ IsSeq(q) /\ DOMAIN q = 1..(1 + Len(resent)) /\ Len(resent) \in Nat
       /\ \A i \in 1..1 : q[i] = <<sync>>[i]
       /\ \A i \in (1 + 1)..(1 + Len(resent)) : q[i] = resent[i - 1]
  BY <1>7, <1>10, ConcatIsSeq
<1>12. DOMAIN resent = 1..Len(resent) BY <1>7, IsSeqDom
<1>. HIDE DEF q
<1>13. ASSUME NEW n \in DOMAIN q PROVE q[n].kind # "op" \/ q[n] \in Resent(c)
  <2>1. CASE n = 1
    <3>1. q[n] = sync BY <1>10, <1>11, <2>1
    <3>. QED BY <1>9, <3>1
  <2>2. CASE n # 1
    <3>1. n \in (1 + 1)..(1 + Len(resent)) /\ n - 1 \in 1..Len(resent) BY <1>11, <2>2
    <3>2. q[n] = resent[n - 1] BY <1>11, <3>1
    <3>. QED BY <1>7, <1>8, <1>12, <3>1, <3>2
  <2>. QED BY <2>1, <2>2
<1>14. UpFrom(c, Resent(c))
  <2>1. FramesFrom(q, up[c], Resent(c)) BY <1>13 DEF FramesFrom
  <2>. QED BY <1>0, <2>1 DEF UpFrom
<1>15. JobsFrom(c, Resent(c)) BY <1>0 DEF JobsFrom
<1>16. OpsFrom(c, Resent(c)) BY <1>1, <1>14, <1>15, ReqsStep
<1>. QED BY <1>3, <1>16

LEMMA OpenConv ==
    ASSUME Inv, Traffic, Typed, OwnersOK, Conv, NEW c \in Tabs, Open(c)
    PROVE  OwnersOK' /\ Conv'
<1>1. /\ session' = session /\ latest' = latest /\ seen' = seen /\ clash' = clash /\ dom' = dom
  BY DEF Open, serverVars, seqVars
<1>2. OpsFrom(c, Resent(c)) /\ \A d \in Tabs : SameOps(pending'[d], pending[d]) BY OpenFrom
<1>3. \A d \in Tabs : Distinct(pending[d]) BY DEF OwnersOK
<1>4. \A d \in Tabs : /\ Distinct(pending'[d])
                      /\ Unseen(session.log, latest[d], pending'[d]) = Mine(d)
  BY <1>2, <1>3, SameUnseen DEF Mine
<1>5. NamesFrom(c, "replace")
  <2>. SUFFICES ASSUME NEW d \in Tabs, NEW x, NEW s, Names(d, x, s)' PROVE Names(d, x, s)
    BY DEF NamesFrom
  <2>1. ASSUME NEW n \in DOMAIN pending'[d], pending'[d][n].cid = x, pending'[d][n].type = s
        PROVE  Names(d, x, s)
    BY <1>2, <2>1 DEF SameOps, Names, NameIn
  <2>2. ASSUME NEW r \in Reqs(up', jobs', d), r.kind = "op", r.cid = x, r.type = s
        PROVE  Names(d, x, s)
    <3>1. CASE r \in Reqs(up, jobs, d) BY <2>2, <3>1 DEF Names, NameIn
    <3>2. CASE d = c /\ r \in Resent(c) BY <2>2, <3>2, ResentFields DEF Names, NameIn
    <3>. QED BY <1>2, <2>2, <3>1, <3>2 DEF OpsFrom
  <2>3. \/ \E n \in DOMAIN pending'[d] : pending'[d][n].cid = x /\ pending'[d][n].type = s
        \/ \E r \in Reqs(up', jobs', d) : r.kind = "op" /\ r.cid = x /\ r.type = s
    BY DEF Names, NameIn, Reqs
  <2>. QED BY <2>1, <2>2, <2>3
<1>6. OwnersOK' BY <1>1, <1>4, <1>5, OwnersStep
<1>7. ASSUME NEW d \in Tabs PROVE SameReqs(d)
  <2>. SUFFICES ASSUME NEW r \in Reqs(up', jobs', d), LiveReq(r), r \notin Reqs(up, jobs, d),
                       ~InLog(session.log, r.cid)
                PROVE  \E p \in Mine(d) : p.cid = r.cid /\ r.base = latest[d] /\ r.body = p.body
    BY DEF SameReqs
  <2>1. d = c /\ r \in Resent(c) BY <1>2 DEF OpsFrom, LiveReq
  <2>2. PICK n \in DOMAIN pending[c] :
          /\ r.kind = "op" /\ r.cid = pending[c][n].cid /\ r.type = pending[c][n].type
          /\ r.base = latest[c] /\ r.body = pending[c][n].body
    BY <2>1, ResentFields
  <2>3. LivePayload(pending[c][n]) BY <2>2 DEF LiveReq, LivePayload
  <2>4. Unlogged(session.log, pending[c][n].cid, latest[c]) BY <2>2 DEF InLog, Unlogged
  <2>5. Change(pending[c][n]) \in Mine(c) BY <2>3, <2>4, UnseenIn DEF Mine
  <2>. QED BY <2>1, <2>2, <2>5, ChangeFields
<1>8. \A d \in Tabs : Clean(d)' => Good(d)'
  <2>. SUFFICES ASSUME NEW d \in Tabs PROVE Clean(d)' => Good(d)' OBVIOUS
  <2>. QED BY <1>1, <1>4, <1>7, QuietTab
<1>. QED BY <1>6, <1>8 DEF Conv

LEMMA AskTame ==
    ASSUME NEW c, NEW req, req.kind # "op"
    PROVE  Tame(Http(c, req))
BY DEF Tame, Http, Job, MkJob

LEMMA StillConv ==
    ASSUME Inv, Traffic, Typed, OwnersOK, Conv, NEW c \in Tabs,
           \/ Start(c) \/ FlushPresence(c) \/ Drop(c) \/ Poll(c) \/ LoseHttp(c) \/ Receive(c)
    PROVE  OwnersOK' /\ Conv'
<1>1. /\ session' = session /\ latest' = latest /\ seen' = seen /\ clash' = clash
      /\ dom' = dom /\ pending' = pending
  BY DEF Start, FlushPresence, Drop, Poll, LoseHttp, Receive, serverVars, seqVars, editorVars
<1>2. UpFrom(c, {})
  <2>1. up' = up \/ up' = [up EXCEPT ![c] = <<>>]
    BY DEF Start, FlushPresence, Drop, Poll, LoseHttp, Receive, wireVars
  <2>. QED BY <2>1, UpFromSame, UpFromCleared
<1>3. \A j \in jobs' : j \in jobs \/ Tame(j)
  <2>. DEFINE J == {Http(c, [kind |-> "join", seed |-> dom[c]]), GetOps(c),
                    Http(c, [kind |-> "session"]), Http(c, Beat(presence[c]))}
  <2>1. \A j \in J : Tame(j)
    <3>1. Tame(Http(c, [kind |-> "join", seed |-> dom[c]])) BY AskTame
    <3>2. Tame(GetOps(c)) BY AskTame DEF GetOps
    <3>3. Tame(Http(c, [kind |-> "session"])) BY AskTame
    <3>4. Tame(Http(c, Beat(presence[c]))) BY AskTame DEF Beat
    <3>. QED BY <3>1, <3>2, <3>3, <3>4
  <2>2. CASE Drop(c)
    <3>1. ASSUME NEW j \in Orphans(c) PROVE Tame(Orphan(j))
      <4>1. j \in jobs BY DEF Orphans
      <4>. QED BY <4>1, OrphanFields DEF Tame
    <3>2. up[c] # <<>> => Tame(Orphan(Frame(c)))
      <4>1. IsSeq(up[c]) BY DEF Traffic, UpOK
      <4>2. up[c] # <<>> => Tame(Turned(Frame(c), "new", session, 0)) BY <4>1, TakenTame
      <4>3. /\ Turned(Frame(c), "new", session, 0).tab = c
            /\ Turned(Frame(c), "new", session, 0).req = Head(up[c])
            /\ Turned(Frame(c), "new", session, 0).at = "new"
        BY DEF Turned, Frame, Job, MkJob
      <4>. QED BY <4>2, <4>3, ReceivedFields DEF Tame
    <3>3. Tame(GetOps(c)) BY <2>1
    <3>. QED BY <2>2, <3>1, <3>2, <3>3, DropJobs
  <2>3. CASE ~Drop(c)
    <3>. SUFFICES jobs' \subseteq jobs \cup J BY <2>1
    <3>1. CASE Start(c) BY <3>1 DEF Start
    <3>2. CASE FlushPresence(c) BY <3>2 DEF FlushPresence
    <3>4. CASE Poll(c) BY <3>4 DEF Poll
    <3>5. CASE LoseHttp(c) BY <3>5 DEF LoseHttp
    <3>6. CASE Receive(c) BY <3>6 DEF Receive, serverVars
    <3>. QED BY <2>3, <3>1, <3>2, <3>4, <3>5, <3>6
  <2>. QED BY <2>2, <2>3
<1>4. NoNewOps
  <2>1. JobsFrom(c, {}) BY <1>3, TameJobs
  <2>2. up = [d \in Tabs |-> up[d]] BY DEF Traffic, UpOK
  <2>. QED BY <1>2, <2>1, <2>2, CalmReqs
<1>. QED BY <1>1, <1>4, StillKeeps

\* stop() forgets the pending ops.
LEMMA StopConv ==
    ASSUME Inv, Traffic, Typed, OwnersOK, Conv, NEW c \in Tabs, Stop(c)
    PROVE  OwnersOK' /\ Conv'
<1>1. /\ session' = session /\ latest' = latest /\ seen' = seen /\ dom' = dom /\ jobs' = jobs
      /\ clash \subseteq clash' /\ up' = [up EXCEPT ![c] = <<>>]
      /\ pending' = [pending EXCEPT ![c] = <<>>]
      /\ c \notin clash' => \A n \in DOMAIN pending[c] : ~LivePayload(pending[c][n])
  BY DEF Stop, serverVars, seqVars
<1>2. NoNewOps
  <2>1. UpFrom(c, {}) BY <1>1, UpFromCleared
  <2>2. JobsFrom(c, {}) BY <1>1 DEF JobsFrom
  <2>3. up = [d \in Tabs |-> up[d]] BY DEF Traffic, UpOK
  <2>. QED BY <2>1, <2>2, <2>3, CalmReqs
<1>3. pending = [d \in Tabs |-> pending[d]] BY DEF Traffic, PendingOK
<1>4. DOMAIN <<>> = {} BY PairIsSeq
<1>5. ASSUME NEW d \in Tabs
      PROVE  /\ OpsStay(pending'[d], pending[d]) /\ Distinct(pending'[d])
             /\ d \notin clash' => Unseen(session.log, latest[d], pending'[d]) = Mine(d)
  <2>1. CASE d = c
    <3>1. pending'[d] = <<>> BY <1>1, <1>3, <2>1
    <3>2. OpsStay(pending'[d], pending[d]) /\ Distinct(pending'[d])
      BY <1>4, <3>1 DEF OpsStay, Distinct
    <3>3. Unseen(session.log, latest[d], pending'[d]) = {} BY <1>4, <3>1, UnseenIn
    <3>4. d \notin clash' => Mine(d) = {} BY <1>1, <2>1, UnseenIn DEF Mine
    <3>. QED BY <3>2, <3>3, <3>4
  <2>2. CASE d # c
    <3>1. pending'[d] = pending[d] BY <1>1, <1>3, <2>2
    <3>2. OpsStay(pending[d], pending[d]) BY OpsStaySame
    <3>3. Distinct(pending[d]) BY DEF OwnersOK
    <3>4. Unseen(session.log, latest[d], pending[d]) = Mine(d) BY DEF Mine
    <3>. QED BY <3>1, <3>2, <3>3, <3>4
  <2>. QED BY <2>1, <2>2
<1>6. QuietStep BY <1>1, <1>2, <1>5 DEF QuietStep
<1>. QED BY <1>6, QuietKeeps

\* An HTTP answer comes back.
LEMMA AnswerConv ==
    ASSUME Inv, Traffic, Typed, OwnersOK, Conv, NEW r \in replies, Answer(r)
    PROVE  OwnersOK' /\ Conv'
<1>0. r.tab \in Tabs BY DEF Inv, RepliesOK, ReplyOK
<1>1. PICK c \in Tabs : c = r.tab BY <1>0
<1>2. /\ session' = session /\ latest' = latest /\ seen' = seen /\ pending' = pending
      /\ up' = up /\ jobs' = jobs /\ clash' = clash \cup {x \in {c} : dom'[c] # dom[c]}
      /\ dom' = dom \/ \E t : dom' = [dom EXCEPT ![c] = t]
  BY <1>1 DEF Answer, seqVars
<1>3. \A d \in Tabs : d \notin clash' => dom'[d] = dom[d]
  <2>1. dom \in [Tabs -> Text] BY DEF Typed, EditorTyped
  <2>2. \A d \in Tabs \ {c} : dom'[d] = dom[d] BY <1>2, <2>1
  <2>. QED BY <1>2, <2>2
<1>4. NoNewOps BY <1>2, SameWay
<1>. QED BY <1>2, <1>3, <1>4, StillKeeps

LEMMA UnsentSame ==
    ASSUME NEW ps, NEW x
    PROVE  SameOps(Unsent(ps, x), ps)
<1>. DEFINE q == Unsent(ps, x)
<1>1. DOMAIN q = DOMAIN ps BY DEF Unsent
<1>2. ASSUME NEW n \in DOMAIN ps
      PROVE  q[n].cid = ps[n].cid /\ q[n].type = ps[n].type /\ q[n].body = ps[n].body
  <2>1. \/ q[n] = ps[n]
        \/ q[n] = MkPending(x, ps[n].base, ps[n].type, ps[n].body, FALSE) /\ ps[n].cid = x
    BY DEF Unsent
  <2>. HIDE DEF q
  <2>. QED BY <2>1 DEF MkPending
<1>. HIDE DEF q
<1>. QED BY <1>1, <1>2 DEF SameOps, q

LEMMA FailedConv ==
    ASSUME Inv, Traffic, Typed, OwnersOK, Conv, NEW r \in replies, AnswerFailed(r)
    PROVE  OwnersOK' /\ Conv'
<1>0. r.tab \in Tabs BY DEF Inv, RepliesOK, ReplyOK
<1>1. PICK c \in Tabs : c = r.tab BY <1>0
<1>. DEFINE f == IF conn[c] = "open" THEN [kind |-> "sync", after |-> latest[c]]
                 ELSE [kind |-> "ops", after |-> latest[c]]
<1>2. /\ session' = session /\ latest' = latest /\ seen' = seen /\ dom' = dom /\ clash' = clash
      /\ pending' = pending \/ pending' = [pending EXCEPT ![c] = Unsent(@, r.req.cid)]
      /\ (up' = up /\ jobs' = jobs) \/ Sends(c, <<f>>)
  BY <1>1 DEF AnswerFailed, seqVars
<1>. HIDE DEF f
<1>3. NoNewOps
  <2>1. CASE up' = up /\ jobs' = jobs BY <2>1, SameWay
  <2>2. CASE Sends(c, <<f>>)
    <3>0. f.kind # "op" BY DEF f
    <3>1. UpFrom(c, {}) /\ JobsFrom(c, {}) BY <2>2, <3>0, SendsFrom
    <3>2. up = [d \in Tabs |-> up[d]] BY DEF Traffic, UpOK
    <3>. QED BY <3>1, <3>2, CalmReqs
  <2>. QED BY <1>2, <2>1, <2>2
<1>4. \A d \in Tabs : SameOps(pending'[d], pending[d])
  <2>1. pending = [d \in Tabs |-> pending[d]] BY DEF Traffic, PendingOK
  <2>2. \A d \in Tabs : pending'[d] = pending[d] \/ pending'[d] = Unsent(pending[d], r.req.cid)
    BY <1>2, <2>1
  <2>3. \A d \in Tabs : SameOps(pending[d], pending[d]) BY DEF SameOps
  <2>. QED BY <2>2, <2>3, UnsentSame
<1>5. \A d \in Tabs : Distinct(pending[d]) BY DEF OwnersOK
<1>6. QuietStep
  <2>1. \A d \in Tabs : /\ OpsStay(pending'[d], pending[d]) /\ Distinct(pending'[d])
                        /\ Unseen(session.log, latest[d], pending'[d]) = Mine(d)
    BY <1>4, <1>5, SameUnseen, SameOpsStay DEF Mine
  <2>. QED BY <1>2, <1>3, <2>1 DEF QuietStep
<1>. QED BY <1>6, QuietKeeps
-----------------------------------------------------------------------------
(* An error names no change of a tab that has not gone astray *)

Told(items, x) == \E k \in DOMAIN items : items[k].k = "error" /\ items[k].cid = x

TodoTold(x) == \E n \in DOMAIN todo : todo[n].item.k = "error" /\ todo[n].item.cid = x
DownTold(x) == \E c \in Tabs : \E n \in DOMAIN down[c] : Told(down[c][n], x)
RepsTold(x) == \E r \in replies : Told(r.items, x)
ErrorIn(x)  == TodoTold(x) \/ DownTold(x) \/ RepsTold(x)

Harmless(x) ==
    /\ x \in 0..made
    /\ \A c \in Tabs \ clash : \A n \in DOMAIN pending[c] :
         LivePayload(pending[c][n]) => pending[c][n].cid # x

ErrorsOK == \A x : ErrorIn(x) => Harmless(x)

LEMMA InitErrors == Init => ErrorsOK
<1>. SUFFICES ASSUME Init, NEW x PROVE ~ErrorIn(x) BY DEF ErrorsOK
<1>1. todo = <<>> /\ replies = {} /\ down = [c \in Tabs |-> <<>>] BY DEF Init
<1>2. DOMAIN <<>> = {} BY PairIsSeq
<1>. QED BY <1>1, <1>2 DEF ErrorIn, TodoTold, DownTold, RepsTold

\* The refusal is told to the room.
Aloud(j) == j.via # "http" /\ Verdict(j.ses, UserOf[j.tab], j.req) # "invalid"

\* Where the errors of the next state come from: the id 0 names no op.
Blames(x) == x = 0 \/ \E j \in jobs : RefuseOp(j) /\ x = j.req.cid /\ Aloud(j)

LEMMA TodoFrom ==
    ASSUME Inv, NEW x, TodoTold(x)',
           \/ todo' = todo
           \/ todo # <<>> /\ todo' = Tail(todo)
           \/ \E c \in Tabs : down[c] # <<>> /\ todo' = At(c, Head(down[c]))
           \/ \E r \in replies : todo' = At(r.tab, r.items)
    PROVE  ErrorIn(x)
<1>1. CASE todo' = todo BY <1>1 DEF ErrorIn, TodoTold
<1>2. CASE todo # <<>> /\ todo' = Tail(todo)
  <2>1. IsSeq(todo) BY DEF Inv, TodoOK
  <2>2. /\ DOMAIN Tail(todo) = 1..(Len(todo) - 1) /\ Len(todo) \in Nat /\ DOMAIN todo = 1..Len(todo)
        /\ \A i \in 1..(Len(todo) - 1) : Tail(todo)[i] = todo[i + 1]
    BY <1>2, <2>1, TailIsSeq, IsSeqDom
  <2>3. \A i \in 1..(Len(todo) - 1) : i + 1 \in DOMAIN todo BY <2>2
  <2>4. PICK n \in DOMAIN todo' : todo'[n].item.k = "error" /\ todo'[n].item.cid = x
    BY DEF TodoTold
  <2>5. n + 1 \in DOMAIN todo /\ todo'[n] = todo[n + 1] BY <1>2, <2>2, <2>3, <2>4
  <2>. QED BY <2>4, <2>5 DEF ErrorIn, TodoTold
<1>3. ASSUME NEW c \in Tabs, down[c] # <<>>, todo' = At(c, Head(down[c])) PROVE ErrorIn(x)
  <2>1. IsSeq(down[c]) BY DEF Inv, DownOK, GoodFrames
  <2>2. Head(down[c]) = down[c][1] /\ 1 \in DOMAIN down[c] BY <1>3, <2>1, TailIsSeq, IsSeqDom
  <2>3. Told(Head(down[c]), x) BY <1>3 DEF TodoTold, At, Told
  <2>. QED BY <2>2, <2>3 DEF ErrorIn, DownTold
<1>4. ASSUME NEW r \in replies, todo' = At(r.tab, r.items) PROVE ErrorIn(x)
  <2>1. Told(r.items, x) BY <1>4 DEF TodoTold, At, Told
  <2>. QED BY <2>1 DEF ErrorIn, RepsTold
<1>. QED BY <1>1, <1>2, <1>3, <1>4

LEMMA DownFrom ==
    ASSUME Inv, NEW x, DownTold(x)',
           \/ down' = down
           \/ \E c \in Tabs : down' = [down EXCEPT ![c] = <<>>]
           \/ \E c \in Tabs : down[c] # <<>> /\ down' = [down EXCEPT ![c] = Tail(@)]
           \/ \E frame : down' = Broadcast(frame) /\ (Told(frame, x) => Blames(x))
    PROVE  ErrorIn(x) \/ Blames(x)
<1>0. /\ down = [c \in Tabs |-> down[c]]
      /\ \A c \in Tabs : IsSeq(down[c]) /\ DOMAIN down[c] = 1..Len(down[c]) /\ Len(down[c]) \in Nat
  BY IsSeqDom DEF Inv, DownOK, GoodFrames
<1>. PICK d \in Tabs : \E n \in DOMAIN down'[d] : Told(down'[d][n], x) BY DEF DownTold
<1>1. PICK n \in DOMAIN down'[d] : Told(down'[d][n], x) OBVIOUS
<1>2. \A m \in DOMAIN down[d] : down'[d][n] = down[d][m] => ErrorIn(x)
  BY <1>1 DEF ErrorIn, DownTold
<1>3. CASE down'[d] = down[d] BY <1>2, <1>3
<1>4. CASE down'[d] = <<>>
  <2>1. DOMAIN <<>> = {} BY PairIsSeq
  <2>. QED BY <1>4, <2>1
<1>5. CASE down[d] # <<>> /\ down'[d] = Tail(down[d])
  <2>1. /\ DOMAIN Tail(down[d]) = 1..(Len(down[d]) - 1)
        /\ \A i \in 1..(Len(down[d]) - 1) : Tail(down[d])[i] = down[d][i + 1]
    BY <1>0, <1>5, TailIsSeq
  <2>2. \A i \in 1..(Len(down[d]) - 1) : i + 1 \in DOMAIN down[d] BY <1>0
  <2>. QED BY <1>2, <1>5, <2>1, <2>2
<1>6. ASSUME NEW frame, down'[d] = Append(down[d], frame), Told(frame, x) => Blames(x)
      PROVE  ErrorIn(x) \/ Blames(x)
  <2>1. /\ DOMAIN Append(down[d], frame) = 1..(Len(down[d]) + 1)
        /\ \A i \in 1..Len(down[d]) : Append(down[d], frame)[i] = down[d][i]
        /\ Append(down[d], frame)[Len(down[d]) + 1] = frame
    BY <1>0, AppendIsSeq
  <2>2. n \in DOMAIN down[d] \/ n = Len(down[d]) + 1 BY <1>0, <1>6, <2>1
  <2>3. CASE n \in DOMAIN down[d] BY <1>0, <1>2, <1>6, <2>1, <2>3
  <2>4. CASE n = Len(down[d]) + 1 BY <1>1, <1>6, <2>1, <2>4
  <2>. QED BY <2>2, <2>3, <2>4
<1>7. \/ down'[d] = down[d] \/ down'[d] = <<>>
      \/ down[d] # <<>> /\ down'[d] = Tail(down[d])
      \/ \E frame : down'[d] = Append(down[d], frame) /\ (Told(frame, x) => Blames(x))
  <2>1. CASE down' = down BY <2>1
  <2>2. CASE \E c \in Tabs : down' = [down EXCEPT ![c] = <<>>] BY <1>0, <2>2
  <2>3. CASE \E c \in Tabs : down[c] # <<>> /\ down' = [down EXCEPT ![c] = Tail(@)] BY <1>0, <2>3
  <2>4. ASSUME NEW frame, down' = Broadcast(frame), Told(frame, x) => Blames(x)
        PROVE  down'[d] = down[d] \/ down'[d] = Append(down[d], frame)
    BY <2>4 DEF Broadcast
  <2>. QED BY <2>1, <2>2, <2>3, <2>4
<1>. QED BY <1>3, <1>4, <1>5, <1>6, <1>7

LEMMA NothingTold ==
    ASSUME NEW items, \A k \in DOMAIN items : items[k].k # "error", NEW x
    PROVE  ~Told(items, x)
BY DEF Told

\* Ops and sessions are no errors.
LEMMA OpItemsTell ==
    ASSUME NEW ops, NEW s, NEW x
    PROVE  /\ ~Told(OpItems(ops), x)
           /\ ~Told(<<SessionItem(s)>>, x)
           /\ IsSeq(ops) => ~Told(Append(OpItems(ops), SessionItem(s)), x)
<1>. DEFINE v == SessionItem(s)
            q == OpItems(ops)
<1>1. v.k = "session" BY DEF SessionItem
<1>2. DOMAIN q = DOMAIN ops /\ \A k \in DOMAIN ops : q[k].k = "op" BY DEF OpItems, OpItem
<1>3. ~Told(q, x) BY <1>2, NothingTold
<1>4. DOMAIN <<v>> = {1} /\ <<v>>[1] = v BY PairIsSeq
<1>5. ~Told(<<v>>, x) BY <1>1, <1>4, NothingTold
<1>6. ASSUME IsSeq(ops) PROVE ~Told(Append(q, v), x)
  <2>1. Len(ops) \in Nat /\ DOMAIN ops = 1..Len(ops) BY <1>6, IsSeqDom
  <2>2. q = [i \in 1..Len(ops) |-> q[i]] BY <2>1 DEF OpItems
  <2>3. IsSeq(q) /\ DOMAIN q = 1..Len(ops) BY <2>1, <2>2, FunIsSeq
  <2>. HIDE DEF q, v
  <2>4. Len(q) \in Nat /\ DOMAIN q = 1..Len(q) BY <2>3, IsSeqDom
  <2>5. /\ DOMAIN Append(q, v) = 1..(Len(q) + 1)
        /\ \A i \in 1..Len(q) : Append(q, v)[i] = q[i]
        /\ Append(q, v)[Len(q) + 1] = v
    BY <2>3, AppendIsSeq
  <2>6. \A k \in DOMAIN Append(q, v) : Append(q, v)[k] = v \/ (k \in DOMAIN q /\ Append(q, v)[k] = q[k])
    BY <2>4, <2>5
  <2>7. \A k \in DOMAIN Append(q, v) : Append(q, v)[k].k # "error" BY <1>1, <1>2, <2>6
  <2>. QED BY <2>7, NothingTold
<1>. QED BY <1>3, <1>5, <1>6

LEMMA OneTells ==
    ASSUME NEW e, NEW i, NEW x
    PROVE  /\ Told(<<ErrorItem(e, i)>>, x) => x = i
           /\ \A op, ack, s : /\ ~Told(<<OpItem(op, ack)>>, x)
                              /\ ~Told(<<OpItem(op, ack), SessionItem(s)>>, x)
<1>1. Told(<<ErrorItem(e, i)>>, x) => x = i BY PairIsSeq DEF Told, ErrorItem
<1>2. ASSUME NEW op, NEW ack, NEW s
      PROVE  ~Told(<<OpItem(op, ack)>>, x) /\ ~Told(<<OpItem(op, ack), SessionItem(s)>>, x)
  <2>. DEFINE o == OpItem(op, ack)
              v == SessionItem(s)
  <2>1. o.k # "error" /\ v.k # "error" BY DEF OpItem, SessionItem
  <2>. HIDE DEF o, v
  <2>2. /\ DOMAIN <<o>> = {1} /\ <<o>>[1] = o /\ DOMAIN <<o, v>> = {1, 2}
        /\ <<o, v>>[1] = o /\ <<o, v>>[2] = v
    BY PairIsSeq
  <2>3. \A k \in {1} : <<o>>[k].k # "error" BY <2>1, <2>2
  <2>4. \A k \in {1, 2} : <<o, v>>[k].k # "error" BY <2>1, <2>2
  <2>5. ~Told(<<o>>, x) BY <2>2, <2>3, NothingTold
  <2>6. ~Told(<<o, v>>, x) BY <2>2, <2>4, NothingTold
  <2>. QED BY <2>5, <2>6 DEF o, v
<1>. QED BY <1>1, <1>2

\* The ways a step deals with the items under way.
TodoMoves ==
    \/ todo' = todo
    \/ todo # <<>> /\ todo' = Tail(todo)
    \/ \E c \in Tabs : down[c] # <<>> /\ todo' = At(c, Head(down[c]))
    \/ \E r \in replies : todo' = At(r.tab, r.items)

DownMoves(x) ==
    \/ down' = down
    \/ \E c \in Tabs : down' = [down EXCEPT ![c] = <<>>]
    \/ \E c \in Tabs : down[c] # <<>> /\ down' = [down EXCEPT ![c] = Tail(@)]
    \/ \E frame : down' = Broadcast(frame) /\ (Told(frame, x) => Blames(x))

RepsMove(x) == \A r \in replies' : r \in replies \/ (Told(r.items, x) => x = 0)

LEMMA ErrorsMove ==
    ASSUME Inv, NEW x, ErrorIn(x)', TodoMoves, DownMoves(x), RepsMove(x)
    PROVE  ErrorIn(x) \/ Blames(x)
<1>1. ASSUME TodoTold(x)' PROVE ErrorIn(x) BY <1>1, TodoFrom DEF TodoMoves
<1>2. ASSUME DownTold(x)' PROVE ErrorIn(x) \/ Blames(x) BY <1>2, DownFrom DEF DownMoves
<1>3. ASSUME RepsTold(x)' PROVE ErrorIn(x) \/ Blames(x)
  <2>1. PICK r \in replies' : Told(r.items, x) BY <1>3 DEF RepsTold
  <2>. QED BY <2>1 DEF RepsMove, ErrorIn, RepsTold, Blames
<1>. QED BY <1>1, <1>2, <1>3 DEF ErrorIn

LEMMA RefusalMoves ==
    ASSUME NEW j, NEW code, NEW x, Refuse(j, code)
    PROVE  RepsMove(x)
<1>. DEFINE r == MkReply(j.tab, j.req, FALSE, <<ErrorItem(code, 0)>>)
<1>1. r.items = <<ErrorItem(code, 0)>> BY DEF MkReply
<1>2. Told(r.items, x) => x = 0 BY <1>1, OneTells
<1>. HIDE DEF r
<1>3. replies' \subseteq replies \cup {r} BY DEF Refuse, r
<1>. QED BY <1>2, <1>3 DEF RepsMove

LEMMA ReplyMoves ==
    ASSUME NEW j, NEW items, NEW x, Reply(j, items), ~Told(items, x)
    PROVE  RepsMove(x)
<1>. DEFINE r == MkReply(j.tab, j.req, TRUE, items)
<1>1. r.items = items BY DEF MkReply
<1>. HIDE DEF r
<1>2. replies' \subseteq replies \cup {r} BY DEF Reply, r
<1>. QED BY <1>1, <1>2 DEF RepsMove

LEMMA BackendErrors ==
    ASSUME Inv, Backend, NEW x
    PROVE  TodoMoves /\ DownMoves(x) /\ RepsMove(x)
<1>1. ASSUME NEW c \in Tabs, TakeWrite(c) \/ TakeSync(c)
      PROVE  TodoMoves /\ DownMoves(x) /\ RepsMove(x)
  BY <1>1 DEF TakeWrite, TakeSync, ReadFor, TodoMoves, DownMoves, RepsMove
<1>2. ASSUME NEW j \in jobs, ReadSession(j) PROVE TodoMoves /\ DownMoves(x) /\ RepsMove(x)
  BY <1>2 DEF ReadSession, ReadFor, TodoMoves, DownMoves, RepsMove
<1>3. ASSUME NEW j \in jobs, SaveSession(j) PROVE TodoMoves /\ DownMoves(x) /\ RepsMove(x)
  <2>1. todo' = todo /\ down' = down /\ (replies' = replies \/ Refuse(j, "conflict"))
    BY <1>3 DEF SaveSession, wireVars
  <2>2. RepsMove(x)
    <3>1. CASE replies' = replies BY <3>1 DEF RepsMove
    <3>. QED BY <2>1, <3>1, RefusalMoves
  <2>. QED BY <2>1, <2>2 DEF TodoMoves, DownMoves
<1>4. ASSUME NEW j \in jobs, RefuseOp(j) PROVE TodoMoves /\ DownMoves(x) /\ RepsMove(x)
  <2>1. PICK v : v = Verdict(j.ses, UserOf[j.tab], j.req) OBVIOUS
  <2>2. /\ todo' = todo /\ Refuse(j, v)
        /\ down' = down \/ (Aloud(j) /\ down' = Broadcast(<<ErrorItem(v, j.req.cid)>>))
    BY <1>4, <2>1 DEF RefuseOp, Aloud
  <2>3. Aloud(j) /\ Told(<<ErrorItem(v, j.req.cid)>>, x) => Blames(x)
    BY <1>4, OneTells DEF Blames
  <2>4. DownMoves(x) BY <2>2, <2>3 DEF DownMoves
  <2>5. RepsMove(x) BY <2>2, RefusalMoves
  <2>. QED BY <2>2, <2>4, <2>5 DEF TodoMoves
<1>5. ASSUME NEW j \in jobs, Publish(j) PROVE TodoMoves /\ DownMoves(x) /\ RepsMove(x)
  <2>. DEFINE a == <<OpItem(Last(j.ses.log), FALSE), SessionItem(j.ses)>>
              v == <<SessionItem(j.ses)>>
              o == <<OpItem(Last(j.ses.log), TRUE)>>
  <2>1. todo' = todo /\ (down' = Broadcast(a) \/ down' = Broadcast(v) \/ down' = down)
    BY <1>5 DEF Publish
  <2>2. Reply(j, o) \/ Reply(j, v) BY <1>5 DEF Publish
  <2>3. ~Told(a, x) /\ ~Told(v, x) /\ ~Told(o, x) BY OneTells, OpItemsTell
  <2>. HIDE DEF a, v, o
  <2>4. RepsMove(x) BY <2>2, <2>3, ReplyMoves
  <2>. QED BY <2>1, <2>3, <2>4 DEF TodoMoves, DownMoves
<1>6. ASSUME NEW j \in jobs, SyncSend(j) PROVE TodoMoves /\ DownMoves(x) /\ RepsMove(x)
  <2>. DEFINE f == Append(OpItems(j.ses.log), SessionItem(session))
  <2>1. /\ todo' = todo /\ replies' = replies /\ down' = Broadcast(f)
        /\ j.at = "read" /\ j.req.kind = "sync"
    BY <1>6 DEF SyncSend
  <2>2. IsSeq(j.ses.log) BY <2>1 DEF Inv, JobsOK, JobOK
  <2>3. ~Told(f, x) BY <2>2, OpItemsTell
  <2>. HIDE DEF f
  <2>. QED BY <2>1, <2>3 DEF TodoMoves, DownMoves, RepsMove
<1>7. ASSUME NEW j \in jobs, AnswerGet(j) PROVE TodoMoves /\ DownMoves(x) /\ RepsMove(x)
  <2>1. /\ todo' = todo /\ down' = down
        /\ Reply(j, OpItems(OpsAfter(session, j.req.after))) \/ Reply(j, <<SessionItem(session)>>)
    BY <1>7 DEF AnswerGet, wireVars
  <2>2. RepsMove(x) BY <2>1, OpItemsTell, ReplyMoves
  <2>. QED BY <2>1, <2>2 DEF TodoMoves, DownMoves
<1>8. ASSUME NEW j \in jobs, AbortFrame(j) PROVE TodoMoves /\ DownMoves(x) /\ RepsMove(x)
  BY <1>8 DEF AbortFrame, wireVars, TodoMoves, DownMoves, RepsMove
<1>. QED BY <1>1, <1>2, <1>3, <1>4, <1>5, <1>6, <1>7, <1>8 DEF Backend

LEMMA ClientErrors ==
    ASSUME NEW c \in Tabs, Client(c), NEW x
    PROVE  TodoMoves /\ DownMoves(x) /\ RepsMove(x)
<1>1. CASE Receive(c)
  <2>1. /\ replies' = replies /\ down[c] # <<>> /\ todo' = At(c, Head(down[c]))
        /\ down' = [down EXCEPT ![c] = Tail(@)]
    BY <1>1 DEF Receive, serverVars
  <2>. QED BY <2>1 DEF TodoMoves, DownMoves, RepsMove
<1>2. CASE LoseHttp(c)
  <2>1. /\ todo' = todo /\ down' = down
        /\ \E req : replies' \subseteq replies \cup {MkReply(c, req, FALSE, <<ErrorItem("network", 0)>>)}
    BY <1>2 DEF LoseHttp, wireVars
  <2>2. PICK req : replies' \subseteq replies \cup {MkReply(c, req, FALSE, <<ErrorItem("network", 0)>>)}
    BY <2>1
  <2>. DEFINE r == MkReply(c, req, FALSE, <<ErrorItem("network", 0)>>)
  <2>3. r.items = <<ErrorItem("network", 0)>> BY DEF MkReply
  <2>4. Told(r.items, x) => x = 0 BY <2>3, OneTells
  <2>. HIDE DEF r
  <2>5. RepsMove(x) BY <2>2, <2>4 DEF RepsMove, r
  <2>. QED BY <2>1, <2>5 DEF TodoMoves, DownMoves
<1>3. CASE Drop(c) \/ Stop(c)
  <2>1. todo' = todo /\ replies' = replies /\ down' = [down EXCEPT ![c] = <<>>]
    BY <1>3 DEF Drop, Stop, serverVars
  <2>. QED BY <2>1 DEF TodoMoves, DownMoves, RepsMove
<1>4. CASE ~(Receive(c) \/ LoseHttp(c) \/ Drop(c) \/ Stop(c))
  <2>1. todo' = todo /\ replies' = replies /\ down' = down
    <3>1. CASE Start(c) \/ Edit(c) \/ FullSync(c) \/ FormatRetry(c)
      BY <3>1 DEF Start, Edit, FullSync, FormatRetry
    <3>2. CASE MoveCaret(c) \/ ReleaseLock(c) \/ FlushPresence(c)
      BY <3>2 DEF MoveCaret, ReleaseLock, FlushPresence, wireVars
    <3>3. CASE Open(c) \/ Poll(c) BY <3>3 DEF Open, Poll, serverVars, wireVars
    <3>. QED BY <1>4, <3>1, <3>2, <3>3 DEF Client
  <2>. QED BY <2>1 DEF TodoMoves, DownMoves, RepsMove
<1>. QED BY <1>1, <1>2, <1>3, <1>4

LEMMA HandlerErrors ==
    ASSUME Handler, NEW x
    PROVE  TodoMoves /\ DownMoves(x) /\ RepsMove(x)
<1>1. CASE StepOp \/ StepSession \/ StepError
  <2>1. todo # <<>> /\ todo' = Tail(todo) /\ down' = down /\ replies' = replies
    BY <1>1 DEF StepOp, StepSession, StepError, serverVars, wireVars
  <2>. QED BY <2>1 DEF TodoMoves, DownMoves, RepsMove
<1>2. ASSUME NEW r \in replies, Answer(r) PROVE TodoMoves /\ DownMoves(x) /\ RepsMove(x)
  <2>1. todo' = At(r.tab, r.items) /\ down' = down /\ replies' = replies \ {r}
    BY <1>2 DEF Answer
  <2>. QED BY <2>1 DEF TodoMoves, DownMoves, RepsMove
<1>3. ASSUME NEW r \in replies, AnswerFailed(r) PROVE TodoMoves /\ DownMoves(x) /\ RepsMove(x)
  <2>1. todo' = todo /\ down' = down /\ replies' = replies \ {r}
    BY <1>3 DEF AnswerFailed
  <2>. QED BY <2>1 DEF TodoMoves, DownMoves, RepsMove
<1>. QED BY <1>1, <1>2, <1>3 DEF Handler

LEMMA ErrorsFrom ==
    ASSUME Inv, [Next]_vars, NEW x, ErrorIn(x)'
    PROVE  ErrorIn(x) \/ Blames(x)
<1>1. CASE Backend BY <1>1, BackendErrors, ErrorsMove
<1>2. CASE Handler BY <1>2, HandlerErrors, ErrorsMove
<1>3. ASSUME NEW c \in Tabs, Client(c) PROVE ErrorIn(x) \/ Blames(x) BY <1>3, ClientErrors, ErrorsMove
<1>4. CASE UNCHANGED vars
  <2>1. todo' = todo /\ down' = down /\ replies' = replies BY <1>4 DEF vars, serverVars, wireVars
  <2>. QED BY <2>1 DEF ErrorIn, TodoTold, DownTold, RepsTold
<1>. QED BY <1>1, <1>2, <1>3, <1>4 DEF Next

\* No step brings a change under an id that was not one's already, but for the
\* next id.
QueueLives(q, ps) ==
    \A n \in DOMAIN q : LivePayload(q[n]) =>
        \/ \E m \in DOMAIN ps : LivePayload(ps[m]) /\ ps[m].cid = q[n].cid
        \/ q[n].cid = made + 1

LivesStay ==
    /\ clash \subseteq clash' /\ made' \in Nat /\ made <= made'
    /\ \A c \in Tabs : QueueLives(pending'[c], pending[c])

LEMMA LivesSame == ASSUME NEW ps PROVE QueueLives(ps, ps)
BY DEF QueueLives

LEMMA LivesSameOps == ASSUME NEW q, NEW ps, SameOps(q, ps) PROVE QueueLives(q, ps)
BY DEF QueueLives, SameOps, LivePayload

LEMMA LivesThrough ==
    ASSUME NEW r, NEW ps, QueueLives(r, ps), NEW op
    PROVE  QueueLives(Through(r, op), ps)
<1>. DEFINE q == Through(r, op)
<1>1. DOMAIN q = DOMAIN r BY DEF Through
<1>2. ASSUME NEW n \in DOMAIN r PROVE q[n].cid = r[n].cid /\ (~LivePayload(r[n]) => q[n] = r[n])
  BY DEF Through, MkPending
<1>. HIDE DEF q
<1>3. ASSUME NEW n \in DOMAIN q, LivePayload(q[n])
      PROVE  \/ \E m \in DOMAIN ps : LivePayload(ps[m]) /\ ps[m].cid = q[n].cid
             \/ q[n].cid = made + 1
  <2>1. n \in DOMAIN r /\ q[n].cid = r[n].cid /\ LivePayload(r[n]) BY <1>1, <1>2, <1>3
  <2>. QED BY <2>1 DEF QueueLives
<1>4. QueueLives(q, ps) BY <1>3 DEF QueueLives
<1>. QED BY <1>4 DEF q

LEMMA LivesWithout ==
    ASSUME NEW ps, IsSeq(ps), Distinct(ps), NEW x
    PROVE  QueueLives(Without(ps, x), ps)
<1>1. \A j \in DOMAIN Without(ps, x) : \E i \in DOMAIN ps : Without(ps, x)[j] = ps[i]
  BY UnseenWithout
<1>. QED BY <1>1 DEF QueueLives

LEMMA LivesAppend ==
    ASSUME NEW ps, IsSeq(ps), NEW p, p.cid = made + 1
    PROVE  QueueLives(Append(ps, p), ps)
<1>. DEFINE q == Append(ps, p)
<1>1. /\ DOMAIN q = 1..(Len(ps) + 1) /\ \A i \in 1..Len(ps) : q[i] = ps[i]
      /\ q[Len(ps) + 1] = p
  BY AppendIsSeq
<1>2. Len(ps) \in Nat /\ DOMAIN ps = 1..Len(ps) BY IsSeqDom
<1>. HIDE DEF q
<1>3. \A n \in DOMAIN q : (n \in DOMAIN ps /\ q[n] = ps[n]) \/ q[n] = p BY <1>1, <1>2
<1>4. QueueLives(q, ps) BY <1>3 DEF QueueLives
<1>. QED BY <1>4 DEF q

\* One tab's queue changes.
LEMMA LivesOf ==
    ASSUME Traffic, NEW c \in Tabs, NEW q, QueueLives(q, pending[c]), clash \subseteq clash',
           made' = made \/ made' = made + 1,
           pending' = pending \/ pending' = [pending EXCEPT ![c] = q]
    PROVE  LivesStay
<1>1. made \in Nat BY DEF Traffic, LogCidsOK
<1>2. made' \in Nat /\ made <= made' BY <1>1
<1>3. pending = [d \in Tabs |-> pending[d]] BY DEF Traffic, PendingOK
<1>4. ASSUME NEW d \in Tabs PROVE QueueLives(pending'[d], pending[d])
  <2>1. pending'[d] = pending[d] \/ (d = c /\ pending'[d] = q) BY <1>3
  <2>. QED BY <2>1, LivesSame
<1>. QED BY <1>2, <1>4 DEF LivesStay

LEMMA StillLives ==
    ASSUME Traffic, clash \subseteq clash', made' = made, pending' = pending
    PROVE  LivesStay
<1>1. made \in Nat BY DEF Traffic, LogCidsOK
<1>2. made' \in Nat /\ made <= made' BY <1>1
<1>. QED BY <1>2, LivesSame DEF LivesStay

LEMMA BackendLives ==
    ASSUME Traffic, Backend
    PROVE  LivesStay
<1>1. pending' = pending /\ made' = made /\ clash \subseteq clash'
  <2>1. ASSUME NEW c \in Tabs, TakeWrite(c) \/ TakeSync(c)
        PROVE  pending' = pending /\ made' = made /\ clash \subseteq clash'
    BY <2>1 DEF TakeWrite, TakeSync, ReadFor, editorVars, bounds
  <2>2. ASSUME NEW j \in jobs, ReadSession(j) \/ SaveSession(j) \/ RefuseOp(j)
        PROVE  pending' = pending /\ made' = made /\ clash \subseteq clash'
    BY <2>2 DEF ReadSession, ReadFor, SaveSession, RefuseOp, editorVars, bounds
  <2>3. ASSUME NEW j \in jobs, Publish(j) \/ SyncSend(j) \/ AnswerGet(j) \/ AbortFrame(j)
        PROVE  pending' = pending /\ made' = made /\ clash \subseteq clash'
    BY <2>3 DEF Publish, SyncSend, AnswerGet, AbortFrame, editorVars, bounds
  <2>. QED BY <2>1, <2>2, <2>3 DEF Backend
<1>. QED BY <1>1, StillLives

LEMMA ClientLives ==
    ASSUME Traffic, NEW c \in Tabs, Client(c)
    PROVE  LivesStay
<1>0. IsSeq(pending[c]) BY DEF Traffic, PendingOK
<1>1. CASE \/ Start(c) \/ FlushPresence(c) \/ Drop(c) \/ Poll(c) \/ LoseHttp(c) \/ Receive(c)
  <2>1. pending' = pending /\ made' = made /\ clash' = clash
    BY <1>1 DEF Start, FlushPresence, Drop, Poll, LoseHttp, Receive, editorVars, bounds
  <2>. QED BY <2>1, StillLives
<1>2. CASE Open(c)
  <2>1. SameOps(pending'[c], pending[c]) /\ pending' = [pending EXCEPT ![c] = pending'[c]]
    <3>1. pending = [d \in Tabs |-> pending[d]] BY DEF Traffic, PendingOK
    <3>. DEFINE q == [n \in DOMAIN pending[c] |->
                        IF pending[c][n].inFlight THEN pending[c][n]
                        ELSE Raised(pending[c][n], latest[c])]
    <3>2. pending' = [pending EXCEPT ![c] = q] BY <1>2 DEF Open
    <3>3. SameOps(q, pending[c])
      <4>1. ASSUME NEW n \in DOMAIN pending[c]
            PROVE  /\ q[n].cid = pending[c][n].cid /\ q[n].type = pending[c][n].type
                   /\ q[n].body = pending[c][n].body
        <5>1. q[n] = pending[c][n] \/ q[n] = Raised(pending[c][n], latest[c]) OBVIOUS
        <5>. HIDE DEF q
        <5>. QED BY <5>1 DEF Raised, MkPending
      <4>2. DOMAIN q = DOMAIN pending[c] OBVIOUS
      <4>. HIDE DEF q
      <4>. QED BY <4>1, <4>2 DEF SameOps
    <3>. HIDE DEF q
    <3>. QED BY <3>1, <3>2, <3>3
  <2>2. made' = made /\ clash' = clash BY <1>2 DEF Open, bounds
  <2>3. QueueLives(pending'[c], pending[c]) BY <2>1, LivesSameOps
  <2>. QED BY <2>1, <2>2, <2>3, LivesOf
<1>3. CASE Stop(c)
  <2>1. pending' = [pending EXCEPT ![c] = <<>>] /\ made' = made /\ clash \subseteq clash'
    BY <1>3 DEF Stop, bounds
  <2>2. QueueLives(<<>>, pending[c]) BY PairIsSeq DEF QueueLives
  <2>. QED BY <2>1, <2>2, LivesOf
<1>4. CASE \/ Edit(c) \/ FullSync(c) \/ FormatRetry(c) \/ MoveCaret(c) \/ ReleaseLock(c)
  <2>1. /\ clash \subseteq clash' /\ (made' = made \/ made' = made + 1)
        /\ \/ pending' = pending
           \/ \E type, body : pending' = [pending EXCEPT ![c] = Append(@, Submitted(c, type, body))]
    BY <1>4 DEF Edit, FullSync, FormatRetry, MoveCaret, ReleaseLock, SubmitOp
  <2>2. CASE pending' = pending BY <2>1, <2>2, LivesSame, LivesOf
  <2>3. ASSUME NEW type, NEW body,
               pending' = [pending EXCEPT ![c] = Append(@, Submitted(c, type, body))]
        PROVE  LivesStay
    <3>1. Submitted(c, type, body).cid = made + 1 BY DEF Submitted, MkPending
    <3>2. QueueLives(Append(pending[c], Submitted(c, type, body)), pending[c])
      BY <1>0, <3>1, LivesAppend
    <3>. QED BY <2>1, <2>3, <3>2, LivesOf
  <2>. QED BY <2>1, <2>2, <2>3
<1>. QED BY <1>1, <1>2, <1>3, <1>4 DEF Client

LEMMA HandlerLives ==
    ASSUME Inv, Traffic, OwnersOK, Handler
    PROVE  LivesStay
<1>0. \A c \in Tabs : IsSeq(pending[c]) /\ Distinct(pending[c]) BY DEF Traffic, PendingOK, OwnersOK
<1>1. CASE StepOp
  <2>1. todo # <<>> /\ made' = made BY <1>1 DEF StepOp, bounds
  <2>2. Head(todo).tab \in Tabs BY <2>1, HeadItem
  <2>3. PICK c \in Tabs : c = Head(todo).tab BY <2>2
  <2>3a. PICK op : op = Head(todo).item.op OBVIOUS
  <2>. DEFINE r == Without(pending[c], op.cid)
  <2>4. /\ clash \subseteq clash'
        /\ \/ pending' = pending \/ pending' = [pending EXCEPT ![c] = r]
           \/ pending' = [pending EXCEPT ![c] = Through(r, op)]
    BY <1>1, <2>3, <2>3a DEF StepOp, IngestOp
  <2>5. QueueLives(r, pending[c]) BY <1>0, LivesWithout
  <2>. HIDE DEF r
  <2>6. QueueLives(Through(r, op), pending[c]) BY <2>5, LivesThrough
  <2>. QED BY <2>1, <2>4, <2>5, <2>6, LivesOf
<1>2. CASE StepSession
  <2>1. pending' = pending /\ made' = made /\ clash' = clash BY <1>2 DEF StepSession, bounds
  <2>. QED BY <2>1, StillLives
<1>3. CASE StepError
  <2>1. todo # <<>> /\ made' = made /\ clash' = clash BY <1>3 DEF StepError, bounds
  <2>2. Head(todo).tab \in Tabs BY <2>1, HeadItem
  <2>3. PICK c \in Tabs : c = Head(todo).tab BY <2>2
  <2>3a. PICK x : x = Head(todo).item.cid OBVIOUS
  <2>4. pending' = [pending EXCEPT ![c] = Without(pending[c], x)] BY <1>3, <2>3, <2>3a DEF StepError
  <2>5. QueueLives(Without(pending[c], x), pending[c]) BY <1>0, LivesWithout
  <2>. QED BY <2>1, <2>4, <2>5, LivesOf
<1>4. ASSUME NEW r \in replies, Answer(r) PROVE LivesStay
  <2>1. pending' = pending /\ made' = made /\ clash \subseteq clash' BY <1>4 DEF Answer, bounds
  <2>. QED BY <2>1, StillLives
<1>5. ASSUME NEW r \in replies, AnswerFailed(r) PROVE LivesStay
  <2>0. r.tab \in Tabs BY DEF Inv, RepliesOK, ReplyOK
  <2>1. PICK c \in Tabs : c = r.tab BY <2>0
  <2>2. /\ made' = made /\ clash' = clash
        /\ pending' = pending \/ pending' = [pending EXCEPT ![c] = Unsent(pending[c], r.req.cid)]
    BY <1>5, <2>1 DEF AnswerFailed, bounds
  <2>3. QueueLives(Unsent(pending[c], r.req.cid), pending[c]) BY UnsentSame, LivesSameOps
  <2>. QED BY <2>2, <2>3, LivesOf
<1>. QED BY <1>1, <1>2, <1>3, <1>4, <1>5 DEF Handler

LEMMA NextLives ==
    ASSUME Inv, Traffic, OwnersOK, [Next]_vars
    PROVE  LivesStay
<1>1. CASE UNCHANGED vars
  <2>1. pending' = pending /\ made' = made /\ clash' = clash BY <1>1 DEF vars, editorVars, bounds
  <2>. QED BY <2>1, StillLives
<1>. QED BY <1>1, BackendLives, ClientLives, HandlerLives DEF Next

LEMMA HarmlessStays ==
    ASSUME Traffic, LivesStay, NEW x, Harmless(x)
    PROVE  Harmless(x)'
<1>1. made \in Nat /\ x \in 0..made' /\ x # made + 1
  BY DEF Traffic, LogCidsOK, LivesStay, Harmless
<1>2. ASSUME NEW c \in Tabs \ clash', NEW n \in DOMAIN pending'[c], LivePayload(pending'[c][n])
      PROVE  pending'[c][n].cid # x
  <2>1. c \in Tabs \ clash BY DEF LivesStay
  <2>2. \/ \E m \in DOMAIN pending[c] : /\ LivePayload(pending[c][m])
                                        /\ pending[c][m].cid = pending'[c][n].cid
        \/ pending'[c][n].cid = made + 1
    BY <1>2 DEF LivesStay, QueueLives
  <2>. QED BY <1>1, <2>1, <2>2 DEF Harmless
<1>. QED BY <1>1, <1>2 DEF Harmless, LivePayload

\* No pending op has the id 0.
LEMMA ZeroHarmless ==
    ASSUME Traffic'
    PROVE  Harmless(0)'
<1>1. made' \in Nat BY DEF Traffic, LogCidsOK
<1>2. 0 \in 0..made' /\ 0 \notin 1..made' BY <1>1
<1>3. \A c \in Tabs : \A n \in DOMAIN pending'[c] : pending'[c][n].cid \in 1..made'
  BY DEF Traffic, PendingOK, GoodPending
<1>. QED BY <1>2, <1>3 DEF Harmless, LivePayload

\* The op that the backend refuses is no change of a tab that is not astray.
LEMMA RefusedHarmless ==
    ASSUME Inv, Traffic, OwnersOK, NEW j \in jobs, RefuseOp(j), Aloud(j)
    PROVE  Harmless(j.req.cid)'
<1>1. /\ j.at # "saved" /\ j.req.kind = "op" /\ pending' = pending /\ made' = made
      /\ clash' = clash \cup {c \in {j.tab} : j.req.type = "replace"}
  BY DEF RefuseOp, Aloud, editorVars, bounds
<1>2. j.tab \in Tabs BY DEF Inv, JobsOK, JobOK
<1>3. Names(j.tab, j.req.cid, j.req.type)
  <2>1. j.req \in Reqs(up, jobs, j.tab) BY <1>1, ReqsIn
  <2>. QED BY <1>1, <2>1 DEF Names, NameIn
<1>4. j.req.cid \in 1..made /\ made \in Nat BY <1>2, <1>3, NamedIds DEF Traffic, LogCidsOK
<1>5. j.req.cid \in 0..made BY <1>4
<1>6. ASSUME NEW d \in Tabs \ clash', NEW n \in DOMAIN pending[d], LivePayload(pending[d][n]),
             pending[d][n].cid = j.req.cid
      PROVE  FALSE
  <2>1. Names(d, j.req.cid, "replace") BY <1>6 DEF Names, NameIn, LivePayload
  <2>2. d = j.tab /\ j.req.type = "replace" BY <1>2, <1>3, <2>1 DEF OwnersOK
  <2>3. d \in clash' BY <1>1, <2>2
  <2>. QED BY <1>6, <2>3
<1>. QED BY <1>1, <1>5, <1>6 DEF Harmless, LivePayload

LEMMA NextErrors ==
    ASSUME Inv, Traffic, OwnersOK, ErrorsOK, [Next]_vars, Traffic'
    PROVE  ErrorsOK'
<1>. SUFFICES ASSUME NEW x, ErrorIn(x)' PROVE Harmless(x)' BY DEF ErrorsOK
<1>1. LivesStay BY NextLives
<1>2. CASE ErrorIn(x)
  <2>1. Harmless(x) BY <1>2 DEF ErrorsOK
  <2>. QED BY <1>1, <2>1, HarmlessStays
<1>3. CASE x = 0 BY <1>3, ZeroHarmless
<1>4. ASSUME NEW j \in jobs, RefuseOp(j), x = j.req.cid, Aloud(j) PROVE Harmless(x)'
  <2>1. Harmless(j.req.cid)' BY <1>4, RefusedHarmless
  <2>. QED BY <1>4, <2>1
<1>5. Blames(x) \/ ErrorIn(x) BY ErrorsFrom
<1>. QED BY <1>2, <1>3, <1>4, <1>5 DEF Blames
-----------------------------------------------------------------------------
(* Every step, and the theorem *)

LEMMA StepErrorConv ==
    ASSUME Inv, Traffic, Typed, OwnersOK, ErrorsOK, Conv, StepError
    PROVE  OwnersOK' /\ Conv'
<1>1. todo # <<>> /\ Head(todo).item.k = "error" BY DEF StepError
<1>2. Head(todo).tab \in Tabs /\ Head(todo) = todo[1] /\ 1 \in DOMAIN todo BY <1>1, HeadItem
<1>3. PICK c \in Tabs : c = Head(todo).tab BY <1>2
<1>3a. PICK x : x = Head(todo).item.cid OBVIOUS
<1>4. Harmless(x)
  <2>1. TodoTold(x) BY <1>1, <1>2, <1>3a DEF TodoTold
  <2>. QED BY <2>1 DEF ErrorsOK, ErrorIn
<1>. DEFINE sync == [kind |-> "sync", after |-> latest[c]]
<1>5. /\ session' = session /\ latest' = latest /\ seen' = seen /\ dom' = dom /\ clash' = clash
      /\ jobs' = jobs /\ pending' = [pending EXCEPT ![c] = Without(pending[c], x)]
      /\ up' = [up EXCEPT ![c] = Append(up[c], sync)]
  BY <1>3, <1>3a DEF StepError, serverVars, seqVars
<1>6. NoNewOps
  <2>. DEFINE u == up[c]
              q == Append(u, sync)
  <2>0. up = [d \in Tabs |-> up[d]] /\ IsSeq(u) /\ sync.kind # "op" BY DEF Traffic, UpOK
  <2>. HIDE DEF sync, u
  <2>1. /\ DOMAIN q = 1..(Len(u) + 1) /\ \A i \in 1..Len(u) : q[i] = u[i]
        /\ q[Len(u) + 1] = sync
    BY <2>0, AppendIsSeq
  <2>2. Len(u) \in Nat /\ DOMAIN u = 1..Len(u) BY <2>0, IsSeqDom
  <2>. HIDE DEF q
  <2>3. \A n \in DOMAIN q : (n \in DOMAIN u /\ q[n] = u[n]) \/ q[n] = sync BY <2>1, <2>2
  <2>4. FramesFrom(q, u, {}) BY <2>0, <2>3 DEF FramesFrom
  <2>5. UpFrom(c, {}) BY <1>5, <2>4 DEF UpFrom, q, u
  <2>6. JobsFrom(c, {}) BY <1>5 DEF JobsFrom
  <2>. QED BY <2>0, <2>5, <2>6, CalmReqs
<1>7. pending = [d \in Tabs |-> pending[d]] BY DEF Traffic, PendingOK
<1>8. ASSUME NEW d \in Tabs
      PROVE  /\ OpsStay(pending'[d], pending[d]) /\ Distinct(pending'[d])
             /\ d \notin clash' => Unseen(session.log, latest[d], pending'[d]) = Mine(d)
  <2>1. CASE d = c
    <3>1. pending'[d] = Without(pending[c], x) /\ d \in Tabs BY <1>5, <1>7, <2>1
    <3>2. IsSeq(pending[c]) /\ Distinct(pending[c]) BY TabFacts
    <3>3. OpsStay(pending'[d], pending[d]) /\ Distinct(pending'[d]) BY <2>1, <3>1, <3>2, RestStay
    <3>4. Unseen(session.log, latest[c], Without(pending[c], x)) = {p \in Mine(c) : p.cid # x}
      BY <3>2, UnseenWithout DEF Mine
    <3>5. ASSUME c \notin clash, NEW p \in Mine(c) PROVE p.cid # x
      <4>1. PICK i \in DOMAIN pending[c] : p = Change(pending[c][i]) /\ LivePayload(pending[c][i])
        BY UnseenIn DEF Mine
      <4>2. pending[c][i].cid # x BY <1>4, <3>5, <4>1 DEF Harmless
      <4>. QED BY <4>1, <4>2, ChangeFields
    <3>6. c \notin clash => {p \in Mine(c) : p.cid # x} = Mine(c) BY <3>5
    <3>. QED BY <1>5, <2>1, <3>1, <3>3, <3>4, <3>6
  <2>2. CASE d # c
    <3>1. pending'[d] = pending[d] BY <1>5, <1>7, <2>2
    <3>2. OpsStay(pending[d], pending[d]) BY OpsStaySame
    <3>3. Distinct(pending[d]) BY DEF OwnersOK
    <3>4. Unseen(session.log, latest[d], pending[d]) = Mine(d) BY DEF Mine
    <3>. QED BY <3>1, <3>2, <3>3, <3>4
  <2>. QED BY <2>1, <2>2
<1>9. QuietStep BY <1>5, <1>6, <1>8 DEF QuietStep
<1>. QED BY <1>9, QuietKeeps

LEMMA ClientConv ==
    ASSUME Inv, Traffic, Typed, OwnersOK, Conv, NEW c \in Tabs, Client(c), Typed'
    PROVE  OwnersOK' /\ Conv'
BY EditConv, CommitsConv, CaretConv, OpenConv, StopConv, StillConv DEF Client

LEMMA HandlerConv ==
    ASSUME Inv, Traffic, Typed, ServerOK, OwnersOK, ErrorsOK, Conv, Handler
    PROVE  OwnersOK' /\ Conv'
BY StepOpConv, StepSessionConv, StepErrorConv, AnswerConv, FailedConv DEF Handler

LEMMA NextConv ==
    ASSUME Inv, Traffic, Typed, ServerOK, OwnersOK, ErrorsOK, Conv, [Next]_vars, Typed'
    PROVE  OwnersOK' /\ Conv'
<1>1. CASE Backend BY <1>1, BackendConv
<1>2. CASE Handler BY <1>2, HandlerConv
<1>3. ASSUME NEW c \in Tabs, Client(c) PROVE OwnersOK' /\ Conv' BY <1>3, ClientConv
<1>4. CASE UNCHANGED vars
  <2>1. /\ session' = session /\ latest' = latest /\ seen' = seen /\ dom' = dom /\ clash' = clash
        /\ jobs' = jobs /\ up' = up /\ pending' = pending
    BY <1>4 DEF vars, serverVars, wireVars, seqVars, editorVars
  <2>2. NoNewOps BY <2>1, SameWay
  <2>. QED BY <2>1, <2>2, StillKeeps
<1>. QED BY <1>1, <1>2, <1>3, <1>4 DEF Next

ConvInv == Inv /\ Traffic /\ Typed /\ ServerOK /\ OwnersOK /\ ErrorsOK /\ Conv

LEMMA ConvConverges == ConvInv => CleanConverges
<1>. SUFFICES ASSUME ConvInv, NEW c \in Tabs \ clash, Alone(c), Once(c), CaughtUp(c),
                     \A n \in DOMAIN pending[c] : ~LivePayload(pending[c][n])
              PROVE  dom[c] = session.text
  BY DEF CleanConverges
<1>0. Inv /\ Traffic /\ Typed /\ ServerOK /\ OwnersOK /\ Conv BY DEF ConvInv
<1>. DEFINE l == session.log
            n == latest[c]
            R == Reqs(up, jobs, c)
<1>1. LogTyped(l) /\ n \in 0..Len(l) /\ Len(l) \in Nat /\ DOMAIN l = 1..Len(l) BY <1>0, TabFacts
<1>2. \A m \in Foreign(c) : \E k \in DOMAIN seen[c] : seen[c][k] = m BY DEF CaughtUp
<1>3. Clean(c) BY <1>2 DEF Clean, Handed
<1>4. Mine(c) = {}
  <2>. SUFFICES ASSUME NEW x \in Mine(c) PROVE FALSE OBVIOUS
  <2>. QED BY UnseenIn DEF Mine
<1>5. Reflects(UserOf[c], l, n, {}, dom[c], R) BY <1>0, <1>3, <1>4 DEF Conv, Good
<1>6. ASSUME NEW k \in (n + 1)..Len(l) PROVE l[k].user = UserOf[c]
  <2>1. k \in DOMAIN l /\ ~(k <= n) BY <1>1
  <2>2. \A i \in DOMAIN seen[c] : seen[c][i] <= n BY <1>0 DEF Inv, SeenOK
  <2>3. k \notin Foreign(c) BY <1>2, <2>1, <2>2
  <2>. QED BY <2>1, <2>3 DEF Foreign
<1>7. session.text = LogText(l)[Len(l)]
  <2>1. clash # Tabs OBVIOUS
  <2>. QED BY <1>0, <2>1 DEF ServerOK, TextOK
<1>. HIDE DEF l, n, R
<1>8. dom[c] = LogText(l)[Len(l)] BY <1>1, <1>5, <1>6, AllReflected
<1>. QED BY <1>7, <1>8

\* An editor that has been handed every foreign op and has no unconfirmed
\* change shows the server's text, unless it went astray in one of the ways
\* that "clash" records: what ingestOp makes of a foreign op over the pending
\* change and what transform_replace makes of the change over the foreign ops
\* agree, through every interleaving, lost frame, lost answer and resend, for
\* any tabs, users, texts, ring length, retries and scenario.
THEOREM EditorsConverge == Spec => []CleanConverges
<1>1. Init => ConvInv
  BY InitInv, InitTraffic, InitTyped, InitServer, InitOwners, InitErrors, InitConv DEF ConvInv
<1>2. ConvInv /\ [Next]_vars => ConvInv'
  <2>. SUFFICES ASSUME ConvInv, [Next]_vars PROVE ConvInv' OBVIOUS
  <2>1. Inv /\ Traffic /\ Typed /\ ServerOK /\ OwnersOK /\ ErrorsOK /\ Conv BY DEF ConvInv
  <2>2. Inv' /\ Traffic' /\ Typed' BY <2>1, NextInv, NextTraffic, NextTyped
  <2>3. ServerOK' /\ OwnersOK' /\ Conv' BY <2>1, <2>2, NextServer, NextConv
  <2>4. ErrorsOK' BY <2>1, <2>2, NextErrors
  <2>. QED BY <2>2, <2>3, <2>4 DEF ConvInv
<1>3. ConvInv => CleanConverges BY ConvConverges
<1>. QED BY <1>1, <1>2, <1>3, PTL DEF Spec
=============================================================================
