------------------------------ MODULE SeqLoops ------------------------------
(***************************************************************************)
(* filter and for-of over an array, as recursive functions, so that the    *)
(* models that use them can be reasoned about.                             *)
(***************************************************************************)
EXTENDS Naturals, Sequences

\* What filter leaves of s: the entries at the places in T, in order.
Kept(s, T) ==
    LET kept[n \in 0..Len(s)] ==
          IF n = 0 THEN <<>>
          ELSE IF n \in T THEN Append(kept[n - 1], s[n]) ELSE kept[n - 1]
    IN  kept[Len(s)]

\* The entries of s that are in S, in order.
Only(s, S) == Kept(s, {n \in DOMAIN s : s[n] \in S})

\* The body of a loop runs for each entry of s, on what the run before it left.
Each(Body(_, _), t, s) ==
    LET after[n \in 0..Len(s)] ==
          IF n = 0 THEN t ELSE Body(after[n - 1], s[n])
    IN  after[Len(s)]
=============================================================================
