------------------------------ MODULE CollabLog ------------------------------
(***************************************************************************)
(* What a live room promises its editors: one log of ops that only grows,  *)
(* and to every editor a subsequence of it, in the log's order, each op at *)
(* most once and none of the user's own.  It does not promise that no op   *)
(* is skipped.                                                             *)
(***************************************************************************)
EXTENDS Naturals, Sequences

CONSTANTS Tabs, UserOf
VARIABLES log, seen

Init == log = <<>> /\ seen = [c \in Tabs |-> <<>>]

\* An op enters the log.
Commit ==
    /\ Len(log') = Len(log) + 1
    /\ \A n \in 1..Len(log) : log'[n] = log[n]
    /\ UNCHANGED seen

\* An editor is handed the n-th op.
Deliver(c) ==
    \E n \in 1..Len(log) :
        /\ \A k \in DOMAIN seen[c] : seen[c][k] < n
        /\ log[n].user # UserOf[c]
        /\ seen' = [seen EXCEPT ![c] = Append(@, n)]
        /\ UNCHANGED log

Next == Commit \/ \E c \in Tabs : Deliver(c)

Spec == Init /\ [][Next]_<<log, seen>>
=============================================================================
