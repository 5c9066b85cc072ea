---------------------------- MODULE MCCollabRoom ----------------------------
EXTENDS CollabRoom

OwnUsers == [c \in Tabs |-> c]
OneText  == <<0>>

\* What a key deletes and inserts.
Insert == <<0, 1>>
Delete == <<1, 0>>
Swap   == <<1, 1>>
Keys   == {Insert, Delete, Swap}

Plan(late, away, carets, leaving, keys, edits, cids, beats_, faults_) ==
    [late |-> late, away |-> away, carets |-> carets, leaving |-> leaving, keys |-> keys,
     edits |-> edits, cids |-> cids, beats |-> beats_, faults |-> faults_]

CollabPlans == {
    \* three insertions, or any two changes, of two connected editors, without
    \* full syncs
    Plan({}, {}, {}, {}, {Insert}, 3, 3, 0, 0),
    Plan({}, {}, {}, {}, Keys, 2, 2, 0, 0),
    \* locks, caret moves and changes
    Plan({}, {}, {"b"}, {}, Keys, 1, 2, 1, 0),
    Plan({"b"}, {"a"}, {"b"}, {}, {Insert}, 1, 1, 1, 0),
    \* a tab that joins late
    Plan({"b"}, {}, {}, {}, Keys, 1, 1, 0, 0),
    \* the same when the joining POST or its answer is lost and the text emptied
    Plan({"b"}, {}, {}, {}, {Delete}, 1, 1, 0, 1),
    \* a lost socket or request, of two tabs and of one alone
    Plan({}, {}, {}, {}, {Delete, Swap}, 1, 1, 0, 1),
    Plan({"a"}, {"b"}, {}, {}, {Insert}, 1, 1, 0, 2),
    \* the same, and a tab that closes
    Plan({}, {}, {}, {"a"}, {Insert}, 1, 1, 0, 1),
    \* a tab alone, whose POSTs overtake each other until its socket opens
    Plan({"a"}, {"b"}, {}, {}, {Insert}, 1, 3, 0, 0)}

\* One change and one caret move; two tabs that lock the same text.
StalePlans == {Plan({}, {}, {"b"}, {}, {Insert}, 1, 1, 1, 0)}
LockPlans  == {Plan({}, {}, {"a", "b"}, {}, {}, 0, 2, 0, 0)}
=============================================================================
