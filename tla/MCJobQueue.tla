---------------------------- MODULE MCJobQueue ----------------------------
(* Instances of JobQueue for TLC: few rows, two workers, two enqueue calls. *)
EXTENDS JobQueue, TLC

CONSTANTS j1, j2, j3, w1, w2, c1, c2, rA, rB, rC

OneJob      == {j1}
TwoJobs     == {j1, j2}
ThreeJobs   == {j1, j2, j3}
OneWorker   == {w1}
OneResource == {rA}
ThreeResources == {rA, rB, rC}
TwoWorkers   == {w1, w2}
TwoClients   == {c1, c2}
NoLegacy    == {}
OneLegacy   == {j1}
KindMixed        == (rA :> "ingest") @@ (rB :> "zip") @@ (rC :> "export")
KindIngest       == (rA :> "ingest")
OneClient   == {c1}

\* Rows and enqueue calls are interchangeable (no row is distinguished).
EnqueueSymmetry == Permutations(ThreeJobs) \cup Permutations(TwoClients)
=============================================================================
