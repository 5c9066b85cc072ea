\* Concurrent enqueue_job calls: the active-row index and the per-user cap.
CONSTANTS
    j1 = j1  j2 = j2  j3 = j3  w1 = w1  w2 = w2  c1 = c1  c2 = c2  rA = rA  rB = rB  rC = rC
    Jobs <- ThreeJobs
    Legacy <- NoLegacy
    Workers <- OneWorker
    Clients <- TwoClients
    Resources <- ThreeResources
    KindOf <- KindMixed
    NoWorker = NoWorker
    Ghost = Ghost
    NoJob = NoJob
    MaxAttempts = 1
    QueueCap = 1
    MaxRestarts = 0
    MaxOutages = 0
    MaxBumps = 0
SPECIFICATION Spec
SYMMETRY EnqueueSymmetry
INVARIANTS OneActivePerResource QueueDepthBounded
CHECK_DEADLOCK FALSE
