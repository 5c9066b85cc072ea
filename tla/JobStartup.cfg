\* The comment on the startup recovery, against the spawned task.
CONSTANTS
    j1 = j1  j2 = j2  j3 = j3  w1 = w1  w2 = w2  c1 = c1  c2 = c2  rA = rA  rB = rB  rC = rC
    Jobs <- OneJob
    Legacy <- NoLegacy
    Workers <- TwoWorkers
    Clients <- OneClient
    Resources <- OneResource
    KindOf <- KindIngest
    NoWorker = NoWorker
    Ghost = Ghost
    NoJob = NoJob
    MaxAttempts = 3
    QueueCap = 1
    MaxRestarts = 1
    MaxOutages = 0
    MaxBumps = 0
SPECIFICATION Spec
INVARIANT NoLiveClaimRequeued
CHECK_DEADLOCK FALSE
