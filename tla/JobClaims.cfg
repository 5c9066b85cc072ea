\* Who may execute and settle a job, and that every job settles: two rows, one of them
\* left over exhausted, two workers, a restart, a failed statement and a bump.
CONSTANTS
    j1 = j1  j2 = j2  j3 = j3  w1 = w1  w2 = w2  c1 = c1  c2 = c2  rA = rA  rB = rB  rC = rC
    Jobs <- TwoJobs
    Legacy <- OneLegacy
    Workers <- TwoWorkers
    Clients <- OneClient
    Resources <- OneResource
    KindOf <- KindIngest
    NoWorker = NoWorker
    Ghost = Ghost
    NoJob = NoJob
    MaxAttempts = 2
    QueueCap = 2
    MaxRestarts = 1
    MaxOutages = 1
    MaxBumps = 1
SPECIFICATION FairSpec
INVARIANTS TypeOK LockIffRunning QueuedIsClaimable CompleteWasProduced ExclusiveExecution ExecutorOwnsRow
PROPERTIES TerminalIsFinal AttemptsCountClaims SettlesOnlyOwnClaim EveryJobSettles
CHECK_DEADLOCK FALSE
