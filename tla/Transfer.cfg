SPECIFICATION FairSpec
INVARIANTS ReportedIsRecorded DoneIsWhole
PROPERTIES TransferSettles
CHECK_DEADLOCK FALSE
CONSTANTS
    NumParts = 2
    Hashed = TRUE
    MaxRunners = 2
    MaxRetries = 1
    MaxManual = 1
    MaxFaults = 2
