SPECIFICATION Spec
INVARIANTS SkipsOnlyStored
CHECK_DEADLOCK FALSE
CONSTANTS
    NumParts = 1
    Hashed = TRUE
    MaxRunners = 1
    MaxRetries = 0
    MaxManual = 1
    MaxFaults = 1
