SPECIFICATION Spec
INVARIANTS RetryReusesSession
CHECK_DEADLOCK FALSE
CONSTANTS
    NumParts = 1
    Hashed = TRUE
    MaxRunners = 1
    MaxRetries = 1
    MaxManual = 1
    MaxFaults = 1
