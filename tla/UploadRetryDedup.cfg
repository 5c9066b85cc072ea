SPECIFICATION Spec
INVARIANTS FileHasBlob
CHECK_DEADLOCK FALSE
CONSTANTS
    s1 = s1
    s2 = s2
    s3 = s3
    Sessions = {s1}
    Parts = {p0}
    Tasks = {t0, t1}
    Content <- OwnContent
    Hashed = {}
    NoRow = NoRow
    Quota = 3
    SessionCap = 4
    MaxMints = 0
    CanAbort = FALSE
    CanFail = TRUE
    CanPurge = FALSE
