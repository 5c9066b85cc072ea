SPECIFICATION Spec
INVARIANTS FileHasBlob BytesMatchParts FileBytesReceived
SYMMETRY HandlerSymmetry
CHECK_DEADLOCK FALSE
CONSTANTS
    s1 = s1
    s2 = s2
    s3 = s3
    Sessions = {s1, s2}
    Parts = {p0}
    Tasks = {t0, t1}
    Content <- SameContent
    Hashed = {s2}
    NoRow = NoRow
    Quota = 4
    SessionCap = 4
    MaxMints = 0
    CanAbort = TRUE
    CanFail = FALSE
    CanPurge = FALSE
