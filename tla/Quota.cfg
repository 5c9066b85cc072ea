SPECIFICATION Spec
INVARIANTS TypeOK OvershootBounded ReservationsBounded
SYMMETRY QuotaSymmetry
CONSTANTS
    h1 = h1
    h2 = h2
    s1 = s1
    s2 = s2
    s3 = s3
    s4 = s4
    Handlers = {h1, h2}
    Sessions = {s1, s2, s3, s4}
    Quota = 2
    MaxSave = 2
    MaxBin = 1
    MaxUnchecked = 1
    NoSession = NoSession
