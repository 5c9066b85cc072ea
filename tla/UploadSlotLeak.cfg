\* One generic file the server refuses after its last byte.
SPECIFICATION Spec
CONSTANTS
    Uploads = {1}
    Rebuild = {}
    Items = {1}
    Media = {}
    Resumable = {}
    FileSlots = 1
    StageLimit = 1
    MaxRetries = 0
    MaxRows = 2
    FileOf <- OwnFiles
    Who = {"phases", "resume"}
    CanReload = FALSE
    CanRefuse = TRUE
    CanPause = FALSE
INVARIANTS
    NoLeakedSlot
CHECK_DEADLOCK FALSE
