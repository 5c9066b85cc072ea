\* One stream rebuild.
SPECIFICATION Spec
CONSTANTS
    Uploads = {}
    Rebuild = {1}
    Items = {1}
    Media = {}
    Resumable = {}
    FileSlots = 1
    StageLimit = 1
    MaxRetries = 0
    MaxRows = 2
    FileOf <- OwnFiles
    Who = {"phases", "resume"}
    CanReload = FALSE
    CanRefuse = FALSE
    CanPause = FALSE
INVARIANTS
    RebuildKeepsFile
CHECK_DEADLOCK FALSE
