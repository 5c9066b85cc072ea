\* Two rows among a resumable video, a row of its encode job or of its rebuild, and
\* a small generic file, with one byte slot and one slot of each stage; pauses,
\* retries, reloads.
SPECIFICATION FairSpec
CONSTANTS
    Uploads = {1, 2}
    Rebuild = {3}
    Items = {1, 2, 3}
    Media = {1}
    Resumable = {1}
    FileSlots = 1
    StageLimit = 1
    MaxRetries = 1
    MaxRows = 2
    FileOf <- SharedFiles
    Who = {"phases", "resume"}
    CanReload = TRUE
    CanRefuse = TRUE
    CanPause = TRUE
INVARIANTS
    TypeOK
    GatesSound
    NoDoubleStart
    CompleteIsSettled
    PollersBounded
PROPERTIES
    PolledOnce
    QueueHeadIsClaimed
CHECK_DEADLOCK FALSE
