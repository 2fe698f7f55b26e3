SPECIFICATION Spec
CONSTANTS
    factory = factory
    update = update
    host1 = host1
    host2 = host2
    FW = FW
    EntryTypes <- MCTypes
    PT_ENTRY_MAX = 1
    Torn = Torn
    Images <- MCImages
    ImageLen <- BigImageLen
    Blank = Blank
    Junk = Junk
    SlotLen <- MCSlotLen
    NULL = NULL
    Hosts <- OneHost
    WholeFiles = TRUE
    RebootBeforeRetry = TRUE
    AbortUsed = TRUE
    QueueCap = 3
    MaxFaults = 4
    MaxAge = 2
INVARIANTS TypeOK BootImageComplete CommittedImageWhole
