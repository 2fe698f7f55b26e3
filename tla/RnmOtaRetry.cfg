SPECIFICATION FairSpec
CONSTANTS
    factory = factory
    update = update
    host1 = host1
    host2 = host2
    FW = FW
    EntryTypes <- MCTypes
    PT_ENTRY_MAX = 1
    Torn = Torn
    Images <- MCImages
    ImageLen <- MCImageLen
    Blank = Blank
    Junk = Junk
    SlotLen <- MCSlotLen
    NULL = NULL
    Hosts <- OneHost
    WholeFiles = TRUE
    RebootBeforeRetry = FALSE
    AbortUsed = FALSE
    QueueCap = 3
    MaxFaults = 3
    MaxAge = 4
PROPERTIES UpdateGetsThrough RunningImageIntact
CHECK_DEADLOCK FALSE
