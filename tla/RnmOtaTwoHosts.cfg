SPECIFICATION Spec
CONSTANTS
    factory = factory
    update = update
    host1 = host1
    host2 = host2
    FW = FW
    EntryTypes <- MCTypes
    PT_ENTRY_MAX = 1
    Torn = Torn
    Images <- MCImages
    ImageLen <- MCImageLen
    Blank = Blank
    Junk = Junk
    SlotLen <- MCSlotLen
    NULL = NULL
    Hosts <- TwoHosts
    WholeFiles = TRUE
    RebootBeforeRetry = TRUE
    AbortUsed = FALSE
    QueueCap = 3
    MaxFaults = 0
    MaxAge = 2
INVARIANTS CommittedImageWhole
