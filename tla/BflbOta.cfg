SPECIFICATION Spec
CONSTANTS
    factory = factory
    update = update
    mfg = mfg
    FW = FW
    EntryTypes <- MCTypes
    PT_ENTRY_MAX = 2
    Torn = Torn
    Images <- MCImages
    ImageLen <- MCImageLen
    Blank = Blank
    Junk = Junk
    SlotLen <- MCSlotLen
    BlocksPerSector = 2
    BitmapSectors = 2
    ChunkMax = 2
    Word = 8
    NULL = NULL
    FlashFaults = TRUE
    CallerReboots = TRUE
    CallerVerifies = TRUE
    CallerInFile = TRUE
    MaxAge = 2
INVARIANTS TypeOK BootImageComplete WritesInsideSlot
PROPERTIES RunningImageIntact FinishTakesEffect
