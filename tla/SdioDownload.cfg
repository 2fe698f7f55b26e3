SPECIFICATION FairSpec
CONSTANTS
    NPorts = 2
    Window = 2
    SeqMod = 9
    StartSeqs = {7}
    MaxFrames = 5
    MaxFaults = 1
    MaxResets = 1
INVARIANTS TypeOK DropsBounded CreditInRange TakenInStep FramesProcessed
PROPERTIES WindowReopens
CHECK_DEADLOCK FALSE
