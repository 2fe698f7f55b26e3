SPECIFICATION FairSpec
CONSTANTS
    NPorts = 2
    Senders = 1
    MaxFrames = 4
    MaxResets = 1
INVARIANTS TypeOK FreedOnce AttachedCounts LiveWhenRead HostInOrder PortTakenWhileUsed
PROPERTIES EveryFrameFreed
CHECK_DEADLOCK FALSE
