SPECIFICATION Spec
CONSTANTS
    NPorts = 2
    Senders = 2
    MaxFrames = 4
    MaxResets = 2
INVARIANTS DescFreeWhenPortFree
CHECK_DEADLOCK FALSE
