SPECIFICATION Spec
CONSTANTS
    Size = 3
    Data = {1, 2}
    Word = 64
    MaxLen = 4
    ForceOverwrites = FALSE
INVARIANTS TypeOK LengthInRange
PROPERTIES IsQueue
