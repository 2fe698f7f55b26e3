SPECIFICATION SessionSpec
CONSTANTS
    Size = 3
    Data <- MCData
    Word = 16
    MaxBytes = 8
    FirstStores = {"index", "mirror"}
    Paced = TRUE
    MaxLines = 2
    NULL = NULL
    Patient = FALSE
INVARIANTS OwnArguments
CHECK_DEADLOCK FALSE
