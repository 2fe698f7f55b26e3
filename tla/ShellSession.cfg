SPECIFICATION SessionSpec
CONSTANTS
    Size = 3
    Data <- MCData
    Word = 16
    MaxBytes = 8
    FirstStores = {"index", "mirror"}
    Paced = TRUE
    MaxLines = 3
    NULL = NULL
    Patient = TRUE
INVARIANTS SessionTypeOK TakenInOrder NoLostWakeup OwnArguments DeletedOnce Abortable
PROPERTIES EveryByteTaken Executes
CHECK_DEADLOCK FALSE
