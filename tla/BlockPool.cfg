SPECIFICATION FairSpec
CONSTANTS
    Tasks = {t1, t2, t3}
    NULL = NULL
    PointerSize = 4
    Arguments <- MCArguments
INVARIANTS TypeOK LayoutFits EachBlockOnce SemCounts MutexPut
PROPERTIES EveryCallReturns
CHECK_DEADLOCK FALSE
