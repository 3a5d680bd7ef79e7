SPECIFICATION Spec
CONSTANTS
    Dirs = {"Tx"}
    FifoSize = 4
    BlocksPerReq = 2
    MaxIssued = 10
INVARIANTS
    TypeOK
    PartialDoneExact
    FifoNeverFull
PROPERTIES
    EveryRequestFoundDone
CHECK_DEADLOCK FALSE
