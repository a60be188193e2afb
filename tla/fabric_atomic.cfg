SPECIFICATION MCSpec
CONSTANTS
    W = 2
    NWords = 3
    Rows = {}
    CbrRows = {}
    NoRow = NoRow
    NoReq = NoReq
    CYCLE_ACCURATE = TRUE
    CoreRequests <- MemoryRequests
    HostRequests <- HostWrites
    ScreenLevels = {FALSE, TRUE}
    HoldLevels = {FALSE, TRUE}
    MasterWords <- Zeroes
    IoValues = {0}
INVARIANTS
    TypeOK
    MergeIsFresh
PROPERTIES
    FieldMemorySpec
