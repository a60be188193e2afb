SPECIFICATION TimedSpec
CONSTANTS
    W = 2
    NWords = 2
    Rows = {}
    CbrRows = {}
    NoRow = NoRow
    NoReq = NoReq
    CYCLE_ACCURATE = TRUE
    CoreRequests <- TimedRequests
    HostRequests <- HostWrites
    ScreenLevels = {FALSE}
    HoldLevels = {FALSE, TRUE}
    MasterWords = {}
    IoValues = {0}
    ClksPerState = 8
INVARIANTS
    CycleTakesTwoStates
