SPECIFICATION MCSpec
CONSTANTS
    W = 2
    NWords = 2
    Rows = {r1, r2}
    CbrRows = {r2}
    NoRow = NoRow
    NoReq = NoReq
    CYCLE_ACCURATE = TRUE
    CoreRequests <- RegisterRequests
    HostRequests <- HostIoRead
    ScreenLevels = {FALSE}
    HoldLevels = {FALSE, TRUE}
    MasterWords = {}
    IoValues = {0, 1}
INVARIANTS
    LateDataInTime
    AnswerMatchesRequest
PROPERTIES
    CommandStable
