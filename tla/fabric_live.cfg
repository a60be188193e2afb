SPECIFICATION MCFairSpec
CONSTANTS
    W = 2
    NWords = 1
    Rows = {r1}
    CbrRows = {}
    NoRow = NoRow
    NoReq = NoReq
    CYCLE_ACCURATE = TRUE
    CoreRequests <- PartialRequests
    HostRequests <- HostWrites
    ScreenLevels = {FALSE, TRUE}
    HoldLevels = {FALSE, TRUE}
    MasterWords = {}
    IoValues = {0}
PROPERTIES
    HoldGranted
    ClientsServed
