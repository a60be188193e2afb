SPECIFICATION IoSpec
CONSTANTS
    W = 2
    NWords = 3
    Rows = {}
    CbrRows = {}
    NoRow = NoRow
    NoReq = NoReq
    CYCLE_ACCURATE = TRUE
    CoreRequests <- WordRequests
    HostRequests <- HostIoWrites
    ScreenLevels = {FALSE}
    HoldLevels = {FALSE}
    MasterWords = {}
    IoValues = {0}
    DirectWrites <- BothWays
    MinCycle = 2
INVARIANTS
    CommittedApart
