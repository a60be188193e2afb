SPECIFICATION PinFairSpec
CONSTANTS
    W = 2
    NWords = 1
    Rows = {}
    CbrRows = {}
    NoRow = NoRow
    NoReq = NoReq
    CYCLE_ACCURATE = FALSE
    CoreRequests <- LowBit
    HostRequests = {}
    ScreenLevels = {FALSE}
    HoldLevels = {FALSE, TRUE}
    MasterWords <- HighBit
    IoValues = {0}
    InitCycles = 1
INVARIANTS
    OneCommandEverywhere
PROPERTIES
    OnlyFieldBitsAtPins
    HoldReachesPins
    CyclesEnd
