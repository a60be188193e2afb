SPECIFICATION BlocksFairSpec
CONSTANTS
    c1 = c1
    c2 = c2
    d1 = d1
    d2 = d2
    NoCmd = NoCmd
    NoData = NoData
    NoKind = NoKind
    Undriven = Undriven
    InitCycles = 2
    Data <- TwoAnswers
    Commands <- TwoCommands
    Ways = 2
    Tags = {1, 2, 3}
    Subs = {1, 2}
    Fetches <- AllFetches
    Datas <- OneWord
    Volatile <- OneWord
    NoReq = NoReq
    NoValue = NoValue
    Answers <- TwoAnswers
    Htotal = 5
    Hsblnk = 2
    Heblnk = 1
    Vtotal = 4
    Vesync = 1
    Dpyints = {0, 1, 2, 3, 4}
    Modes <- DisplayModes
    Hloads = {2, 5}
    Vloads = {1, 4}
    MaxLoads = 1
    Intervals = 8
    Rows = 4
    ClksPerState = 3
    Veblnk = 1
    Vsblnk = 3
    LastLine = 3
    ScreenRows = 3
    Start = 0
    Dudate = 2
    Lcstrts = {1}
    ScreenModes = {"mode"}
    Loads <- ScreenLoads
    MinClocks = 12
    Period = {3, 5, 10}
    Written = {}
    MaxConfig = 0
    MaxCounterLoads = 0
    MaxEvents = 2
    MaxTicks = 2
    Calls <- HostCalls
    ProcessorCalls <- CpuWrites
    Initially <- HostModes
    Rearm = 3
    MaxWrites = 1
    NoCall = NoCall
    Moving <- LiveBlocks
PROPERTIES
    ValuesInOrder
    ValuesCross
    RequestsEnd
