SPECIFICATION Spec
CONSTANTS
    p1 = p1  p2 = p2  p3 = p3  NoProc = NoProc
    in = in  mid = mid  back = back  out = out  config = config
    Nothing = Nothing
    NoLimit = NoLimit
    Value <- Bits
    Zero = 0
    State <- Bits
    InitState = 0
    Holds <- MCHolds
    SendData <- MCSendData
    NextState <- MCNextState
    ProcOrder <- SharedOrder
    Program <- SharedProgram
    OutputCounts = {}
    Jit = {}
    Channel = {mid}
    SingleValued = {}
    Input = {}
    Output = {}
    BlockedLimits = {}
    OutputLimits = {}
    ConcurrentClient = FALSE
    MaxQueue = 3
INVARIANTS
    EveryProcCompletes
