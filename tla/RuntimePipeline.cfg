SPECIFICATION FairSpec
CONSTANTS
    p1 = p1  p2 = p2  p3 = p3  NoProc = NoProc
    in = in  mid = mid  back = back  out = out  config = config
    Nothing = Nothing
    NoLimit = NoLimit
    Value <- Bits
    Zero = 0
    State <- Bits
    InitState = 0
    Holds <- MCHolds
    SendData <- MCSendData
    NextState <- MCNextState
    ProcOrder <- PipelineOrder
    Program <- PipelineProgram
    OutputCounts <- PipelineCounts
    Jit = {p1}
    Channel = {in, mid, back, out, config}
    SingleValued = {}
    Input = {in}
    Output = {out}
    BlockedLimits = {1, NoLimit}
    OutputLimits = {1, NoLimit}
    ConcurrentClient = FALSE
    MaxQueue = 3
INVARIANTS
    TypeOK
    ScheduledOnce
    NoLostWakeup
PROPERTIES
    ImplementsProcNetwork
    ReportsAreTrue
    CallReturns
