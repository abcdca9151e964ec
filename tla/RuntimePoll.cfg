SPECIFICATION FairSpec
CONSTANTS
    p1 = p1  p2 = p2  p3 = p3  NoProc = NoProc
    in = in  mid = mid  back = back  out = out  config = config
    Nothing = Nothing
    NoLimit = NoLimit
    Value <- Bits
    Zero = 0
    State <- Bits
    InitState = 0
    Holds <- MCHolds
    SendData <- MCSendData
    NextState <- MCNextState
    ProcOrder <- PollOrder
    Program <- PollProgram
    OutputCounts <- PollCounts
    Jit = {p2}
    Channel = {in, mid, config, out}
    SingleValued = {config, out}
    Input = {in}
    Output = {out}
    BlockedLimits = {2}
    OutputLimits = {1, 2}
    ConcurrentClient = TRUE
    MaxQueue = 2
INVARIANTS
    ScheduledOnce
    NoLostWakeup
PROPERTIES
    ImplementsProcNetwork
    CallReturns
