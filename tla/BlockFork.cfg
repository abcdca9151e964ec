SPECIFICATION FairSpec
CONSTANTS
  N = 3
  Ins = {"a", "b"}
  NonBlocking = {}
  Outs = {"o", "p", "q"}
  Elems = {"acc"}
  RecvStage <- ForkRecv
  RecvOrder <- ForkOrder
  SendStage <- ForkSend
  ReadStage <- ForkStage
  WriteStage <- ForkStage
  RecvPred <- ForkRecvPred
  SendPred <- ForkSendPred
  NextState <- ForkNext
  InitState <- ForkInit
  InKind = "zero"
  OutKind = "none"
  MutuallyExclusive = FALSE
  Unknown = Unknown
  MaxIn = 5
  MaxOut = 5
INVARIANTS
  OutputsAreSequential
PROPERTIES
  PortsHold
  EverythingComesOut
