SPECIFICATION Spec
CONSTANTS
  N = 2
  Ins = {"a"}
  NonBlocking = {"a"}
  Outs = {"o", "p"}
  Elems = {}
  RecvStage <- PollRecv
  RecvOrder <- PollRecv
  SendStage <- PollSend
  ReadStage <- NoElems
  WriteStage <- NoElems
  RecvPred <- Always
  SendPred <- Always
  NextState <- PollNext
  InitState <- NoElems
  InKind = "none"
  OutKind = "none"
  MutuallyExclusive = FALSE
  Unknown = Unknown
  MaxIn = 2
  MaxOut = 2
INVARIANTS
  OutputsAreSequential
