SPECIFICATION FairSpec
CONSTANTS
  N = 2
  Ins = {"a", "b"}
  NonBlocking = {"b"}
  Outs = {"o", "p"}
  Elems = {"turn"}
  RecvStage <- MergeRecv
  RecvOrder <- MergeRecv
  SendStage <- MergeSend
  ReadStage <- MergeRead
  WriteStage <- MergeWrite
  RecvPred <- MergeRecvPred
  SendPred <- MergeSendPred
  NextState <- MergeNext
  InitState <- MergeInit
  InKind = "skid"
  OutKind = "flop"
  MutuallyExclusive = TRUE
  Unknown = Unknown
  MaxIn = 4
  MaxOut = 4
INVARIANTS
  OutputsAreSequential
PROPERTIES
  EverythingComesOut
