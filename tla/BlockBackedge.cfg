SPECIFICATION FairSpec
CONSTANTS
  N = 4
  Ins = {"a"}
  NonBlocking = {}
  Outs = {"early", "late"}
  Elems = {"cnt", "acc"}
  RecvStage <- BackedgeRecv
  RecvOrder <- BackedgeOrder
  SendStage <- BackedgeSend
  ReadStage <- BackedgeRead
  WriteStage <- BackedgeWrite
  RecvPred <- Always
  SendPred <- BackedgeSendPred
  NextState <- BackedgeNext
  InitState <- BackedgeInit
  InKind = "none"
  OutKind = "none"
  MutuallyExclusive = FALSE
  Unknown = Unknown
  MaxIn = 8
  MaxOut = 9
INVARIANTS
  TypeOK
  WriteNeverStalls
  StateHasOneOwner
  OutputsAreSequential
  IdleMeansEmpty
PROPERTIES
  EverythingComesOut
