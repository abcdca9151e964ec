SPECIFICATION FairSpec
CONSTANTS
  Source = {"s0", "s1"}
  Link = {"l0", "l1", "l2", "l3", "l4"}
  Router = {"A", "B"}
  Sink = {"k0", "k1"}
  Connection <- TreeConnections
  In <- TreeIn
  Out <- TreeOut
  NumVC = 2
  ForwardStages <- TreeForward
  ReverseStages <- TreeReverse
  VCCount <- TreeVCs
  Depth <- TreeDepth
  Route <- TreeRoute
  Order <- TreeOrder
  OtherOrders <- TreeOthers
  MaxTicks = 9
  MaxFlits = 3
INVARIANTS
  TypeOK
  CreditsConserved
  OrderIndependent
PROPERTIES
  LosslessNetwork
  EveryFlitArrives
