SPECIFICATION Spec
CONSTANTS
  Kind = "skid"
  Data = {d0, d1, d2, d3}
  d0 = d0
  d1 = d1
  d2 = d2
  d3 = d3
  Zero <- d0
INVARIANTS
  SkidBehindData
  AcceptsWhileRoom
PROPERTIES
  HeldUntilTaken
  ImplementsFifo
