SPECIFICATION FairSpec
CONSTANTS
  N = 4
  MaxPartitionSize = 1
INVARIANTS
  TypeOK
  ChecksHold
  ValuesAreCurrent
  ExecutedOnce
PROPERTIES
  ActivationsComplete
