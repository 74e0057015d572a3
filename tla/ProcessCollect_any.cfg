CONSTANTS
  Inputs = {"stdin", "control"}
  Outputs = {"stdout"}
  Capacity = 2
  Chunk = 1
  MaxInput = 5
  Timeout = 1
  HasPidfd = TRUE
  Expansion = 2
  AnyInput = 2
SPECIFICATION MCSpec
INVARIANTS
  CompleteOutput
  OwnStatus
  InputDelivered
PROPERTIES
  CollectionReturns
  FilterCollected
