CONSTANTS
  MaxClock = 2
  Nothing = Nothing
SPECIFICATION Spec
INVARIANTS
  SharedStart
  RecordedStart
  WaitsInTree
  NoSpuriousDifference
PROPERTY
  ImplementsFairComparison
