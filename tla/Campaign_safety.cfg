CONSTANTS
  MaxIterations <- MCMaxIterations
  Scenarios <- MCScenarios
  MaxCases <- MCMaxCases
  Nothing = Nothing
SPECIFICATION Spec
CHECK_DEADLOCK FALSE
INVARIANTS
  PassIsEarned
  CountsBalance
  CountedMismatchHasRepro
  CorpusIsLatest
