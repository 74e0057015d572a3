CONSTANTS
  ReadyTimeout = 2
  Timeout = 3
SPECIFICATION RunnerFairSpec
INVARIANTS
  ExecFailedMeansNotExecuted
  StatusChannelReleased
  BudgetRespected
PROPERTIES
  ImplementsTargetRun
  CallReturns
  NoWaitingOrphan
