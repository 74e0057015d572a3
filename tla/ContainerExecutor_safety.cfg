CONSTANTS
  Requests = 3
  Timeout = 1
  Slack = 2
SPECIFICATION Spec
CHECK_DEADLOCK FALSE
INVARIANTS
  OneRunnerPerTree
  SlowOnItsOwn
  NoContainerLeft
