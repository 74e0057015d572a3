CONSTANTS
  None = None
  MaxEvents = 3
SPECIFICATION StartupSpec
CHECK_DEADLOCK FALSE
INVARIANTS
  CompleteIsOneEntry
  StreamsAreTheLaunchers
PROPERTY
  BootstrapEnds
