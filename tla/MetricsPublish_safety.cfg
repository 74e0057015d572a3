CONSTANTS
  p1 = p1
  p2 = p2
  p3 = p3
  p4 = p4
  d1 = d1
  d2 = d2
  Procs <- MCProcs
  Pids <- MCPids
  Pid <- MCPid
  Nobody = Nobody
SPECIFICATION Spec
CHECK_DEADLOCK FALSE
INVARIANTS
  NoLitter
PROPERTIES
  ImplementsWriteOnce
