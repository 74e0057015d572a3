CONSTANTS
  a = a
  b = b
  c1 = c1
  c2 = c2
  Paths <- MCPaths
  Inodes = {1, 2, 3}
  Absent = Absent
  Texts = {"x", "y", "z"}
  Written = "z"
  None = None
  Savers <- MCSavers
  BaseName <- MCBaseName
  MaxRuns = 2
  Evaluating = c1
  Cases <- MCCases
  Behaviours <- MCBehaviours
  Changes <- MCChanges
SPECIFICATION MCSpec
CHECK_DEADLOCK FALSE
INVARIANT NotReproducedMeansChanged
