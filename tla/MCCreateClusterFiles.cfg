SPECIFICATION Spec
CONSTANTS
  NumClusters = 1
  Processes = {p1}
  MaxRuns = 4
INVARIANT
  FilesAlwaysMatch
CHECK_DEADLOCK FALSE
