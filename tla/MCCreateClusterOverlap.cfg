SPECIFICATION Spec
CONSTANTS
  NumClusters = 1
  Processes = {p1, p2}
  MaxRuns = 3
INVARIANTS
  KeysAgree
  FilesMatch
CHECK_DEADLOCK FALSE
