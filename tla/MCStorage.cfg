SPECIFICATION Spec
CHECK_DEADLOCK FALSE
CONSTANTS
  NumClusters = 2
  NumNodes = 2
  Initial <- MCInitial
  Installed = {1}
  Processes = {p1, p2}
  MaxRuns = 3
  MaxOverlapped = 2
INVARIANTS TypeOK ExitCodes ODFDone WaitsForExisting
PROPERTIES WipesOnlyFree StartsClean
