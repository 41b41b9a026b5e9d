SPECIFICATION FairSpec
CONSTANTS
  NumClusters = 2
  Processes = {p1}
  MaxRuns = 4
INVARIANTS
  TypeOK
  FilesMatch
PROPERTIES
  ImplementsClusterKeys
  ReadyMeansInstalled
  CommandEnds
CHECK_DEADLOCK FALSE
