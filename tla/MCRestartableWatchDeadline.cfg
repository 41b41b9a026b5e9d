SPECIFICATION FairSpec
CONSTANTS
  Objects = {a, b}
  None = None
  MaxVersion = 3
  MaxBreaks = 2
PROPERTY
  DeadlineReleasesReader
CHECK_DEADLOCK FALSE
