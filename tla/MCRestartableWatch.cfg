SPECIFICATION FairSpec
CONSTANTS
  Objects = {a, b}
  None = None
  MaxVersion = 3
  MaxBreaks = 2
INVARIANTS
  TypeOK
  NoLostObject
  NoGhostObject
PROPERTIES
  Converges
  ForwarderEnds
CHECK_DEADLOCK FALSE
