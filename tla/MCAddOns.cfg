SPECIFICATION Spec
CHECK_DEADLOCK FALSE
SYMMETRY Symmetry
CONSTANTS
  NumClusters = 2
  NumNodes = 3
  Masters = {1, 2}
  First = 1
  IngressByte = 3
  APIByte = 4
  Bytes = 5
  NumRegistries = 2
  Configured = 0
  MaxVersion = 2
  Processes = {p1, p2}
  Initial <- MCInitial
  Installed = {1, 2}
  Named = 1
  NumCatalogs = 2
  MaxRuns = 2
  MaxOverlapped = 2
  MaxEvents = 1
INVARIANTS TypeOK AddressesDistinct ExitZeroMeans MirrorsTrusted
