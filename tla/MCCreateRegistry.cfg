SPECIFICATION FairSpec
CHECK_DEADLOCK FALSE
CONSTANTS
  Creator = "create"
  Processes = {"create", "icsp"}
  Servers = {"local", "mirror"}
  ServerOf <- MCServerOf
  Names = {"ztpfw", "custom"}
  Default = "ztpfw"
  NoName = NoName
  MaxCAs = 2
  Nodes = {n1, n2}
  FirstNodes = {n1}
INVARIANTS TypeOK TrustedNodes CreatedMeansUsable SecretMatchesDatabase
PROPERTIES ImplementsTrustStore RefusedOnlyIf CommandEnds
