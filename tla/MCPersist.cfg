SPECIFICATION Spec
CHECK_DEADLOCK FALSE
CONSTANTS
  Domains = {"old", "new"}
  First = "old"
  Requests = {1, 2}
  Services = {"ingress"}
  Addresses = {"a", "b"}
  Forms <- MCForms
  MaxAttempts = 2
INVARIANTS TypeOK OriginServed SuccessMeansSaved
PROPERTY AttemptEnds
