SPECIFICATION Spec
CONSTANTS
  ns1 = ns1
  ns2 = ns2
  crd = crd
  subscription = subscription
  opcrd = opcrd
  operand = operand
  custom = custom
  global = global
  NoNamespace = NoNamespace
  BuiltIn = BuiltIn
  Nothing = Nothing
  Namespaces = {ns1, ns2}
  CRDs = {crd}
  Others = {subscription, operand, custom, global}
  OperatorCRDs = {opcrd}
  Operator <- MCOperator
  Position <- MCPosition
  NamespaceOf <- MCNamespaceOf
  KindOf <- MCKindOf
  Finalized = {operand}
  WithStatus = {custom}
  MaxCommands = 5
  MaxFailures = 2
  MaxConflicts = 4
PROPERTY
  WaitsOnlyForMissingCRD
CHECK_DEADLOCK FALSE
