SPECIFICATION FairSpec
CONSTANTS
  Kind = "User"
  Users = {u}
  Personas = {p}
  PermissionSets = {s}
  Teams = {t}
  NodeName <- SameNames
  NoCR = NoCR
  MaxNodes = 4
  MaxUpsets = 1
INVARIANTS
  TypeOK
  AccessAccountedFor
  UnknownOutcomeMarked
PROPERTIES
  DeletionSettles
  AccessArrives
  ImplementsLifecycle
  PersonasImplementLifecycle
CHECK_DEADLOCK FALSE
