SPECIFICATION FairSpec
CONSTANTS
  NoCR = NoCR
  CRs = {c1, c2}
  AccountIds = {x}
  Aliases = {p, q}
  RoleNames = {r1}
  MaxFaults = 0
  MaxEdits = 0
PROPERTIES
  DeletionReachesNode
CHECK_DEADLOCK FALSE
