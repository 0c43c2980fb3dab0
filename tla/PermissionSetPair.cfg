SPECIFICATION FairSpec
CONSTANTS
  NoCR = NoCR
  CRs = {c1, c2}
  AccountIds = {x}
  Aliases = {p, q}
  RoleNames = {r1, r2}
  MaxFaults = 1
  MaxEdits = 1
  Uuids = {1, 2, 3, 4}
INVARIANTS
  TypeOK
  AmbiguousOnlyIfMisspelled
  DelegatesAsAsked
  NamedNodeLinked
PROPERTIES
  DeletionSettles
  ImplementsLifecycle
CHECK_DEADLOCK FALSE
