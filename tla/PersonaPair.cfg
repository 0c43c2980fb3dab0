SPECIFICATION Spec
CONSTANTS
  NoCR = NoCR
  NoExt = NoExt
  OwnName = OwnName
  NodeName <- OneName
  Kind = "Persona"
  CRs = {c1, c2}
  OrphanPolicy = {c2}
  Uuids = {u1, u2}
  Targets = {t1}
  GracePeriod = 0
  MaxClock = 1
  MaxFaults = 1
  MaxEdits = 1
INVARIANTS
  ExternalNameOwned
  NoForgottenGrant
PROPERTIES
  NodesDeletedOnRequest
  RewiredByName
  ImplementsLifecycle
SYMMETRY Symmetry
CHECK_DEADLOCK FALSE
