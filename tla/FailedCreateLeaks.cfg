SPECIFICATION Spec
CONSTANTS
  NoCR = NoCR
  NoExt = NoExt
  OwnName = OwnName
  NodeName <- SameNames
  Kind = "Team"
  CRs = {c1}
  OrphanPolicy = {}
  Uuids = {u1, u2}
  Targets = {t1}
  GracePeriod = 1
  MaxClock = 2
  MaxFaults = 0
  MaxEdits = 0
INVARIANTS
  FailedCreateLeavesNothing
SYMMETRY Symmetry
CHECK_DEADLOCK FALSE
