SPECIFICATION Spec
CONSTANTS
  NoCR = NoCR
  NoExt = NoExt
  OwnName = OwnName
  NodeName <- SameNames
  Kind = "Persona"
  CRs = {c1}
  OrphanPolicy = {}
  Uuids = {u1, u2}
  Targets = {t1}
  GracePeriod = 1
  MaxClock = 2
  MaxFaults = 1
  MaxEdits = 1
INVARIANTS
  ReportedDeletedMeansDeleted
SYMMETRY Symmetry
CHECK_DEADLOCK FALSE
