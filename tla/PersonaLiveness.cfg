SPECIFICATION FairSpec
CONSTANTS
  NoCR = NoCR
  NoExt = NoExt
  OwnName = OwnName
  NodeName <- SameNames
  Kind = "Persona"
  CRs = {c1}
  OrphanPolicy = {}
  Uuids = {u1, u2, u3}
  Targets = {t1, t2}
  GracePeriod = 1
  MaxClock = 2
  MaxFaults = 1
  MaxEdits = 1
PROPERTIES
  DeletionSettles
  Converges
CHECK_DEADLOCK FALSE
