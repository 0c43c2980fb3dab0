SPECIFICATION FairSpec
CONSTANTS
  NoCR = NoCR
  NoExt = NoExt
  OwnName = OwnName
  NodeName <- SameNames
  Kind = "User"
  CRs = {c1}
  OrphanPolicy = {}
  Uuids = {u1, u2}
  Targets = {t1, t2}
  GracePeriod = 1
  MaxClock = 2
  MaxFaults = 0
  MaxEdits = 1
PROPERTIES
  Converges
CHECK_DEADLOCK FALSE
