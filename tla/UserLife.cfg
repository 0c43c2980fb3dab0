SPECIFICATION FairSpec
CONSTANTS
  NoCR = NoCR
  NoExt = NoExt
  OwnName = OwnName
  NodeName <- SameNames
  Kind = "User"
  CRs = {c1}
  OrphanPolicy = {}
  Uuids = {u1, u2, u3, u4}
  Targets = {t1}
  GracePeriod = 1
  MaxClock = 2
  MaxFaults = 2
  MaxEdits = 1
INVARIANTS
  TypeOK
  CreatedUnderDurableMark
  UnrecordedCreateBlocks
  ExternalNameOwned
  NoForgottenGrant
PROPERTIES
  DeletionSettles
  CreationSettles
CHECK_DEADLOCK FALSE
