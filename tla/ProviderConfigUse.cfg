SPECIFICATION FairSpec
CONSTANTS
  NoConfig = NoConfig
  Configs = {k1, k2}
  Default = k1
  CRs = {c1}
  Users = {}
  MaxFaults = 1
  MaxEdits = 1
INVARIANTS
  TypeOK
PROPERTIES
  CountedConfigStays
  UsageFollowsReference
  ConfigDeletionSettles
  ResourceDeletionSettles
CHECK_DEADLOCK FALSE
