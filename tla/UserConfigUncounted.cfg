SPECIFICATION Spec
CONSTANTS
  NoConfig = NoConfig
  Configs = {k1, k2}
  Default = k1
  CRs = {c1}
  Users = {c1}
  MaxFaults = 0
  MaxEdits = 0
PROPERTIES
  ConfigInUseStays
CHECK_DEADLOCK FALSE
