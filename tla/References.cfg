SPECIFICATION FairSpec
CONSTANTS
  Names = {a, b}
  Fields = {f1, f2}
  Single = {f1}
  Policies = {{}, {"Optional"}, {"Always", "Optional"}, {"Selector"}, {"Selector", "Always"}}
  Provisional = TRUE
  MaxRefs = 1
  MaxNodes = 1
  MaxFaults = 1
  MaxEdits = 1
INVARIANTS
  TypeOK
  ValuesAreOfReferences
PROPERTIES
  ReferencesAsAsked
  ResolutionSettles
CHECK_DEADLOCK FALSE
