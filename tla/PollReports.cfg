SPECIFICATION Spec
CONSTANTS
  Usages <- MCUsages
  Depth = 3
  Layouts <- MCLayouts
  ReadMap <- MCReadMap
  MoreMap <- MCMoreMap
  Values = {0, 1}
  MaxEntry = 1
INVARIANTS
  LookupIsExact
  CleanPollServesAll
  ListedVarsAreFound
PROPERTY
  ValuesAreTheDevices
CHECK_DEADLOCK FALSE
