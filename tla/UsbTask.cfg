SPECIFICATION TaskSpec
CONSTANTS
  Addresses = {1, 2}
  MaxPlugs = 2
  Kinds = {"ups", "hid", "other"}
  Items0 = 1
  Items1 = 2
  MaxRounds = 2
INVARIANTS
  DescriptorOfHandle
  RicherDescriptorKept
  BusNeedsHost
PROPERTIES
  ClaimedUpsIsPolled
  ReadyHostIsUsed
CHECK_DEADLOCK FALSE
