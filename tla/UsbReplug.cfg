SPECIFICATION FairSpec
CONSTANTS
  Addresses = {1}
  MaxPlugs = 2
  Kinds = {"ups"}
  Items0 = 1
  Items1 = 2
PROPERTY AttachedUpsIsPolled
