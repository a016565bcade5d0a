SPECIFICATION FairSpec
CONSTANTS
  Bools <- MCBools
  NumReports = 2
  DeviceStates <- MCDeviceStates
INVARIANTS
  NoRepeatedToken
PROPERTIES
  LatchDroppedOnlyForMains
  LatchIsServed
  MainsDropLatch
