SPECIFICATION Spec
CONSTANTS
  Bools <- MCBools
  NumReports = 2
  DeviceStates <- MCDeviceStates
PROPERTY FsdKeptUntilMains
