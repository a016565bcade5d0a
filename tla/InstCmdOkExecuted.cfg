SPECIFICATION Spec
CONSTANTS
  NumCommands = 3
  Cycle <- MCCycle
  HasStartup <- MCHasStartup
  MaxAttempts = 2
  MaxRequests = 3
INVARIANT OkMeansExecuted
CHECK_DEADLOCK FALSE
