SPECIFICATION TimeSpec
CONSTANTS
  NumCommands = 2
  Cycle <- MCCycle
  HasStartup <- MCHasStartup
  MaxAttempts = 8
  MaxRequests = 2
  AwayTicks = 11
  MaxTransfer = 2
INVARIANTS
  ServerBlockedAtMost
  UnstartedOnlyIfAway
  StartedInTimeIsTold
  NothingLeaks
  TransferEnds
PROPERTIES
  FreedOnlyWhenReturned
  RequestSpec
CHECK_DEADLOCK FALSE
