SPECIFICATION FairSpec
CONSTANTS
  NumCommands = 3
  Cycle <- MCCycle
  HasStartup <- MCHasStartup
  MaxAttempts = 2
  MaxRequests = 3
INVARIANTS
  TypeOK
  StartupBeforeShutdown
  StartedAnswersAreTrue
  UnstartedAnswersHaveCause
PROPERTIES
  AtMostOnce
  EveryRequestAnswered
  ServiceSpec
CHECK_DEADLOCK FALSE
