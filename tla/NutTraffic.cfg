SPECIFICATION FairSpec
CONSTANTS
  NumSlots = 2
  Conns = {1, 2}
  Lines <- TrafficLines
  MaxLines = 3
  Window = 2
  Stallers = {1}
  username_ = "upsmon"
  password_ = "secret"
  primary_username_ = ""
  primary_password_ = ""
INVARIANTS
  LinesInOrder
PROPERTIES
  EveryLineAnswered
  GonePeersAreClosed
CHECK_DEADLOCK FALSE
