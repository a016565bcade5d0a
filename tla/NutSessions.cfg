SPECIFICATION Spec
CONSTANTS
  NumSlots = 1
  Conns = {c1, c2}
  Lines <- SessionLines
  MaxLines = 4
  Window = 1
  Stallers = {}
  username_ = "upsmon"
  password_ = "secret"
  primary_username_ = "primary"
  primary_password_ = "secret"
INVARIANTS
  OneSlotPerSocket
  FlagsAreEarned
PROPERTIES
  NutServiceSpec
CHECK_DEADLOCK FALSE
SYMMETRY Symmetry
