SPECIFICATION Spec
CONSTANTS
  ByteBits = 2
  Encodings <- MCEncodings
  Sizes = {3, 6, 8}
  Commanded <- MCCommanded
INVARIANTS
  InRangeIsKept
  SetIsReadBack
  RangeIsRepaired
