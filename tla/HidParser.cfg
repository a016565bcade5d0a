SPECIFICATION Spec
CONSTANTS
  Pages = {132}
  Usages = {1, 2}
  ReportIDs = {7}
  Sizes = {100}
  Counts = {1, 2}
  MaxBits = 400
  MaxDepth = 2
  MaxUsages = 2
INVARIANTS
  PathIsOpenCollections
  OffsetIsTrue
  ReportHoldsFields
PROPERTY UsagesInOrder
