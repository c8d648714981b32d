\* Three movers, a page at a time, whose figures change between the pages.
CONSTANTS
  Movers = {1, 2, 3}
  Profiles <- ThreeRows
  PageSize = 1
  Elsewhere <- OtherMovers
  Scale = 120
  Precision = 5
  Rounding = 1
SPECIFICATION SearchSpec
INVARIANTS
  UnchangedSeenOnce
  BestIsPicked
