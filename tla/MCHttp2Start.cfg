CONSTANTS
  MinFrame  = 12
  MaxFrame  = 23
  MaxWindow = 9
  DefaultTable  = 4
  DefaultWindow = 7
  Owns    <- SomeOwns
  Cells   <- SomeCells
  Headers <- SomeHeaders
  MaxMore = 1
  MaxAhead = 1
SPECIFICATION FairSpec
INVARIANTS Agreed Judged
PROPERTY EventuallyOver
CHECK_DEADLOCK FALSE
