CONSTANTS
  Calls    <- SomeCalls
  Raws     <- SomeRaws
  LenMod   = 16
  Limit    = 12
  Leftovers = {3}
  Cuts     = {5, 9, 10, 15}
  MaxSent  = 3
  MaxFaults = 1
  MaxAhead = 1
SPECIFICATION Spec
INVARIANTS AsMeant LossHasCause Judged InFrame
CONSTRAINT RawsInTwo
CHECK_DEADLOCK FALSE
