CONSTANTS
  Messages  <- MCMessages
  UsizeMax  = 255
  MaxBuf    = 3
  MaxFaults = 2
SPECIFICATION FairSpec
INVARIANTS BodyIntact LossHasCause
PROPERTIES EventuallyOver KeepsPromise
CHECK_DEADLOCK FALSE
