CONSTANTS
  Base       = 4
  Limit      = 32
  Masks      = {1, 7}
  StringMask = 1
  Builds     = {"debug", "release"}
  Text       <- Bytes
  Decode     <- SomeCode
  Leftover   <- OldContents
  MaxBytes   = 5
SPECIFICATION Spec
INVARIANTS Exact RoundTrip NotPutOff StringWhole
CHECK_DEADLOCK FALSE
