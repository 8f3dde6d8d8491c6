CONSTANTS
  Base       = 4
  Limit      = 32
  Masks      = {1, 7}
  StringMask = 1
  Builds     = {"release"}
  Text       <- Bytes
  Decode     <- SomeCode
  Leftover   <- OldContents
  MaxBytes   = 5
SPECIFICATION Spec
INVARIANT OverflowRefused
CHECK_DEADLOCK FALSE
