CONSTANTS
  Names     <- OneName
  Values    <- TwoValues
  Static    <- OneStatic
  Sizes     <- SomeSizes
  Full      <- Prefixes
  Permitted = 67
  MaxSent   = 3
  MaxEarlier = 1
SPECIFICATION BlockSpec
INVARIANTS InStep OnlyIllegal
PROPERTY FieldNotPutOff
CHECK_DEADLOCK FALSE
