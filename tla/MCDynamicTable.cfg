CONSTANTS
  Names      <- TwoNames
  Values     <- TwoValues
  Static     <- TwoStatics
  TableSizes <- SomeSizes
SPECIFICATION TableSpec
INVARIANTS DoubleEnded Budget
PROPERTY IsList
