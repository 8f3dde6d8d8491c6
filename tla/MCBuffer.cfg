CONSTANTS
  b1 = b1
  b2 = b2
  Null = Null
  Block <- Blocks
  Byte = {0, 1}
  Sizes = {0, 1, 3}
  MaxLen = 4
SPECIFICATION FairSpec
INVARIANTS InBounds Owned KeepsBytes
PROPERTIES EventuallyIdle
