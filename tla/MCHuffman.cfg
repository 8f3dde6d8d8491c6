CONSTANTS
  HUFFMAN_CODES    <- Codes
  HUFFMAN_CODE_LEN <- CodeLengths
  TREE_LIST        <- Tree
  Path             <- Ways
  Strings          <- SomeStrings
  RawData          <- SomeData
  Leftover         <- OldContents
SPECIFICATION Spec
INVARIANTS RoundTrip Decoded Verdict
CHECK_DEADLOCK FALSE
