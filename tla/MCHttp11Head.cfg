CONSTANTS
  Symbols <- MCSymbols
  Requests <- MCRequests
  Lower <- MCLower
  Lookups <- MCLookups
  MaxIndex = 2
  MaxNumber = 20
  MaxErrors = 1
  None = None
SPECIFICATION HeadSpec
INVARIANTS AsSent Verdict
PROPERTIES Answers EventuallyParsed
CHECK_DEADLOCK FALSE
