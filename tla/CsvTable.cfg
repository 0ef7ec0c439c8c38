SPECIFICATION LoadSpec
CONSTANTS
  Files <- MCFiles
  Comma = Comma
  Quote = Quote
  NL = NL
  NUL = NUL
  Space = Space
  Other = Other
  Unset = Unset
INVARIANTS TableIsFile RecordsAreRows
CHECK_DEADLOCK FALSE
