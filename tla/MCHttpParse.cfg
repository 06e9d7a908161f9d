CONSTANTS
  Base = 2
  MaxBody = 4
  Bytes <- MCBytes
  MaxLen = 4
SPECIFICATION FairSpec
INVARIANTS TypeOK BodyIsWhatCame
PROPERTIES ParseReturns
