CONSTANTS
  http = http
  other = other
  Http = http
  Other = other
  Target = "uefi"
  HandshakeTries = 5
  OpenTries = 3
  RecvTries = 6
  ChanMod = 3
  RxCap = 3
  BufCap = 2
  AmtIds <- MCAmtIds
  InitScripts <- MCAllScripts
  Responses <- MCOversize
  Slow = FALSE
  MaxPosts = 3
  MaxQueue = 1
SPECIFICATION PatientSpec
INVARIANTS RxIsPrefix
PROPERTIES ResponseWhole
