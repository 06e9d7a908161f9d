CONSTANTS
  http = http
  other = other
  Http = http
  Other = other
  Target = "windows"
  HandshakeTries = 4
  OpenTries = 3
  RecvTries = 5
  ChanMod = 3
  RxCap = 3
  BufCap = 2
  AmtIds <- MCAmtIds
  InitScripts <- MCAllScripts
  Responses <- MCOversize
  Slow = TRUE
  MaxPosts = 3
  MaxQueue = 0
SPECIFICATION Spec
INVARIANTS ChannelAgreement
