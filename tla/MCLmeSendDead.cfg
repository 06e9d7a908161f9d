CONSTANTS
  http = http
  other = other
  Http = http
  Other = other
  Target = "uefi"
  HandshakeTries = 4
  OpenTries = 3
  RecvTries = 5
  ChanMod = 3
  RxCap = 3
  BufCap = 2
  AmtIds <- MCAmtIds
  InitScripts <- MCGoodScripts
  Responses <- MCSmall
  Slow = FALSE
  MaxPosts = 2
  MaxQueue = 0
SPECIFICATION Spec
PROPERTIES SendOverLiveConnection
