CONSTANTS
  http = http
  other = other
  Http = http
  Other = other
  Target = "uefi"
  HandshakeTries = 3
  OpenTries = 2
  RecvTries = 3
  ChanMod = 3
  RxCap = 3
  BufCap = 2
  AmtIds <- MCAmtIds
  InitScripts <- MCShortScripts
  Responses <- MCLarge
  Slow = TRUE
  MaxPosts = 2
  MaxQueue = 1
SPECIFICATION FairSpec
INVARIANTS TypeOK CreditBalance ChannelAgreement ForwardsNotLost
PROPERTIES OpenAfterForward LoopsEnd
