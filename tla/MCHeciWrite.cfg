CONSTANTS
  hbm = hbm
  client = client
  Addrs <- MCAddrs
  Lengths <- MCLengths
  Depth = 4
  PtrMod = 8
  WordMod = 64
  LenMod = 9
  Polls = 2
  MaxMsgs = 2
SPECIFICATION FairSpec
INVARIANTS TypeOK NoOverrun IntactDelivery
PROPERTIES WriteReturns AcceptedIsDelivered
