CONSTANTS
  hbm = hbm
  client = client
  Addrs <- MCAddrs
  Lengths <- MCLengths
  Frags <- MCFrags
  Sizes <- MCSizes
  Strays <- MCStrays
  Depth = 4
  Polls = 2
  MaxMsgs = 2
SPECIFICATION FairSpec
INVARIANTS TypeOK OnePiece WholeInOrder
PROPERTIES ReadReturns
