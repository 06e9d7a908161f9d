CONSTANTS
  amthi = amthi
  lme = lme
  absent = absent
  none = none
  Last = 3
  Listed <- MCListed
  Uuid <- MCUuid
  MaxLen <- MCMaxLen
  HostAddr <- MCHostAddr
  Cap = 6
SPECIFICATION FairSpec
INVARIANTS OkIsConnected OkLeavesNothingOld NotFoundIsAbsent
PROPERTIES ConnectReturns
