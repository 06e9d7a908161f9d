CONSTANTS
  Attempts = 2
  Suffixes <- MCSuffixes
  Slow = TRUE
  Cap = 2
SPECIFICATION FairSpec
INVARIANTS InStep SuccessIsTrue ActivatesFromPre NoCallWhenClosed
PROPERTIES CommandsAtomic AcmStays OperationEnds
