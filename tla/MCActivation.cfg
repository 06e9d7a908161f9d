CONSTANTS
  Attempts = 3
  Refusals <- MCRefusals
SPECIFICATION Spec
INVARIANTS RightPassword SuccessIsActivated FailureIsClean
PROPERTIES SetupIsLast NoReplay
CHECK_DEADLOCK FALSE
