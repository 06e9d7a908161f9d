CONSTANTS
  Attempts = 2
  Suffixes <- MCSuffixes
  Slow = TRUE
  Cap = 3
SPECIFICATION Spec
INVARIANTS ResponseAnswersCall
