CONSTANTS
  Size = 8
  TailLen = 4
  MarkerLen = 3
  Lengths <- MCLengths
  MaxBytes = 10
  MaxRuns = 3
SPECIFICATION Spec
INVARIANTS LogIsPrefix TruncationShown FlushedStays
