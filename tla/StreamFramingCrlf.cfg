SPECIFICATION Spec
CONSTANTS
  X = X
  CR = CR
  LF = LF
  HighWater = 2
  MaxChunk = 3
  MaxBytes = 5
INVARIANTS FlushKeepsLines
CHECK_DEADLOCK FALSE
