SPECIFICATION Spec
CONSTANTS
  Conns = {c1}
  MaxRequests = 1
INVARIANTS NoSampleBehindClose
CHECK_DEADLOCK FALSE
