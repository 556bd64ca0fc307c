CONSTANTS
  N = 2
  Requests = {r1, r2}
  None = None
  Cooldown = 1
  MaxClock = 1
  UsizeMax = 7
SPECIFICATION HFairSpec
INVARIANTS Conservation NoNeedlessFallback
PROPERTIES FreeClaimExclusive CooledNodeSkipped SelectTerminates
