SPECIFICATION FairSpec
CONSTANTS
  Requests = {r1, r2}
  Nodes = {n1}
  None = None
  Kinds <- EveryPath
  MaxConcurrent = 1
  Passthrough = TRUE
  Augmenting = TRUE
  MaxRetries = 2
INVARIANTS AccountsExact SuccessNeverInvented
PROPERTIES AdmissionSpec BlameOnlyForOwnAnswer ClaimReturned
