SPECIFICATION FairSpec
CONSTANTS
  Samples = {s1, s2, s3}
  Flushes = {f1}
  Shutdowns = {c1}
  Capacity = 2
  Retries = 1
INVARIANTS AcceptedInOrder DropsCounted GoneMeansSettled
PROPERTIES ClosingSettles
