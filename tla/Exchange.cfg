SPECIFICATION Spec
CONSTANTS
  Absent = Absent
  Null = Null
  Other = Other
  Space = Space
  N = 2
  Requests = {r1, r2, r3}
  None = None
  Cooldown = 1
  MaxClock = 2
  UsizeMax = 3
  Block = Block
  Done = Done
  Gap = Gap
  MaxRetries = 2
  Letter = Letter
  MaxText = 3
  MaxEntries = 3
  MaxDeltas = 4
  MaxBlockIndex = 8
  MAX_DECOMPRESSED_BYTES = 2
  RequestCap = 1
  MaxSize = 4
  X = X
  CR = CR
  LF = LF
  HighWater = 4
  MaxChunk = 3
  MaxBytes = 8
  U64Max = 5
  Plausible = 200
  ModelCells = 4
  FinishPad = 3
  FinishCells = 4
  MaxFreeForm = 5
  MaxName = 5
  MaxSamples = 1
INVARIANTS
  FairShare
  ConversationPreserved StreamAsAsked
  NothingSaidIsLost
  RepairsAreSafe StreamReadsBack DeltasReassemble
  ForwardsFaithfully
  FramingIsExact
  SamplesAreHonest
PROPERTIES SelectsAreReference
CHECK_DEADLOCK FALSE
