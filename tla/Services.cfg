SPECIFICATION Spec
CONSTANTS
  Tasks = {t1, t2, t3}
  None = None
  Absent = Absent
  TTL = 3
  Budget = 1
  MaxClock = 4
  MaxWindow = 2
  Backoff = 2
  ValueLength = 2
  Ceiling = 4
  Blank = {2}
  MaxEdits = 3
  Names = {1, 2, 3}
  Models = {a, b}
  NoModel = NoModel
  NoGroup = NoGroup
  MAX_TIMEOUT_SECONDS = 2
  MAX_FAILURE_COOLDOWN_SECS = 2
  MAX_REPROMPT_TOTAL_MS = 2
  MAX_CHUNK_DELAY_MS = 2
  Hosts = {"east", "west", "south", "localhost"}
  NCtx = 3
  CHUNK = 4
  OVERLAP = 1
  FILE_MAX = 6
  BUDGET = 8
  MAX_FILES = 2
  MAX_LINES = 1
  CACHE_MAX = 1
  TRACE_KEEP = 2
  NAMES = 1
  SKIPS = 1
  MaxLaunches = 3
  MaxTyped = 1
INVARIANTS CurrentMtimeMeansCurrentText RoutingIsDetermined NothingUnread ServesWhatWasChecked ModelsAsDiscovered SwitchIsHonest
PROPERTIES ContextHonest CapabilityHonest
CHECK_DEADLOCK FALSE
