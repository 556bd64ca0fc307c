SPECIFICATION Spec
CONSTANTS
  None = None
  MAX_TIMEOUT_SECONDS = 2
  MAX_FAILURE_COOLDOWN_SECS = 2
  MAX_REPROMPT_TOTAL_MS = 2
  MAX_CHUNK_DELAY_MS = 2
  Hosts = {"east", "west", "south", "localhost"}
  NCtx = 3
INVARIANTS NodesAreIndependent
CHECK_DEADLOCK FALSE
