SPECIFICATION Spec
CONSTANTS
  Timeouts <- NegativeTimeouts
  Settings <- MonitoringLoads
  MallocFails = FALSE
  MaxComments = 0
  MaxChunks = 1
INVARIANT DefaultTimeoutBlocks
