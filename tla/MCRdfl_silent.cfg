SPECIFICATION SilentSpec
CONSTANTS
  BuffSize = 2
  MaxAlloc = 6
  Counts = {1}
  StreamLength = 3
  Settings <- ManagedDescriptors
  Timeouts = {"finite"}
  Faults = {}
  DevelBuild = FALSE
PROPERTY MonitoringReturns
