SPECIFICATION Spec
CONSTANTS
  BuffSize = 2
  MaxAlloc = 3
  Counts = {0, 2, 3}
  StreamLength = 3
  Settings <- ManagedDescriptors
  Timeouts = {"none", "finite"}
  Faults = {"malloc", "read", "select"}
  DevelBuild = TRUE
PROPERTY ReturnsBytesRead
PROPERTY ClosesOnlyOpen
