SPECIFICATION FairSpec
CONSTANTS
  BuffSize = 2
  MaxAlloc = 6
  Counts = {2}
  StreamLength = 4
  Settings <- BufferPolicies
  Timeouts = {"none"}
  Faults = {}
  DevelBuild = FALSE
PROPERTY ConsumeEnds
PROPERTY CallsReturn
