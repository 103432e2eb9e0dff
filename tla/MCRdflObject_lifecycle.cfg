SPECIFICATION Spec
CONSTANTS
  Timeouts <- SomeTimeouts
  Settings <- SomeLoads
  MallocFails = TRUE
  MaxComments = 1
  MaxChunks = 2
INVARIANT TypeOK
INVARIANT HeapOwned
INVARIANT CleanFreesAll
INVARIANT DescriptorRemembered
PROPERTY TimerFollows
