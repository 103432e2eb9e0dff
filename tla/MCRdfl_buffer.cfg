SPECIFICATION Spec
CONSTANTS
  BuffSize = 2
  MaxAlloc = 6
  Counts = {1, 3}
  StreamLength = 6
  Settings <- BufferPolicies
  Timeouts = {"none"}
  Faults = {}
  DevelBuild = FALSE
INVARIANT TypeOK
INVARIANT BufferSound
INVARIANT SkipSound
INVARIANT ConsumesExactly
INVARIANT RoomIsExact
INVARIANT FlushExact
INVARIANT EofMeansAllRead
PROPERTY ImplementsByteFifo
