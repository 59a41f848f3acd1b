SPECIFICATION FairSpec
CONSTANTS
  Fns = {f, g}
  Vals = {v, w}
  Options <- MCOptions
  MaxCalls = 5
CHECK_DEADLOCK FALSE
INVARIANT PassCallsEach
INVARIANT MemoryReachesAll
PROPERTY LockedKeepsItsValue
PROPERTY QueueDrains
