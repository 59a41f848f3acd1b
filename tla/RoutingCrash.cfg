CONSTANTS
  a = a
  b = b
  c = c
  w = w
  None = None
  Www = Www
  Node <- ThreeNodes
  Url <- OneUrl
  Conn <- Conns4
  Reach <- EndReach
  Known <- LineKnown
  Ask <- AskA
  ProxyAll <- OnlyA
  Oracle <- NoDraw
  MaxTTL = 1
  Fanout = 7
  Lossy = TRUE
  Faulty = TRUE
  MaxDup = 1
  MaxCrash = 1
  DefaultSat = 100
  MinThreshold = 90
SPECIFICATION FairSpec
CHECK_DEADLOCK FALSE
INVARIANT PendingIffWaiting
INVARIANT NamedNodesCanServe
PROPERTY ImplementsService
PROPERTY FallsSilent
