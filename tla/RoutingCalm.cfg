CONSTANTS
  a = a
  b = b
  c = c
  w = w
  None = None
  Www = Www
  Node <- ThreeNodes
  Url <- OneUrl
  Conn <- Conns6
  Reach <- EndReach
  Known <- LineKnown
  Ask <- AskA
  ProxyAll <- NoNodes
  Oracle <- Draws
  MaxTTL = 1
  Fanout = 7
  Lossy = FALSE
  Faulty = FALSE
  MaxDup = 0
  MaxCrash = 0
  DefaultSat = 100
  MinThreshold = 90
SPECIFICATION FairSpec
CHECK_DEADLOCK FALSE
INVARIANT CacheLeadsToServer
PROPERTY CacheWrittenOnce
PROPERTY EventuallyRouted
