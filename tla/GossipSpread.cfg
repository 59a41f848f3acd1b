CONSTANTS
  a = a
  b = b
  j = j
  None = None
  Node <- Nodes
  Known <- Star
  Lossy = FALSE
  MaxNet = 1
  MaxCrash = 1
  MaxForget = 0
  MaxHand = 0
  Draw <- AToJOfB
SPECIFICATION FairSpec
CHECK_DEADLOCK FALSE
PROPERTY SavedAgain
PROPERTY ListsSpread
