CONSTANTS
  a = a
  b = b
  j = j
  None = None
  Node <- Nodes
  Known <- Newcomer
  Lossy = TRUE
  MaxNet = 1
  MaxCrash = 1
  MaxForget = 1
  MaxHand = 1
  Draw <- AToJOfB
SPECIFICATION Spec
CHECK_DEADLOCK FALSE
INVARIANT NamesAreIntroduced
