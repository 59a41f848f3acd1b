CONSTANTS
  CiphersOK = TRUE
  MaxQueue = 2
  MaxClick = 4
SPECIFICATION LifeSpec
CHECK_DEADLOCK FALSE
INVARIANT NeverHalfUp
