SPECIFICATION Spec
CONSTANTS
  Elems = {d, e}
  Kinds = {"show", "hide", "toggle"}
  Durations = {2}
  Delays = TRUE
  MaxCalls = 4
CHECK_DEADLOCK FALSE
INVARIANT OneAtATime
INVARIANT ComesToRest
PROPERTY EndsAsAsked
PROPERTY AnimationsEnd
