SPECIFICATION Spec
CONSTANTS
  Options <- TheOptions
  Answers <- TheAnswers
  MaxRequests = 2
  MaxCalls = 4
CHECK_DEADLOCK FALSE
INVARIANT BusyWhileActive
INVARIANT ToldOnce
INVARIANT JsonpOwnData
INVARIANT TypeAsAsked
