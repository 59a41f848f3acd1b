SPECIFICATION Spec
CONSTANTS
  Ds = {d1, d2, p1, p2}
  Pool = {p1, p2}
  Fns = {f}
  Vals = {v}
  MaxCalls = 5
  MaxDepth = 2
SYMMETRY Alike
CHECK_DEADLOCK FALSE
INVARIANT EndsAsFirstSaid
INVARIANT NoPromiseForgotten
INVARIANT ListenersAllCalled
INVARIANT MasterCountsAll
