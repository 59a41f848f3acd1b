SPECIFICATION Spec
CONSTANTS
  Doc = doc
  Boxes = {box, copy}
  Plain = {div}
  Handlers <- TheHandlers
  MaxCalls = 4
CHECK_DEADLOCK FALSE
SYMMETRY Alike
INVARIANT ListensAsBound
INVARIANT ClaimedSeeTheChange
INVARIANT ClicksOnce
INVARIANT OneIsUnbound
