SPECIFICATION Spec
CONSTANTS
  Kinds <- AllKinds
  Files <- TwoFiles
  Index <- TheIndex
  Terms = {"x", "y"}
  Matches <- TheMatches
  MaxResults = 2
  MaxSearches = 2
  MaxHolds = 2
CHECK_DEADLOCK FALSE
INVARIANT StartsWhenReady
INVARIANT MenuIsCurrent
INVARIANT StaysDismissed
INVARIANT WatermarkNotSearched
INVARIANT MenuIsRanked
PROPERTY GoesWhereShown
