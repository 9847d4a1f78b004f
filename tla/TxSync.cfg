CONSTANTS
  MaxLt = 5
  Batch = 2
  MaxFaults = 3
SPECIFICATION FairSpec
INVARIANTS
  TypeOK
  NoHoleBelowLastLt
  CursorMatchesEffects
  PanicsOnlyBeforeFirst
PROPERTIES
  FeedSpec
  EventuallyProcessed
\* an account whose trackAccount failed really stays as it is
CHECK_DEADLOCK FALSE
