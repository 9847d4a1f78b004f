CONSTANTS
  Ids = {i1, i2}
  Unprintable = {i2}
  Limit = 3
  MaxChanges = 2
  MaxTime = 1
  MaxFaults = 2
SPECIFICATION FairSpec
INVARIANTS
  TypeOK
  NotForgotten
  OnlyOvertakenUninformed
PROPERTIES
  NeverGoesBack
  RowsAreDealtWith
\* once every change has been told the loop only sleeps
CHECK_DEADLOCK FALSE
