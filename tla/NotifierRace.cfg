CONSTANTS
  Ids = {i1}
  Unprintable = {}
  Limit = 2
  MaxChanges = 2
  MaxTime = 0
  MaxFaults = 0
SPECIFICATION Spec
INVARIANTS
  MerchantInformed
\* once every change has been told the loop only sleeps
CHECK_DEADLOCK FALSE
