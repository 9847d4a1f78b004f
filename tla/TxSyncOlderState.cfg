CONSTANTS
  MaxLt = 2
  Batch = 2
  MaxFaults = 0
SPECIFICATION FairSpec
INVARIANT OlderStateIsRefused
\* an account whose trackAccount failed really stays as it is
CHECK_DEADLOCK FALSE
