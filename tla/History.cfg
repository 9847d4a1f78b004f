CONSTANTS
  Limit = 2
  MaxId = 5
  MaxDeploys = 2
  MaxFaults = 2
SPECIFICATION FairSpec
INVARIANTS
  TypeOK
  OnlyOvertakenMissed
  NeverRepeated
PROPERTIES
  EventuallyReceived
\* all invoices can be made and received
CHECK_DEADLOCK FALSE
