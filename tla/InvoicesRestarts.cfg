CONSTANTS
  Ids = {i1}
  Payers = {p1}
  KeyOwners = {}
  LifeTimes = {1}
  MaxDuration = 2
  MaxAmount = 2
  MaxTime = 2
  MaxLt = 3
  Faults = {"rollback", "crash"}
  MaxFaults = 2
SPECIFICATION FairSpec
INVARIANTS
  CreditedOnce
  ChangesNoticed
PROPERTIES
  EventuallyClosed
\* once the bounds on time and transactions are reached nothing is left to do
CHECK_DEADLOCK FALSE
