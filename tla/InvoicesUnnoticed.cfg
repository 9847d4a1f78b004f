CONSTANTS
  Ids = {i1}
  Payers = {p1}
  KeyOwners = {}
  LifeTimes = {1}
  MaxDuration = 2
  MaxAmount = 1
  MaxTime = 2
  MaxLt = 1
  Faults = {"crash"}
  MaxFaults = 1
SPECIFICATION Spec
INVARIANTS
  TransitionsNoticed
\* once the bounds on time and transactions are reached nothing is left to do
CHECK_DEADLOCK FALSE
