CONSTANTS
  Ids = {i1}
  Payers = {p1, p2}
  KeyOwners = {p1}
  LifeTimes = {1, 3}
  MaxDuration = 2
  MaxAmount = 2
  MaxTime = 2
  MaxLt = 2
  Faults = {"rollback", "ack", "notify", "crash"}
  MaxFaults = 1
SPECIFICATION Spec
INVARIANTS
  TypeOK
  Accounting
  PaidInTime
  AcceptedKeysHavePaid
  CommittedOnce
PROPERTIES
  PaidIsFinal
  ClosedUnlessOvertaken
  FeedSpec
  LedgerSpec
\* once the bounds on time and transactions are reached nothing is left to do
CHECK_DEADLOCK FALSE
