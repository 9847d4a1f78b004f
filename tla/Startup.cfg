CONSTANTS
  Ton = ton
  Jettons = {jetton}
  MaxLt = 2
  MaxDeploys = 2
  MaxFaults = 2
SPECIFICATION FairSpec
INVARIANTS
  TypeOK
  TablesBeforeUse
  PaymentsAboveStart
  AllHandedOver
PROPERTIES
  RequestsAreAnswered
  EventuallyServes
  StopsWhenAsked
\* a process that was stopped may never be deployed again
CHECK_DEADLOCK FALSE
