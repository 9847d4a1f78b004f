CONSTANTS
  Workers = {w1, w2, w3}
  Clients = {c1}
  MaxSize = 4
  MaxPayments = 2
SPECIFICATION FairSpec
INVARIANTS
  TypeOK
  NeverStalled
PROPERTIES
  StallEnds
  PaymentsWritten
