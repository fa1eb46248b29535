SPECIFICATION Spec
CONSTANTS
  c1 = c1
  m1 = m1
  m2 = m2
  p1 = p1
  w1 = w1
  w2 = w2
  None = None
  Malformed = Malformed
  Calls <- OneCall
  Messages <- TwoCopies
  Body <- TwoCopiesBody
  Workers <- TwoWorkers
  BatchSize = 2
  RetryLimit = 1
  MaxReceives = 2
  MaxFaults = 3
SYMMETRY Symmetry
INVARIANTS
  NoCallLost
PROPERTIES
  LedgerSafety
