SPECIFICATION Spec
CONSTANTS
  Pods = {p1, p2}
  None = None
  StaleAfter = 1
  Hour = 4
  MaxPoints = 3
  BucketSize = 2
  MaxCalls = 2
  MaxFaults = 2
INVARIANTS
  TypeOK
  CallsConserved
  OvercountBounded
  GraphComplete
PROPERTIES
  QuietEnds
