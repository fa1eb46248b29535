SPECIFICATION Spec
CONSTANTS
  Step = 2
  MinTps = 0
  MaxTps = 3
  Concurrency = 1
  Bursts = {b1}
  BurstMax = 2
  MaxCalls = 2
  MaxFaults = 2
INVARIANTS
  RateAgrees
  CountersBalance
PROPERTIES
  AnswersTrue
  BurstSent
