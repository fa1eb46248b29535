SPECIFICATION Spec
CONSTANTS
  Interval = 2
  Reach = 6
  Horizon = 2
  MaxAge = 3
  MaxPoints = 2
  Demands = {1, 2}
  None = None
  MaxFaults = 2
INVARIANTS
  TypeOK
  PublishedFirst
  DemandNear
  NotePairs
  OnePointAnHour
PROPERTIES
  GraphFilled
