SPECIFICATION Spec
CONSTANTS
  Interval = 2
  Reach = 6
  Horizon = 2
  MaxAge = 2
  MaxPoints = 2
  Demands = {1, 2}
  None = None
  MaxFaults = 0
INVARIANTS
  SameDemand
