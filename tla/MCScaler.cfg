SPECIFICATION Spec
CONSTANTS
  DemandPerPod = 10
  BufferPods = 1
  MinReplicas = 1
  MaxReplicas = 3
  HighPercent = 80
  LowPercent = 40
  ReactiveStep = 1
  Cooldown = 2
  Demands = {0, 10, 30}
  Traffics = {0, 16, 30}
  StartReplicas = {0, 1}
  Absent = Absent
  MaxChanges = 3
  MaxFaults = 2
INVARIANTS
  BumpsJustified
PROPERTIES
  CooldownKept
  HoldKept
  ForecastReached
  BaselineWithoutTraffic
