SPECIFICATION Spec
CONSTANTS
  Calls = {c1, c2}
  Stamps = {1}
  None = None
  MaxPolls = 2
  MaxTicks = 3
  MaxVisits = 2
  MaxFaults = 1
INVARIANTS
  TypeOK
  DoneIsTrue
  NoLostTimer
  QueuedIsWaitedFor
PROPERTIES
  TimersStop
CHECK_DEADLOCK FALSE
