SPECIFICATION Spec
CONSTANTS
  Hours = {1, 2}
  Jobs = {j1, j2}
  None = None
  Predictions = {0, 10}
  Actuals = {0, 12, 13}
  ErrorPercent = 30
  MinRecords = 2
  UploadEnabled = TRUE
  MaxLearned = 5
  MaxFaults = 1
CHECK_DEADLOCK FALSE
INVARIANTS
  MarkedIsLearned
  ReuseNeedsFault
  LabelHolds
PROPERTIES
  ModelGrows
  MarkedIsUsed
