SPECIFICATION Spec
CONSTANTS
  Interval = 6
  Hour = 3
  Short = 1
  ForecastOffset = 3
  CheckOffset = 2
  MaxAge = 6
  WeatherMaxAge = 8
  MaxRun = 2
  None = None
  MaxFaults = 2
INVARIANTS
  TypeOK
  OnPhase
  FreshWeather
  BlindNotHealthy
  NoFalseAlarm
PROPERTIES
  Recovers
