SPECIFICATION Spec
CONSTANTS
  Key = key
  Keys <- MCKeys
  ExitCodes = {0, 1, 2, 3}
  CheckThreshold <- NoThreshold
  DefaultThreshold = 3
  SoftFailGlobal = TRUE
  IntervalOf <- EveryKind
  DefaultInterval = 60
  Latencies = {5, 25}
  Quantum = 5
INVARIANTS
  CheckedInTime
  ReportedInTime
PROPERTIES
  AlarmTakesTime
CHECK_DEADLOCK FALSE
