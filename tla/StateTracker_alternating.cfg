SPECIFICATION HistorySpec
CONSTANTS
  k1 = k1
  k2 = k2
  Keys <- MCKeys
  ExitCodes = {0, 1, 2, 3}
  CheckThreshold <- MCThresholdsOneOff
  DefaultThreshold = 3
  SoftFailGlobal = TRUE
INVARIANTS
  FailuresAreReported
