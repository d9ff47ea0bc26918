SPECIFICATION Spec
CONSTANTS
  h1 = h1
  c1 = c1
  c2 = c2
  w1 = w1
  w2 = w2
  Keys <- TwoChecksKeys
  ExitCodes = {0, 2, 3}
  CheckThreshold <- NoThresholds
  DefaultThreshold = 2
  SoftFailGlobal = FALSE
  PassOrder <- TwoChecks
  CheckOf <- MCCheckOf
  HostOf <- MCHostOf
  TypeOf <- MixedTypes
  PingCodes = {0, 2}
  Configured <- FirstConfigured
  Switchable = {}
  Workers = {w1}
  JobCap = 1
  ResultCap = 1
  Interval <- OneTick
  Jitter = 0
  MaxAge = 2
INVARIANTS
  OwnPlugin
