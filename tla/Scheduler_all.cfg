SPECIFICATION FairSpec
CONSTANTS
  h1 = h1
  c1 = c1
  c2 = c2
  w1 = w1
  w2 = w2
  Keys <- OneKeyKeys
  ExitCodes = {0, 2, 3}
  CheckThreshold <- NoThresholds
  DefaultThreshold = 2
  SoftFailGlobal = TRUE
  PassOrder <- OneKey
  CheckOf <- MCCheckOf
  HostOf <- MCHostOf
  TypeOf <- AllPing
  PingCodes = {0, 2}
  Configured = {}
  Switchable <- OneHost
  Workers = {w1, w2}
  JobCap = 1
  ResultCap = 1
  Interval <- OneTick
  Jitter = 0
  MaxAge = 2
INVARIANTS
  SchedulerTypeOK
  InFlightTracked
PROPERTIES
  ImplementsTracker
  WorkersComeBack
  StatusSettles
