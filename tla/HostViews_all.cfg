SPECIFICATION Spec
CONSTANTS
  None = None
  HostIds = {1, 2, 3}
  CheckIds = {1, 2}
  CheckedHosts = {1, 2}
  HostRecord <- MCHostRecord
  Threshold <- MCThreshold
  Names = {0, 1}
  DefaultGroup = 6
  ExitCodes = {0, 1, 2, 4}
  Octets = 16
  Limit <- MCLimit
  Spelling <- MCSpelling
  Output <- MCOutput
  Substrings <- MCSubstrings
  MaxTime = 4
INVARIANTS
  ViewsAgree
  HostsInOrder
  AlertsTellAll
  HealthyMeansHealthy
  CSVReadsBack
PROPERTIES
  AffectedAreAffected
CHECK_DEADLOCK FALSE
