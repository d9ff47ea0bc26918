SPECIFICATION Spec
CONSTANTS
  None = None
  h1 = h1
  k1 = k1
  k2 = k2
  c1 = c1
  c2 = c2
  HostIds <- MCHostIds
  CheckIds <- MCCheckIds
  Timed <- MCTimed
  Calls <- MCCalls
  MaxNotices = 3
INVARIANTS
  SavingIsOneSave
  RequestsMatchForms
  CreatedOnce
PROPERTIES
  FailedSaveKeepsForm
