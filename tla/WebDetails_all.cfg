SPECIFICATION FairSpec
CONSTANTS
  None = None
  h1 = h1
  h2 = h2
  a1 = a1
  a2 = a2
  c1 = c1
  c2 = c2
  c3 = c3
  HostIds <- MCHostIds
  AlertIds <- MCAlertIds
  MainViews = {"dashboard", "hosts", "alerts"}
  Calls <- MCCalls
INVARIANTS
  TypeOK
  SpinnerHasCall
  NothingLeftBehind
  DetailsBelongTogether
PROPERTIES
  SpinnersStop
