SPECIFICATION FairSpec
CONSTANTS
  None = None
  c1 = c1
  c2 = c2
  Lists = {"hosts", "checks"}
  OtherViews = {"dashboard", "about"}
  SortOptions = {"status", "name"}
  Calls <- MCCalls
  MaxVersion = 1
INVARIANTS
  LoadingHasCall
  SortKept
  OneConnection
PROPERTIES
  ListsCatchUp
  NeverGivesUp
