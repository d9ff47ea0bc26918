SPECIFICATION Spec
CONSTANTS
  c1 = c1
  c2 = c2
  h1 = h1
  h2 = h2
  Ids = {c1, c2}
  Names = {h1, h2}
  Definitions <- FewDefinitions
  HostLists <- FewHosts
  Sections <- FewSections
  MaxMain = 2
  MaxFiles = 2
  MaxDefs = 2
  MaxSpare = 1
INVARIANTS
  MergedByTheRules
  NoHostTwice
PROPERTIES
  EntriesStayUnique
CHECK_DEADLOCK FALSE
