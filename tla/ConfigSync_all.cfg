SPECIFICATION FairSpec
CONSTANTS
  h1 = h1
  h2 = h2
  c1 = c1
  HostIds = {h1}
  CheckIds = {c1}
  HostValues <- AnyHost
  CheckValues <- OneHostChecks
  Configs <- BothFiles
  Main = main
  Requests = {r1, r2}
INVARIANTS
  ConfigWins
PROPERTIES
  Converges
