SPECIFICATION Spec
CONSTANTS
  h1 = h1
  h2 = h2
  c1 = c1
  HostIds = {h1, h2}
  CheckIds = {c1}
  HostValues <- AnyHost
  CheckValues <- AnyCheck
  Configs <- OneFile
  Main = main
  Requests = {r1}
PROPERTIES
  UpdateSticks
