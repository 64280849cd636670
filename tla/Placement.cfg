\* Two nodes, one client, two descriptors; the agent of one of them may restart.
CONSTANTS
  n1 = n1
  n2 = n2
  f1 = f1
  f2 = f2
  eth = eth
  wlan = wlan
  c1 = c1
  None = None
  Nodes = {n1, n2}
  Clients = {c1}
  Fdus = {f1, f2}
  Descriptor <- TwoFdus
  NodeInfo <- TwoNodes
  Suited <- AllSuited
  Statuses <- LittleMemoryOrMuch
  MaxStarts <- FirstRestarts
SPECIFICATION FairSpec
INVARIANTS
  TypeOK
  PlacedWhereMet
  FoundWhenThere
PROPERTIES
  RequestEnds
