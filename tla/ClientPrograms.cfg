\* Two nodes, one of whose agents crashes once, and two clients whose programs
\* never work on the same instance at the same time.
CONSTANTS
  n1 = n1
  n2 = n2
  f1 = f1
  i1 = i1
  c1 = c1
  c2 = c2
  None = None
  Nodes = {n1, n2}
  Fdus = {f1}
  Instances = {i1}
  NetNs = {1, 2}
  Clients = {c1, c2}
  Asked = {"stop"}
  BadFdus = {}
  Restartable = {}
  Exclusive = TRUE
  MaxLag = 2
  Creators = {c1}
  Crashable = {n1}
  MaxCrashes = 1
SPECIFICATION FairPrograms
CHECK_DEADLOCK FALSE
INVARIANTS
  ProgramsTypeOK
  DeletedForGood
  RunningReported
  CrashContained
  DescriptorKept
PROPERTIES
  HandlersEnd
