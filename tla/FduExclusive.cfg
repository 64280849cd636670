\* Two nodes, two instances of one descriptor, two clients that never work on
\* the same instance at the same time.
CONSTANTS
  n1 = n1
  n2 = n2
  f1 = f1
  i1 = i1
  i2 = i2
  c1 = c1
  c2 = c2
  None = None
  Nodes = {n1, n2}
  Fdus = {f1}
  Instances = {i1, i2}
  NetNs = {1, 2, 3, 4}
  Clients = {c1, c2}
  Asked = {"configure", "start", "stop", "clean", "undefine"}
  BadFdus = {}
  Restartable = {}
  Exclusive = TRUE
  MaxLag = 2
SPECIFICATION Spec
SYMMETRY ModelSymmetry
INVARIANTS
  NoGhostRecord
  NoHiddenInstance
  NetNsAccounted
PROPERTIES
  LocalLifecycle
  GlobalLifecycle
