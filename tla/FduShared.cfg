\* Two clients that may work on the same instance at the same time.
CONSTANTS
  n1 = n1
  n2 = n2
  f1 = f1
  f2 = f2
  i1 = i1
  c1 = c1
  c2 = c2
  None = None
  Nodes = {n1, n2}
  Clients = {c1, c2}
  Instances = {i1}
  NetNs = {1, 2}
  Fdus = {f1, f2}
  Asked = {"configure", "start", "stop", "clean", "undefine"}
  BadFdus = {f2}
  Restartable = {}
  Exclusive = FALSE
  MaxLag = 1
SPECIFICATION Spec
SYMMETRY ModelSymmetry
INVARIANTS
  TypeOK
  OneIdentity
  GlobalFollowsLocal
