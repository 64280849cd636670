\* undefine_fdu sent to an agent that does not own the instance.
CONSTANTS
  n1 = n1
  n2 = n2
  f1 = f1
  i1 = i1
  c1 = c1
  c2 = c2
  None = None
  Nodes = {n1, n2}
  Clients = {c1, c2}
  Instances = {i1}
  NetNs = {1, 2, 3, 4}
  Fdus = {f1}
  Asked = {"configure", "start", "stop", "clean", "undefine"}
  BadFdus = {}
  Restartable = {}
  Exclusive = TRUE
  MaxLag = 1
SPECIFICATION Spec
INVARIANTS
  UndefineRemoves
