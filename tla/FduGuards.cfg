\* An instance on either node, so that each agent may wait for the other with
\* its read lock held, while the plugins of both ask for the write locks.
CONSTANTS
  n1 = n1
  n2 = n2
  f1 = f1
  i1 = i1
  i2 = i2
  c1 = c1
  c2 = c2
  None = None
  Nodes = {n1, n2}
  Clients = {c1, c2}
  Instances = {i1, i2}
  NetNs = {1, 2}
  Fdus = {f1}
  Asked = {"configure"}
  BadFdus = {}
  Restartable = {n1, n2}
  Exclusive = TRUE
  MaxLag = 0
SPECIFICATION FairSpec
PROPERTIES
  RequestsAnswered
  PluginsAdmitted
