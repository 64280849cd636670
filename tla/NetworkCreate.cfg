\* Two interfaces, a namespace, two connection points, two virtual networks.
CONSTANTS
  i1 = i1
  i2 = i2
  n1 = n1
  c1 = c1
  c2 = c2
  v1 = v1
  None = None
  Ifaces = {i1, i2}
  NetNs = {n1}
  Cps = {c1, c2}
  Networks = {v1}
  MaxCopies = 1
SPECIFICATION Spec
PROPERTIES
  CreateKeepsBindings
