\* Three interfaces (a pair and a bridge), a namespace, a connection point and a
\* virtual network; every operation, in any order.
CONSTANTS
  i1 = i1
  i2 = i2
  i3 = i3
  n1 = n1
  c1 = c1
  v1 = v1
  None = None
  Ifaces = {i1, i2, i3}
  NetNs = {n1}
  Cps = {c1}
  Networks = {v1}
  MaxCopies = 1
SPECIFICATION Spec
SYMMETRY ModelSymmetry
INVARIANTS
  TypeOK
  PairsWhole
  MembersListed
  ChildrenListed
