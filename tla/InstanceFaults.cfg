\* Two hypervisor plugins at work at once, one of them with two instances, of
\* which one has a descriptor that cannot be configured; one caller that gives
\* up or one process that dies, and one request that is made while another one
\* for its instance waits or is worked on.  No request is left once what failed
\* operations left behind has used up the uuids.
CONSTANTS
  h1 = h1
  h2 = h2
  x1 = x1
  x2 = x2
  x3 = x3
  cpA = cpA
  cpB = cpB
  None = None
  Plugins = {h1, h2}
  Instances = {x1, x2, x3}
  PluginOf <- TwoKinds
  CpIds = {cpA, cpB}
  CpsOf <- MixedCps
  IntfsOf <- MixedIntfs
  DrawnBy <- BelowTwenty
  MaxFaults = 1
  MaxOverlaps = 1
  Ifaces = {1, 2, 3, 4, 21, 22, 23, 24}
  NetNs = {9, 25, 26}
  Cps = {11}
  Networks = {}
  MaxCopies = 2
SPECIFICATION InstanceSpec
CHECK_DEADLOCK FALSE
INVARIANTS
  NetworkingTypeOK
  ConfiguredComplete
  NothingLeaked
PROPERTIES
  CallsAtomic
