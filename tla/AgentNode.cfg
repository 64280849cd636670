\* An agent that is started twice, a networking plugin and two processes of one
\* hypervisor plugin.  When the last agent and all plugins have ended, nothing
\* more happens.
CONSTANTS
  g1 = g1
  h1 = h1
  h2 = h2
  None = None
  Plugins = {g1, h1, h2}
  KindOf <- OneOfEither
  Hypervisors = {"dummy"}
  MaxStarts = 2
SPECIFICATION FairSpec
CHECK_DEADLOCK FALSE
INVARIANTS
  TypeOK
  RegistrationKept
  Withdrawn
PROPERTIES
  StatusSettles
  DefaultNetworkMade
  PluginSettles
