\* An entity of two FDUs, two instances of it, two fair tasks and one fault, a
\* call that fails or an agent that crashes; never two tasks at once for one
\* instance.
CONSTANTS
  e1 = e1
  f1 = f1
  f2 = f2
  i1 = i1
  i2 = i2
  t1 = t1
  t2 = t2
  None = None
  Entities = {e1}
  Fdus = {f1, f2}
  FdusOf <- TwoFdus
  Instances = {i1, i2}
  Tasks = {t1, t2}
  Exclusive = TRUE
  MaxFaults = 1
SPECIFICATION FairSpec
INVARIANTS
  TypeOK
  RunningComplete
  NothingLeft
PROPERTIES
  EntityLifecycle
  Settles
