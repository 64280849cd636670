\* deschedule_entity after schedule_entity has failed halfway.
CONSTANTS
  e1 = e1
  f1 = f1
  f2 = f2
  i1 = i1
  t1 = t1
  None = None
  Entities = {e1}
  Fdus = {f1, f2}
  FdusOf <- TwoFdus
  Instances = {i1}
  Tasks = {t1}
  Exclusive = TRUE
  MaxFaults = 1
SPECIFICATION Spec
INVARIANTS
  StoppedTerminatesAll
