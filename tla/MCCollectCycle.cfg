SPECIFICATION Spec
CONSTANTS
  i1 = i1
  i2 = i2
  Ids = {i1, i2}
  Probed = {i1}
  MaxWork = 2
  MaxFaults = 1
  PermEvery = 2
INVARIANTS
  TypeOK
  WorkStoredOnce
  NothingLost
  StatusReflectsCycle
  InsertsIsolated
  PermissionsOneCollection
PROPERTIES
  KeepsCollecting
CHECK_DEADLOCK FALSE
