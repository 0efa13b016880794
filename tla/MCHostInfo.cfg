SPECIFICATION Spec
CONSTANTS
  i1 = i1
  i2 = i2
  Ids = {i1}
  Probed = {}
  MaxWork = 1
  MaxFaults = 1
  PermEvery = 2
PROPERTIES
  HostInfoFollowsRestart
CHECK_DEADLOCK FALSE
