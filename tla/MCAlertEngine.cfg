SPECIFICATION Spec
CONSTANTS
  CpuPcts <- MCPcts
  Needed = 3
  Cooldown = 5
INVARIANTS
  TypeOK
  CountersCountSamples
  UnreachableInARow
PROPERTIES
  NoRepeatInCooldown
  KeepsAlerting
