SPECIFICATION Spec
CONSTANTS
  CpuPcts <- MCPcts
  Needed = 3
  Cooldown = 3
INVARIANTS
  CriticalInARow
