SPECIFICATION Spec
CONSTANTS
  MaxKey = 2
  MaxCycles = 3
  MaxClock = 7
  Recent = 3
  Expiry = 4
  MaxRequest = 3
  Idle = 2
  MaxTime = 3
  t1 = t1
  t2 = t2
  r1 = r1
  r2 = r2
  a1 = a1
  a2 = a2
  Tab <- const_Tab
  Browser <- const_Browser
  BrowserOf <- const_BrowserOf
  Call <- const_Call
  TabOf <- const_TabOf
  MaxUser = 3
  AccessLife = 1
  RefreshLife = 2
  MaxHour = 2
  Arg <- const_Arg
  MaxWrites = 2
INVARIANT FormShowsSaved
SYMMETRY Symmetry
CHECK_DEADLOCK FALSE
