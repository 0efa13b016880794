SPECIFICATION Spec
CONSTANTS
  Tables <- const_Tables
  PerHour = 2
  HoursPerDay = 2
  FirstWindow <- const_FirstWindow
  LastWindow = 6
  MaxSamples = 2
  MaxFaults = 1
  FirstDays <- const_FirstDays
  PerDay = 3
  LastMoment = 11
  DaysAhead = 1
  MonthsAhead = 1
  MigratedMonths = 0
  RawDays = 2
  FiveMinDays = 2
  HourlyDays = 3
  MaxLag = 1
  MaxDelay = 1
  MaxRuns = 2
  MaxFailures = 1
INVARIANTS RollupsAccountFor RetentionWindow
CHECK_DEADLOCK FALSE
