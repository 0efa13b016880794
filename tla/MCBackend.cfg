SPECIFICATION Spec
CONSTANTS
  s1 = s1
  s2 = s2
  partitions = partitions
  aggregator = aggregator
  Signals = {s1, s2}
  Jobs = {partitions, aggregator}
  EagerJobs = {partitions}
  MaxRuns = 2
  MaxRequests = 2
INVARIANTS
  TypeOK
  OneCycleAtATime
  CycleOutlivedByPool
  RequestsOutlivedByPool
PROPERTIES
  StoppedForGood
  SignalEndsProcess
  KeepsCollecting
