SPECIFICATION Spec
CONSTANTS
  r1 = r1
  r2 = r2
  Row = {r1, r2}
  Tops <- MCTops
  MaxCount <- MCMaxCount
  MaxShrunk = 0
  MaxStarts = 2
  Spid = {1, 2, 3}
  GroupWindow = 1
  MaxReports = 3
  Gaps = {1, 2}
INVARIANTS ForestExact LatestGroupShown
PROPERTIES DeltasAreWork WorkIsReported
CHECK_DEADLOCK FALSE
SYMMETRY MCSymmetry
