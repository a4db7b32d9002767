SPECIFICATION Spec
CONSTANTS
  Bad = {a}
  Good = c
  Spare = d
  Pods = {p1, p2}
  MaxTries = 2
  MaxProbes = 2
  MaxRuns = 2
INVARIANTS TypeOK PurgedMonsAreForgotten
PROPERTIES HalfRestoredStays RestoreReturns
