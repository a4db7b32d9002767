SPECIFICATION Spec
CONSTANTS
  Bad = {a}
  Good = c
  Spare = d
  Pods = {p1, p2}
  MaxTries = 1
  MaxProbes = 2
  MaxRuns = 1
INVARIANTS ResponseBeforePurge
