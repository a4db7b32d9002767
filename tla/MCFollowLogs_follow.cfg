\* The run ends when time does.
SPECIFICATION Spec
CHECK_DEADLOCK FALSE
CONSTANTS
  old = old
  new = new
  Pods = {old, new}
  Options <- AllOptions
  Lag = 1
  MaxTime = 5
  MaxStarts = 3
INVARIANTS TypeOK NothingSkipped AtMostTwice ReplacementIsReadWhole
SYMMETRY Symmetry
