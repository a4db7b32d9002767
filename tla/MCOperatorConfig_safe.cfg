\* Two users, two properties that are set or not.
SPECIFICATION Spec
CONSTANTS
  Users = {u1, u2}
  Keys = {k1, k2}
  Values = {v}
  NoValue = NoValue
  Pods = {p1, p2}
  MaxVersion = 2
  MaxRestarts = 1
INVARIANTS TypeOK
PROPERTIES SetsAreAtomic RestartTakesEffect
