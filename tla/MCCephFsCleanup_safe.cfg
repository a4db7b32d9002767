SPECIFICATION Spec
CONSTANTS
  v1 = v1
  s1 = s1
  s2 = s2
  Vols = {v1}
  Snaps = {s1, s2}
  Of <- SnapsOfBoth
  Setups <- FourSetups
INVARIANTS TypeOK SettledThingsSurvive NothingLeftBehind
PROPERTIES CutOffStays
