SPECIFICATION Spec
CONSTANTS
  Users = {u1}
  Pods = {p1, p2, p3}
  MaxTries = 2
  Mixed = FALSE
PROPERTIES ReadyMeansDaemonStopped
