\* Two users, who may run two starts or two stops at a time.
SPECIFICATION Spec
CONSTANTS
  Users = {u1, u2}
  Pods = {p1, p2}
  MaxTries = 2
  Mixed = FALSE
INVARIANTS TypeOK ExactlyOneMode
PROPERTIES SwitchSpec HelplessStays CommandsReturn StopRestoresDaemon
