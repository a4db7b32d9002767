---------------------------- MODULE MCFollowLogs ----------------------------
EXTENDS FollowLogs, TLC
CONSTANTS old, new
Flags(follow, previous, tail, since) ==
  [follow |-> follow, previous |-> previous, tail |-> tail, since |-> since]
AllOptions ==
  {Flags(TRUE, FALSE, -1, 0), Flags(TRUE, FALSE, 1, 0), Flags(TRUE, TRUE, -1, 0),
   Flags(TRUE, FALSE, -1, 1), Flags(FALSE, FALSE, 1, 0)}
Symmetry == Permutations(Pods)
=============================================================================
