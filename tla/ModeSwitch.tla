----------------------------- MODULE ModeSwitch -----------------------------
(***************************************************************************)
(* What `kubectl rook-ceph maintenance` promises about one mon or OSD:     *)
(* either its own deployment is scaled up, or the maintenance deployment   *)
(* that sleeps over the same data is, or (while a command is switching, or *)
(* after one was killed half-way) neither is.  Never both: a change of     *)
(* mode always passes through the state in which both are down.            *)
(***************************************************************************)
VARIABLE up     \* the deployments of the daemon that are scaled to one replica

Modes == {"original", "maintenance"}

Init == up = {"original"}

\* the deployment that was up is scaled to zero, or deleted
TurnOff == up # {} /\ up' = {}

\* a deployment is scaled up, and only while no other is
TurnOn(mode) == up = {} /\ up' = {mode}

Next == TurnOff \/ \E mode \in Modes : TurnOn(mode)

Spec == Init /\ [][Next]_up
=============================================================================
