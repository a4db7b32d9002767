------------------------- MODULE MaintenanceProofs -------------------------
(***************************************************************************)
(* Proofs about Maintenance, for any number of users and pods and for any  *)
(* length of the wait loops.                                               *)
(***************************************************************************)
EXTENDS Maintenance, TLAPS

BothDown == replicas[Original] = 0 /\ Maint \notin deployed

\* No start runs while a stop does.
NoOverlap == \A u, v \in Users : ~(pc[u] \in StartCalls /\ pc[v] \in StopCalls)

\* A start has scaled the daemon down, has made the maintenance deployment, or a
\* stop has deleted it, from these calls on.
PastScaleDown ==
  \A u \in Users :
    pc[u] \in {"awaitDeletion", "create", "scaleUp", "awaitReady"} => replicas[Original] = 0

PastCreate == \A u \in Users : pc[u] \in {"scaleUp", "awaitReady"} => Maint \in deployed

PastDelete == \A u \in Users : pc[u] = "restore" => Maint \notin deployed

\* The daemon is never scaled up beside its maintenance deployment.
Exclusive ==
  /\ Original \in deployed
  /\ Maint \in deployed => replicas[Original] = 0
  /\ Maint \notin deployed => replicas[Maint] = 0

\* The daemon is left without a deployment only by a command that is switching
\* now or that was cut off while it did.
DownIsAccounted == BothDown => stranded \/ \E u \in Users : pc[u] \in SwitchWindow

IInv ==
  /\ TypeOK
  /\ NoOverlap /\ PastScaleDown /\ PastCreate /\ PastDelete
  /\ Exclusive /\ DownIsAccounted

-----------------------------------------------------------------------------
(* Type correctness. *)

\* The absent pod and the daemon's first pod are pods.
LEMMA NoPodType == NoPod \in PodState /\ [NoPod EXCEPT !.phase = "Running"] \in PodState
BY DEF NoPod, PodState, Deployments

\* A cluster in which no command has run is well typed.
LEMMA InitTypeOK == Init => TypeOK
<1> SUFFICES ASSUME Init PROVE TypeOK
  OBVIOUS
<1>1. pods \in [Pods -> PodState]
  BY NoPodType DEF Init
<1>2. replicas \in [Deployments -> 0..1] /\ deployed \subseteq Deployments
  BY DEF Init, Deployments
<1>3. tries \in [Users -> 0..(MaxTries - 1)] /\ copied \in [Users -> 0..1]
  BY ConstantsAssumption DEF Init
<1>4. pc \in [Users -> Returned \cup StartCalls \cup StopCalls]
  BY DEF Init, Returned
<1> QED BY <1>1, <1>2, <1>3, <1>4 DEF Init, TypeOK

\* Moving on to a next call keeps the program counter and the poll count in range.
LEMMA GotoType ==
  ASSUME TypeOK, NEW u \in Users, NEW from,
         NEW to \in Returned \cup StartCalls \cup StopCalls, Goto(u, from, to)
  PROVE  /\ pc' \in [Users -> Returned \cup StartCalls \cup StopCalls]
         /\ tries' \in [Users -> 0..(MaxTries - 1)]
BY ConstantsAssumption DEF TypeOK, Goto

\* So does one more poll, which moves a process nowhere but to "failed".
LEMMA PollAgainType ==
  ASSUME TypeOK, NEW u \in Users, NEW at, PollAgain(u, at)
  PROVE  /\ pc' \in [Users -> Returned \cup StartCalls \cup StopCalls]
         /\ tries' \in [Users -> 0..(MaxTries - 1)]
         /\ pc' = pc \/ pc' = [pc EXCEPT ![u] = "failed"]
BY ConstantsAssumption DEF TypeOK, PollAgain, Goto, Returned

\* Every call of a command and every step of Kubernetes keeps the types.
LEMMA StepTypeOK == TypeOK /\ [Next]_vars => TypeOK'
<1> SUFFICES ASSUME TypeOK, [Next]_vars PROVE TypeOK'
  OBVIOUS
<1> USE DEF Returned, StartCalls, StopCalls
<1>1. ASSUME NEW u \in Users, BeginStart(u) \/ BeginStop(u) PROVE TypeOK'
  BY <1>1 DEF BeginStart, BeginStop, Begin, TypeOK
<1>2. ASSUME NEW u \in Users, GetOriginal(u) PROVE TypeOK'
  BY <1>2, GotoType DEF GetOriginal, TypeOK, clusterVars, Deployments
<1>3. ASSUME NEW u \in Users, AwaitDaemonPod(u) PROVE TypeOK'
  BY <1>3, GotoType, PollAgainType DEF AwaitDaemonPod, TypeOK, clusterVars
<1>4. ASSUME NEW u \in Users, ScaleDown(u) PROVE TypeOK'
  BY <1>4, GotoType DEF ScaleDown, TypeOK, Deployments
<1>5. ASSUME NEW u \in Users, AwaitDeletion(u) PROVE TypeOK'
  <2>1. CASE Goto(u, "awaitDeletion", "create") /\ UNCHANGED stranded
    BY <1>5, <2>1, GotoType DEF AwaitDeletion, TypeOK, clusterVars
  <2>2. CASE PollAgain(u, "awaitDeletion")
             /\ stranded' = (stranded \/ (pc'[u] = "failed" /\ Maint \notin deployed))
    <3>1. stranded' \in BOOLEAN
      BY <2>2 DEF TypeOK
    <3> QED BY <1>5, <2>2, <3>1, PollAgainType DEF AwaitDeletion, TypeOK, clusterVars
  <2> QED BY <1>5, <2>1, <2>2 DEF AwaitDeletion
<1>6. ASSUME NEW u \in Users, Create(u) PROVE TypeOK'
  BY <1>6, GotoType DEF Create, TypeOK, Deployments
<1>7. ASSUME NEW u \in Users, ScaleUp(u) PROVE TypeOK'
  BY <1>7, GotoType DEF ScaleUp, TypeOK, Deployments
<1>8. ASSUME NEW u \in Users, AwaitReady(u) PROVE TypeOK'
  BY <1>8, GotoType, PollAgainType DEF AwaitReady, TypeOK, clusterVars
<1>9. ASSUME NEW u \in Users, GetMaintenance(u) PROVE TypeOK'
  BY <1>9, GotoType DEF GetMaintenance, TypeOK, clusterVars
<1>10. ASSUME NEW u \in Users, Delete(u) PROVE TypeOK'
  BY <1>10, GotoType DEF Delete, TypeOK, Deployments
<1>11. ASSUME NEW u \in Users, Restore(u) PROVE TypeOK'
  <2>1. stranded' \in BOOLEAN
    BY <1>11 DEF Restore
  <2> QED BY <1>11, <2>1, GotoType DEF Restore, TypeOK, Deployments
<1>12. ASSUME NEW u \in Users, Abort(u) PROVE TypeOK'
  <2>1. stranded' \in BOOLEAN
    BY <1>12 DEF Abort, TypeOK
  <2>2. Goto(u, pc[u], "failed") /\ UNCHANGED <<clusterVars, copied>>
    BY <1>12 DEF Abort
  <2>3. pc' \in [Users -> Returned \cup StartCalls \cup StopCalls]
    BY <2>2 DEF Goto, TypeOK
  <2>4. tries' \in [Users -> 0..(MaxTries - 1)]
    BY <2>2, ConstantsAssumption DEF Goto, TypeOK
  <2> QED BY <2>1, <2>2, <2>3, <2>4 DEF TypeOK, clusterVars
<1>13. ASSUME NEW d \in Deployments, CreatePod(d) \/ TerminatePod(d) PROVE TypeOK'
  <2>1. CASE CreatePod(d)
    BY <2>1 DEF CreatePod, TypeOK, PodState, clientVars
  <2>2. CASE TerminatePod(d)
    BY <2>2 DEF TerminatePod, Active, TypeOK, PodState, clientVars
  <2> QED BY <1>13, <2>1, <2>2
<1>14. ASSUME NEW p \in Pods, RunPod(p) \/ RemovePod(p) PROVE TypeOK'
  <2>1. CASE RunPod(p)
    BY <2>1 DEF RunPod, TypeOK, PodState, clientVars
  <2>2. CASE RemovePod(p)
    BY <2>2, NoPodType DEF RemovePod, TypeOK, clientVars
  <2> QED BY <1>14, <2>1, <2>2
<1>15. CASE UNCHANGED vars
  BY <1>15 DEF vars, TypeOK
<1> QED
  BY <1>1, <1>2, <1>3, <1>4, <1>5, <1>6, <1>7, <1>8, <1>9, <1>10, <1>11, <1>12,
     <1>13, <1>14, <1>15 DEF Next, Step, Kubernetes

\* The type invariant holds in every reachable state, whatever overlaps.
THEOREM TypeCorrect == Spec => []TypeOK
<1>1. Init => TypeOK
  BY InitTypeOK
<1>2. TypeOK /\ [Next]_vars => TypeOK'
  BY StepTypeOK
<1> QED BY <1>1, <1>2, PTL DEF Spec

-----------------------------------------------------------------------------
(* The exclusive switch, when no start overlaps a stop. *)

\* The inductive invariant holds while no command has run.
LEMMA InitIInv == Init => IInv
<1> SUFFICES ASSUME Init PROVE IInv
  OBVIOUS
<1>1. TypeOK
  BY InitTypeOK
<1>2. \A u \in Users : pc[u] = "idle"
  BY DEF Init
<1>3. NoOverlap /\ PastScaleDown /\ PastCreate /\ PastDelete
  BY <1>2 DEF NoOverlap, PastScaleDown, PastCreate, PastDelete, StartCalls, StopCalls
<1>4. Exclusive /\ DownIsAccounted
  BY DEF Init, Exclusive, DownIsAccounted, BothDown, Original, Maint, Deployments
<1> QED BY <1>1, <1>3, <1>4 DEF IInv

\* A step that leaves the deployments alone and only moves one process, to a call
\* that needs no more than the call it leaves.
LEMMA QuietMove ==
  ASSUME IInv, TypeOK', NEW u \in Users, NEW to,
         pc' = [pc EXCEPT ![u] = to],
         UNCHANGED <<deployed, replicas>>,
         stranded => stranded',
         \A v \in Users : ~(to \in StartCalls /\ pc[v] \in StopCalls)
                       /\ ~(to \in StopCalls /\ pc[v] \in StartCalls),
         to \notin {"awaitDeletion", "scaleUp", "awaitReady", "restore"}
           \/ to = pc[u] \/ (pc[u] = "scaleUp" /\ to = "awaitReady"),
         to = "create" => pc[u] = "awaitDeletion",
         pc[u] \in SwitchWindow /\ BothDown => stranded' \/ to \in SwitchWindow
  PROVE  IInv'
<1>1. NoOverlap'
  BY DEF IInv, TypeOK, NoOverlap, StartCalls, StopCalls
<1>2. PastScaleDown'
  BY DEF IInv, TypeOK, PastScaleDown
<1>3. PastCreate' /\ PastDelete'
  BY DEF IInv, TypeOK, PastCreate, PastDelete
<1>4. Exclusive'
  BY DEF IInv, Exclusive
<1>5. DownIsAccounted'
  <2>1. SUFFICES ASSUME BothDown, ~stranded PROVE stranded' \/ \E v \in Users : pc'[v] \in SwitchWindow
    BY DEF DownIsAccounted, BothDown
  <2>2. PICK v \in Users : pc[v] \in SwitchWindow
    BY <2>1 DEF IInv, DownIsAccounted
  <2>3. CASE v = u
    BY <2>1, <2>2, <2>3 DEF IInv, TypeOK
  <2>4. CASE v # u
    BY <2>2, <2>4 DEF IInv, TypeOK
  <2> QED BY <2>3, <2>4
<1> QED BY <1>1, <1>2, <1>3, <1>4, <1>5 DEF IInv

\* It is preserved by every step, provided that no start overlaps a stop.
LEMMA StepIInv == ASSUME ~Mixed PROVE IInv /\ [Next]_vars => IInv'
<1> SUFFICES ASSUME IInv, [Next]_vars PROVE IInv'
  OBVIOUS
<1>0. TypeOK /\ TypeOK'
  BY StepTypeOK DEF IInv
<1> USE DEF StartCalls, StopCalls, SwitchWindow
<1>1. ASSUME NEW u \in Users, BeginStart(u) PROVE IInv'
  <2>1. \A v \in Users : pc[v] \notin StopCalls
    BY <1>1 DEF BeginStart, Begin, Returned
  <2>2. pc[u] \notin SwitchWindow
    BY <1>1 DEF BeginStart, Begin, Returned
  <2>3. pc' = [pc EXCEPT ![u] = "getOriginal"] /\ UNCHANGED <<deployed, replicas, stranded>>
    BY <1>1 DEF BeginStart, Begin
  <2> QED BY <1>0, <2>1, <2>2, <2>3, QuietMove
<1>2. ASSUME NEW u \in Users, BeginStop(u) PROVE IInv'
  <2>1. \A v \in Users : pc[v] \notin StartCalls
    BY <1>2 DEF BeginStop, Begin, Returned
  <2>2. pc[u] \notin SwitchWindow
    BY <1>2 DEF BeginStop, Begin, Returned
  <2>3. pc' = [pc EXCEPT ![u] = "getMaintenance"] /\ UNCHANGED <<deployed, replicas, stranded>>
    BY <1>2 DEF BeginStop, Begin
  <2> QED BY <1>0, <2>1, <2>2, <2>3, QuietMove
<1>3. ASSUME NEW u \in Users, GetOriginal(u) PROVE IInv'
  <2>1. \A v \in Users : pc[v] \notin StopCalls
    BY <1>3 DEF GetOriginal, Goto, IInv, NoOverlap
  <2>2. /\ pc[u] = "getOriginal" /\ pc' = [pc EXCEPT ![u] = "awaitDaemonPod"]
        /\ UNCHANGED <<deployed, replicas, stranded>>
    BY <1>3 DEF GetOriginal, Goto, clusterVars
  <2>3. stranded => stranded'
    BY <2>2
  <2>4. \A v \in Users : ~("awaitDaemonPod" \in StartCalls /\ pc[v] \in StopCalls)
                       /\ ~("awaitDaemonPod" \in StopCalls /\ pc[v] \in StartCalls)
    BY <2>1
  <2>5. pc[u] \notin SwitchWindow
    BY <2>2
  <2> QED BY <1>0, <2>2, <2>3, <2>4, <2>5, QuietMove, Zenon
<1>4. ASSUME NEW u \in Users, AwaitDaemonPod(u) PROVE IInv'
  <2>1. pc[u] = "awaitDaemonPod" /\ UNCHANGED <<deployed, replicas, stranded>>
    BY <1>4 DEF AwaitDaemonPod, Goto, PollAgain, clusterVars
  <2>2. \A v \in Users : pc[v] \notin StopCalls
    BY <2>1 DEF IInv, NoOverlap
  <2>3. \/ pc' = [pc EXCEPT ![u] = "scaleDown"]
        \/ pc' = [pc EXCEPT ![u] = "awaitDaemonPod"]
        \/ pc' = [pc EXCEPT ![u] = "failed"]
    BY <1>0, <1>4 DEF AwaitDaemonPod, Goto, PollAgain, TypeOK
  <2> QED BY <1>0, <2>1, <2>2, <2>3, QuietMove
<1>5. ASSUME NEW u \in Users, ScaleDown(u) PROVE IInv'
  <2>1. /\ pc[u] = "scaleDown" /\ pc' = [pc EXCEPT ![u] = "awaitDeletion"]
        /\ replicas' = [replicas EXCEPT ![Original] = 0] /\ UNCHANGED <<deployed, stranded>>
    BY <1>5 DEF ScaleDown, Goto
  <2>2. \A v \in Users : pc[v] \notin StopCalls
    BY <2>1 DEF IInv, NoOverlap
  <2>3. NoOverlap' /\ PastDelete'
    BY <1>0, <2>1, <2>2 DEF IInv, TypeOK, NoOverlap, PastDelete
  <2>4. replicas'[Original] = 0 /\ replicas'[Maint] = replicas[Maint]
    BY <1>0, <2>1 DEF TypeOK, Deployments, Original, Maint
  <2>5. PastScaleDown' /\ PastCreate' /\ Exclusive'
    BY <1>0, <2>1, <2>4 DEF IInv, TypeOK, PastScaleDown, PastCreate, Exclusive
  <2>6. DownIsAccounted'
    BY <1>0, <2>1 DEF TypeOK, DownIsAccounted
  <2> QED BY <1>0, <2>3, <2>5, <2>6 DEF IInv
<1>6. ASSUME NEW u \in Users, AwaitDeletion(u) PROVE IInv'
  <2>1. pc[u] = "awaitDeletion" /\ UNCHANGED <<deployed, replicas>>
    BY <1>6 DEF AwaitDeletion, Goto, PollAgain, clusterVars
  <2>2. \A v \in Users : pc[v] \notin StopCalls
    BY <2>1 DEF IInv, NoOverlap
  <2>3. CASE pc' = [pc EXCEPT ![u] = "create"] /\ UNCHANGED stranded
    <3>1. /\ "create" \in SwitchWindow
          /\ "create" \notin {"awaitDeletion", "scaleUp", "awaitReady", "restore"}
      OBVIOUS
    <3>2. \A v \in Users : ~("create" \in StartCalls /\ pc[v] \in StopCalls)
                         /\ ~("create" \in StopCalls /\ pc[v] \in StartCalls)
      BY <2>2
    <3> QED BY <1>0, <2>1, <2>3, <3>1, <3>2, QuietMove, Zenon
  <2>4. CASE pc' = pc /\ (stranded => stranded')
    <3>1. NoOverlap' /\ PastScaleDown' /\ PastCreate' /\ PastDelete' /\ Exclusive'
      BY <2>1, <2>4
      DEF IInv, NoOverlap, PastScaleDown, PastCreate, PastDelete, Exclusive
    <3>2. DownIsAccounted'
      BY <2>1, <2>4, Zenon DEF IInv, DownIsAccounted, BothDown
    <3> QED BY <1>0, <3>1, <3>2 DEF IInv
  <2>5. CASE /\ pc' = [pc EXCEPT ![u] = "failed"]
             /\ stranded' = (stranded \/ (pc'[u] = "failed" /\ Maint \notin deployed))
    <3>1. (stranded => stranded') /\ (BothDown => stranded')
      BY <1>0, <2>5 DEF TypeOK, BothDown
    <3>2. "failed" \notin StartCalls \cup StopCalls \cup {"create"}
      OBVIOUS
    <3> QED BY <1>0, <2>1, <2>2, <2>5, <3>1, <3>2, QuietMove, Zenon
  <2>6. CASE Goto(u, "awaitDeletion", "create") /\ UNCHANGED stranded
    BY <2>3, <2>6 DEF Goto
  <2>7. CASE PollAgain(u, "awaitDeletion")
             /\ stranded' = (stranded \/ (pc'[u] = "failed" /\ Maint \notin deployed))
    <3>1. stranded => stranded'
      BY <2>7
    <3>2. pc' = pc \/ pc' = [pc EXCEPT ![u] = "failed"]
      BY <2>7 DEF PollAgain, Goto
    <3> QED BY <2>4, <2>5, <2>7, <3>1, <3>2
  <2> QED BY <1>6, <2>6, <2>7 DEF AwaitDeletion
<1>7. ASSUME NEW u \in Users, Create(u) PROVE IInv'
  <2>1. pc[u] = "create"
    BY <1>7 DEF Create, Goto
  <2>2. \A v \in Users : pc[v] \notin StopCalls
    BY <2>1 DEF IInv, NoOverlap
  <2>3. CASE Maint \in deployed
    BY <1>0, <1>7, <2>2, <2>3, QuietMove DEF Create, Goto, BothDown
  <2>4. CASE Maint \notin deployed
    <3>1. /\ pc' = [pc EXCEPT ![u] = "scaleUp"] /\ deployed' = deployed \cup {Maint}
          /\ replicas' = [replicas EXCEPT ![Maint] = copied[u]]
      BY <1>7, <2>4 DEF Create, Goto
    <3>2. replicas[Original] = 0
      BY <2>1 DEF IInv, PastScaleDown
    <3>3. replicas'[Original] = 0
      BY <1>0, <3>1, <3>2 DEF TypeOK, Deployments, Original, Maint
    <3>4. NoOverlap' /\ PastDelete'
      BY <1>0, <2>2, <3>1 DEF IInv, TypeOK, NoOverlap, PastDelete
    <3>5. PastScaleDown' /\ PastCreate' /\ Exclusive' /\ DownIsAccounted'
      BY <3>1, <3>3
      DEF IInv, PastScaleDown, PastCreate, Exclusive, DownIsAccounted, BothDown, Original, Maint
    <3> QED BY <1>0, <3>4, <3>5 DEF IInv
  <2> QED BY <2>3, <2>4
<1>8. ASSUME NEW u \in Users, ScaleUp(u) PROVE IInv'
  <2>1. pc[u] = "scaleUp"
    BY <1>8 DEF ScaleUp, Goto
  <2>2. Maint \in deployed /\ replicas[Original] = 0
    BY <2>1 DEF IInv, PastCreate, PastScaleDown
  <2>3. /\ pc' = [pc EXCEPT ![u] = "awaitReady"]
        /\ replicas' = [replicas EXCEPT ![Maint] = 1] /\ UNCHANGED deployed
    BY <1>8, <2>2 DEF ScaleUp, Goto
  <2>4. replicas'[Original] = 0
    BY <1>0, <2>2, <2>3 DEF TypeOK, Deployments, Original, Maint
  <2>5. NoOverlap' /\ PastDelete'
    BY <1>0, <2>1, <2>3 DEF IInv, TypeOK, NoOverlap, PastDelete
  <2>6. PastScaleDown' /\ PastCreate' /\ Exclusive' /\ DownIsAccounted'
    BY <1>0, <2>2, <2>3, <2>4
    DEF IInv, PastScaleDown, PastCreate, Exclusive, DownIsAccounted, BothDown
  <2> QED BY <1>0, <2>5, <2>6 DEF IInv
<1>9. ASSUME NEW u \in Users, AwaitReady(u) PROVE IInv'
  <2>1. pc[u] = "awaitReady" /\ UNCHANGED <<deployed, replicas, stranded>>
    BY <1>9 DEF AwaitReady, Goto, PollAgain, clusterVars
  <2>2. \A v \in Users : pc[v] \notin StopCalls
    BY <2>1 DEF IInv, NoOverlap
  <2>3. \/ pc' = [pc EXCEPT ![u] = "started"]
        \/ pc' = [pc EXCEPT ![u] = "awaitReady"]
        \/ pc' = [pc EXCEPT ![u] = "failed"]
    BY <1>0, <1>9 DEF AwaitReady, Goto, PollAgain, TypeOK
  <2> QED BY <1>0, <2>1, <2>2, <2>3, QuietMove
<1>10. ASSUME NEW u \in Users, GetMaintenance(u) PROVE IInv'
  <2>1. pc[u] = "getMaintenance" /\ UNCHANGED <<deployed, replicas, stranded>>
    BY <1>10 DEF GetMaintenance, Goto, clusterVars
  <2>2. \A v \in Users : pc[v] \notin StartCalls
    BY <2>1 DEF IInv, NoOverlap
  <2>3. pc' = [pc EXCEPT ![u] = "delete"] \/ pc' = [pc EXCEPT ![u] = "failed"]
    BY <1>10 DEF GetMaintenance, Goto
  <2> QED BY <1>0, <2>1, <2>2, <2>3, QuietMove
<1>11. ASSUME NEW u \in Users, Delete(u) PROVE IInv'
  <2>1. /\ pc[u] = "delete" /\ pc' = [pc EXCEPT ![u] = "restore"]
        /\ deployed' = deployed \ {Maint}
        /\ replicas' = [replicas EXCEPT ![Maint] = 0]
    BY <1>11 DEF Delete, Goto
  <2>2. \A v \in Users : pc[v] \notin StartCalls
    BY <2>1 DEF IInv, NoOverlap
  <2>3. replicas'[Original] = replicas[Original] /\ replicas'[Maint] = 0
    BY <1>0, <2>1 DEF TypeOK, Deployments, Original, Maint
  <2>4. NoOverlap' /\ PastScaleDown' /\ PastCreate' /\ PastDelete'
    BY <1>0, <2>1, <2>2
    DEF TypeOK, NoOverlap, PastScaleDown, PastCreate, PastDelete
  <2>5. Exclusive' /\ DownIsAccounted'
    BY <1>0, <2>1, <2>3
    DEF IInv, TypeOK, Exclusive, DownIsAccounted, Original, Maint
  <2> QED BY <1>0, <2>4, <2>5 DEF IInv
<1>12. ASSUME NEW u \in Users, Restore(u) PROVE IInv'
  <2>1. /\ pc[u] = "restore" /\ pc' = [pc EXCEPT ![u] = "stopped"]
        /\ replicas' = [replicas EXCEPT ![Original] = 1] /\ UNCHANGED deployed
    BY <1>12 DEF Restore, Goto
  <2>2. (\A v \in Users : pc[v] \notin StartCalls) /\ Maint \notin deployed
    BY <2>1 DEF IInv, NoOverlap, PastDelete
  <2>3. replicas'[Original] = 1 /\ replicas'[Maint] = replicas[Maint]
    BY <1>0, <2>1 DEF TypeOK, Deployments, Original, Maint
  <2>4. NoOverlap' /\ PastScaleDown' /\ PastCreate' /\ PastDelete'
    BY <1>0, <2>1, <2>2
    DEF TypeOK, NoOverlap, PastScaleDown, PastCreate, PastDelete
  <2>5. Exclusive' /\ DownIsAccounted'
    BY <2>1, <2>2, <2>3 DEF IInv, Exclusive, DownIsAccounted, BothDown
  <2> QED BY <1>0, <2>4, <2>5 DEF IInv
<1>13. ASSUME NEW u \in Users, Abort(u) PROVE IInv'
  <2>1. /\ pc' = [pc EXCEPT ![u] = "failed"] /\ UNCHANGED <<deployed, replicas>>
    BY <1>13 DEF Abort, Goto, clusterVars
  <2>2. /\ stranded => stranded'
        /\ pc[u] \in SwitchWindow /\ BothDown => stranded'
    BY <1>13 DEF Abort, BothDown
  <2>3. "failed" \notin StartCalls \cup StopCalls \cup {"create"}
    OBVIOUS
  <2> QED BY <1>0, <2>1, <2>2, <2>3, QuietMove, Zenon
<1>14. CASE UNCHANGED <<deployed, replicas, pc, stranded>>
  BY <1>0, <1>14
  DEF IInv, NoOverlap, PastScaleDown, PastCreate, PastDelete, Exclusive, DownIsAccounted, BothDown
<1>15. CASE Kubernetes
  BY <1>14, <1>15 DEF Kubernetes, CreatePod, TerminatePod, RunPod, RemovePod, clientVars
<1>16. CASE UNCHANGED vars
  BY <1>14, <1>16 DEF vars
<1> QED
  BY <1>1, <1>2, <1>3, <1>4, <1>5, <1>6, <1>7, <1>8, <1>9, <1>10, <1>11, <1>12,
     <1>13, <1>15, <1>16 DEF Next, Step

\* When no start overlaps a stop, a command that returns leaves exactly one of
\* the daemon's two deployments in charge of it, for any number of users, pods
\* and polls.
THEOREM ExactlyOneModeHolds == ASSUME ~Mixed PROVE Spec => []ExactlyOneMode
<1>1. Init => IInv
  BY InitIInv
<1>2. IInv /\ [Next]_vars => IInv'
  BY StepIInv
<1>3. IInv => ExactlyOneMode
  <2> SUFFICES ASSUME IInv, \A u \in Users : pc[u] \in Returned, ~stranded
               PROVE  (replicas[Original] = 1) # (Maint \in deployed)
    BY DEF ExactlyOneMode
  <2>1. replicas[Original] \in 0..1
    BY DEF IInv, TypeOK, Deployments
  <2>2. ~BothDown
    BY DEF IInv, DownIsAccounted, SwitchWindow, Returned
  <2>3. CASE Maint \in deployed
    BY <2>3 DEF IInv, Exclusive
  <2>4. CASE Maint \notin deployed
    BY <2>1, <2>2, <2>4 DEF BothDown
  <2> QED BY <2>3, <2>4
<1> QED BY <1>1, <1>2, <1>3, PTL DEF Spec

\* A call changes the set of deployments or the daemon's own scale, never both:
\* what keeps the two modes from being exchanged in one step.
LEMMA OneChangeAtATime ==
  ASSUME TypeOK, [Next]_vars
  PROVE  deployed' = deployed \/ replicas'[Original] = replicas[Original]
<1>1. ASSUME NEW u \in Users, Create(u) \/ Delete(u)
      PROVE  replicas'[Original] = replicas[Original]
  BY <1>1 DEF Create, Delete, TypeOK, Deployments, Original, Maint
<1>2. ASSUME NEW u \in Users,
             \/ BeginStart(u) \/ BeginStop(u) \/ GetOriginal(u) \/ AwaitDaemonPod(u)
             \/ ScaleDown(u) \/ AwaitDeletion(u) \/ ScaleUp(u) \/ AwaitReady(u)
             \/ GetMaintenance(u) \/ Restore(u) \/ Abort(u)
      PROVE  deployed' = deployed
  BY <1>2
  DEF BeginStart, BeginStop, Begin, GetOriginal, AwaitDaemonPod, ScaleDown, AwaitDeletion,
      ScaleUp, AwaitReady, GetMaintenance, Restore, Abort, clusterVars
<1>3. CASE Kubernetes \/ UNCHANGED vars
  BY <1>3 DEF Kubernetes, CreatePod, TerminatePod, RunPod, RemovePod, vars
<1> QED BY <1>1, <1>2, <1>3 DEF Next, Step

\* Under the same condition the two commands implement the exclusive switch: the
\* daemon's deployments are never both scaled up, and never exchange roles in
\* one step.
THEOREM ImplementsSwitch == ASSUME ~Mixed PROVE Spec => SwitchSpec
<1> DEFINE up == {d \in Deployments : Wanted(d)}
<1>1. Init => up = {"original"}
  BY DEF Init, Wanted, Deployments, Original, Maint
<1>2. ASSUME IInv
      PROVE  up = IF Maint \in deployed
                    THEN IF replicas[Maint] = 1 THEN {"maintenance"} ELSE {}
                    ELSE IF replicas[Original] = 1 THEN {"original"} ELSE {}
  BY <1>2 DEF IInv, Exclusive, Wanted, Deployments, Original, Maint
<1>3. ASSUME IInv, IInv', [Next]_vars
      PROVE  \/ up' = up
             \/ up # {} /\ up' = {}
             \/ up = {} /\ up' \in {{"original"}, {"maintenance"}}
  <2>1. up' = IF Maint \in deployed'
                THEN IF replicas'[Maint] = 1 THEN {"maintenance"} ELSE {}
                ELSE IF replicas'[Original] = 1 THEN {"original"} ELSE {}
    BY <1>3 DEF IInv, Exclusive, Wanted, Deployments, Original, Maint
  <2>2. CASE deployed' = deployed
    BY <1>2, <1>3, <2>1, <2>2
  <2>3. CASE replicas'[Original] = replicas[Original]
    <3>1. Maint \in deployed \cup deployed' => replicas[Original] = 0
      BY <1>3, <2>3 DEF IInv, Exclusive
    <3> QED BY <1>2, <1>3, <2>1, <2>3, <3>1
  <2> QED BY <1>3, <2>2, <2>3, OneChangeAtATime DEF IInv
<1>4. IInv /\ IInv' /\ [Next]_vars => [Switch!Next]_up
  BY <1>3 DEF Switch!Next, Switch!TurnOff, Switch!TurnOn, Switch!Modes
<1>5. Init => Switch!Init
  BY <1>1 DEF Switch!Init
<1>6. Init => IInv
  BY InitIInv
<1>7. IInv /\ [Next]_vars => IInv'
  BY StepIInv
<1> QED BY <1>4, <1>5, <1>6, <1>7, PTL DEF Spec, SwitchSpec, Switch!Spec

\* A daemon left down by a command cut off half-way is brought back by neither
\* command, however they overlap.
THEOREM HelplessForGood == Spec => HelplessStays
<1>1. ASSUME TypeOK, Next, Helpless PROVE Helpless'
  <2>1. ASSUME NEW u \in Users, BeginStart(u) \/ BeginStop(u) \/ Abort(u) PROVE Helpless'
    BY <1>1, <2>1
    DEF Helpless, BeginStart, BeginStop, Begin, Abort, Goto, clusterVars, TypeOK, Returned
  <2>2. ASSUME NEW u \in Users, GetOriginal(u) \/ GetMaintenance(u) PROVE Helpless'
    BY <1>1, <2>2
    DEF Helpless, GetOriginal, GetMaintenance, Goto, clusterVars, TypeOK, Returned
  <2>3. ASSUME NEW u \in Users, AwaitDaemonPod(u) PROVE Helpless'
    <3>1. ~SomePodRuns
      BY <1>1 DEF Helpless, SomePodRuns, Running
    <3> QED BY <1>1, <2>3, <3>1
        DEF Helpless, AwaitDaemonPod, PollAgain, Goto, clusterVars, TypeOK, Returned
  <2>4. ASSUME NEW u \in Users,
               \/ ScaleDown(u) \/ AwaitDeletion(u) \/ Create(u) \/ ScaleUp(u)
               \/ AwaitReady(u) \/ Delete(u) \/ Restore(u)
        PROVE  FALSE
    BY <1>1, <2>4
    DEF Helpless, ScaleDown, AwaitDeletion, Create, ScaleUp, AwaitReady, Delete, Restore,
        PollAgain, Goto, Returned
  <2>5. ASSUME NEW d \in Deployments, CreatePod(d) \/ TerminatePod(d) PROVE Helpless'
    BY <1>1, <2>5
    DEF Helpless, CreatePod, TerminatePod, Active, Wanted, Deployments, clientVars
  <2>6. ASSUME NEW p \in Pods, RunPod(p) \/ RemovePod(p) PROVE Helpless'
    BY <1>1, <2>6 DEF Helpless, RunPod, RemovePod, NoPod, TypeOK, clientVars
  <2> QED BY <1>1, <2>1, <2>2, <2>3, <2>4, <2>5, <2>6 DEF Next, Step, Kubernetes
<1>2. ASSUME TypeOK, [Next]_vars PROVE [Helpless => Helpless']_vars
  BY <1>1, <1>2
<1>3. Spec => []TypeOK
  BY TypeCorrect
<1> QED BY <1>2, <1>3, PTL DEF Spec, HelplessStays
=============================================================================
