---------------------------- MODULE Maintenance ----------------------------
(***************************************************************************)
(* `kubectl rook-ceph maintenance start|stop <deployment>` for one mon or  *)
(* OSD (pkg/maintenance), against the Kubernetes API.                      *)
(*                                                                         *)
(* A user's process is a program counter over the API calls of             *)
(* startmaintenance and stopMaintenance, one action per call.  An API call *)
(* that fails for a reason outside the model, a logging.Fatal and a Ctrl-C *)
(* all end the process between two calls: Abort.  The Deployment           *)
(* controller and the kubelet (external) create, start, terminate and      *)
(* remove pods at their own pace.                                          *)
(***************************************************************************)
EXTENDS Naturals

CONSTANTS
  Users,      \* processes running the plugin
  Pods,       \* names the Deployment controller can give to a pod
  MaxTries,   \* polls of one wait loop (60 in the code)
  Mixed       \* TRUE: a start and a stop of the daemon may run at the same time

Original == "original"          \* the deployment of the daemon
Maint    == "maintenance"       \* <deployment>-maintenance
Deployments == {Original, Maint}

ASSUME ConstantsAssumption ==
  /\ MaxTries \in Nat \ {0}
  /\ Mixed \in BOOLEAN

\* A pod of a deployment is named after its ReplicaSet plus a random suffix,
\* never after the deployment itself.
ASSUME PodNamesAssumption == Pods \cap Deployments = {}

VARIABLES
  deployed,   \* the deployments that exist
  replicas,   \* [Deployments -> 0..1], spec.replicas
  pods,       \* [Pods -> PodState]
  pc,         \* [Users -> label], the API call a process makes next
  tries,      \* [Users -> Nat], polls made by the current wait loop
  copied,     \* [Users -> 0..1], spec.replicas in the copy start took of Original
  stranded    \* history: the last switch of mode was cut off half-way

clusterVars == <<deployed, replicas, pods>>
vars == <<deployed, replicas, pods, pc, tries, copied, stranded>>

NoPod == [owner |-> Original, phase |-> "none", terminating |-> FALSE]

PodState == [owner : Deployments, phase : {"none", "Pending", "Running"},
             terminating : BOOLEAN]

Returned == {"idle", "started", "stopped", "failed"}

StartCalls == {"getOriginal", "awaitDaemonPod", "scaleDown", "awaitDeletion",
               "create", "scaleUp", "awaitReady"}
StopCalls == {"getMaintenance", "delete", "restore"}

\* The calls before which neither deployment is scaled up.
SwitchWindow == {"awaitDeletion", "create", "restore"}

TypeOK ==
  /\ deployed \subseteq Deployments
  /\ replicas \in [Deployments -> 0..1]
  /\ pods \in [Pods -> PodState]
  /\ pc \in [Users -> Returned \cup StartCalls \cup StopCalls]
  /\ tries \in [Users -> 0..(MaxTries - 1)]
  /\ copied \in [Users -> 0..1]
  /\ stranded \in BOOLEAN

Init ==
  /\ deployed = {Original}
  /\ replicas = [d \in Deployments |-> IF d = Original THEN 1 ELSE 0]
  /\ \E p \in Pods :
       pods = [q \in Pods |-> IF q = p THEN [NoPod EXCEPT !.phase = "Running"]
                                       ELSE NoPod]
  /\ pc = [u \in Users |-> "idle"]
  /\ tries = [u \in Users |-> 0]
  /\ copied = [u \in Users |-> 0]
  /\ stranded = FALSE

-----------------------------------------------------------------------------
(* Steps of a process. *)

Running(d) == {p \in Pods : pods[p].owner = d /\ pods[p].phase = "Running"}

\* The process makes the call `from' now and the call `to' next; a wait loop
\* that begins with `to' begins with its first poll.
Goto(u, from, to) ==
  /\ pc[u] = from
  /\ pc' = [pc EXCEPT ![u] = to]
  /\ tries' = [tries EXCEPT ![u] = 0]

\* Two ways to get the next definition wrong: one poll too many, and no limit.
PollOnceMore(u, at) ==
  \/ /\ pc[u] = at /\ tries[u] < MaxTries
     /\ tries' = [tries EXCEPT ![u] = @ + 1]
     /\ UNCHANGED pc
  \/ tries[u] >= MaxTries /\ Goto(u, at, "failed")

PollForever(u, at) == pc[u] = at /\ UNCHANGED <<pc, tries>>

\* One more poll of a wait loop failed: sleep and poll again, or give up.
PollAgain(u, at) ==
  \/ /\ pc[u] = at /\ tries[u] + 1 < MaxTries
     /\ tries' = [tries EXCEPT ![u] = @ + 1]
     /\ UNCHANGED pc
  \/ tries[u] + 1 >= MaxTries /\ Goto(u, at, "failed")

\* WaitForPodToRun looks at the first Running pod of the list only, and takes
\* it unless it is terminating.  The pods of both deployments carry the labels
\* it selects by: the maintenance deployment copies the pod template.
SomePodRuns == \E p \in Running(Original) \cup Running(Maint) : ~pods[p].terminating

FirstPodUnfit ==
  LET listed == Running(Original) \cup Running(Maint)
  IN listed = {} \/ \E p \in listed : pods[p].terminating

\* A user starts a command, whose first call is `first'.
Begin(u, first, calls) ==
  /\ pc[u] \in Returned
  /\ Mixed \/ \A v \in Users : pc[v] \in Returned \cup calls
  /\ pc' = [pc EXCEPT ![u] = first]
  /\ UNCHANGED <<deployed, replicas, pods, tries, copied, stranded>>

BeginStart(u) == Begin(u, "getOriginal", StartCalls)
BeginStop(u) == Begin(u, "getMaintenance", StopCalls)

\* GetDeployment of the daemon's deployment; the struct is copied and edited
\* (image, probes, command), which leaves spec.replicas as it was read.
GetOriginal(u) ==
  /\ Goto(u, "getOriginal", "awaitDaemonPod")
  /\ copied' = [copied EXCEPT ![u] = replicas[Original]]
  /\ UNCHANGED <<clusterVars, stranded>>

AwaitDaemonPod(u) ==
  /\ \/ SomePodRuns /\ Goto(u, "awaitDaemonPod", "scaleDown")
     \/ FirstPodUnfit /\ PollAgain(u, "awaitDaemonPod")
  /\ UNCHANGED <<clusterVars, copied, stranded>>

\* Wrong: the daemon is left running.
SkipScaleDown(u) ==
  /\ Goto(u, "scaleDown", "awaitDeletion")
  /\ UNCHANGED <<clusterVars, copied, stranded>>

ScaleDown(u) ==
  /\ Goto(u, "scaleDown", "awaitDeletion")
  /\ replicas' = [replicas EXCEPT ![Original] = 0]
  /\ UNCHANGED <<deployed, pods, copied, stranded>>

\* waitForPodDeletion is called with the name of the deployment, so it asks
\* for a pod of that name and is content when the API server knows none.
AwaitDeletion(u) ==
  LET named == {p \in Pods : p = Original /\ pods[p].phase # "none"} IN
  /\ \/ named = {} /\ Goto(u, "awaitDeletion", "create") /\ UNCHANGED stranded
     \/ /\ PollAgain(u, "awaitDeletion")    \* it is there, or the Get failed
        /\ stranded' = (stranded \/ (pc'[u] = "failed" /\ Maint \notin deployed))
  /\ UNCHANGED <<clusterVars, copied>>

\* Create of <deployment>-maintenance; it fails when there is one already.
Create(u) ==
  /\ \/ /\ Maint \notin deployed
        /\ Goto(u, "create", "scaleUp")
        /\ deployed' = deployed \cup {Maint}
        /\ replicas' = [replicas EXCEPT ![Maint] = copied[u]]
        /\ stranded' = FALSE
     \/ /\ Maint \in deployed
        /\ Goto(u, "create", "failed")
        /\ UNCHANGED <<deployed, replicas, stranded>>
  /\ UNCHANGED <<pods, copied>>

ScaleUp(u) ==
  /\ \/ /\ Maint \in deployed
        /\ Goto(u, "scaleUp", "awaitReady")
        /\ replicas' = [replicas EXCEPT ![Maint] = 1]
     \/ /\ Maint \notin deployed
        /\ Goto(u, "scaleUp", "failed")
        /\ UNCHANGED replicas
  /\ UNCHANGED <<deployed, pods, copied, stranded>>

AwaitReady(u) ==
  /\ \/ SomePodRuns /\ Goto(u, "awaitReady", "started")
     \/ FirstPodUnfit /\ PollAgain(u, "awaitReady")
  /\ UNCHANGED <<clusterVars, copied, stranded>>

\* Wrong: the maintenance deployment is looked up and never deleted; or a missing
\* one is no error.
GetAndRestore(u) ==
  /\ Goto(u, "getMaintenance", IF Maint \in deployed THEN "restore" ELSE "failed")
  /\ UNCHANGED <<clusterVars, copied, stranded>>

GetIfAny(u) ==
  /\ Goto(u, "getMaintenance", "delete")
  /\ UNCHANGED <<clusterVars, copied, stranded>>

GetMaintenance(u) ==
  /\ Goto(u, "getMaintenance", IF Maint \in deployed THEN "delete" ELSE "failed")
  /\ UNCHANGED <<clusterVars, copied, stranded>>

\* Delete of the maintenance deployment; a NotFound answer is tolerated.
Delete(u) ==
  /\ Goto(u, "delete", "restore")
  /\ deployed' = deployed \ {Maint}
  /\ replicas' = [replicas EXCEPT ![Maint] = 0]
  /\ UNCHANGED <<pods, copied, stranded>>

\* Wrong: the daemon is not scaled up again.
SkipRestore(u) ==
  /\ Goto(u, "restore", "stopped")
  /\ stranded' = FALSE
  /\ UNCHANGED <<clusterVars, copied>>

Restore(u) ==
  /\ Goto(u, "restore", "stopped")
  /\ replicas' = [replicas EXCEPT ![Original] = 1]
  /\ stranded' = FALSE
  /\ UNCHANGED <<deployed, pods, copied>>

\* The process ends between two calls: killed, or an API call failed.  A call
\* that was carried out but whose answer was lost ends it one step later.
Abort(u) ==
  /\ pc[u] \notin Returned
  /\ Goto(u, pc[u], "failed")
  /\ stranded' = (stranded \/ (pc[u] \in SwitchWindow /\ Maint \notin deployed))
  /\ UNCHANGED <<clusterVars, copied>>

Step(u) ==
  \/ GetOriginal(u) \/ AwaitDaemonPod(u) \/ ScaleDown(u) \/ AwaitDeletion(u)
  \/ Create(u) \/ ScaleUp(u) \/ AwaitReady(u)
  \/ GetMaintenance(u) \/ Delete(u) \/ Restore(u)

-----------------------------------------------------------------------------
(* Kubernetes (external). *)

clientVars == <<pc, tries, copied, stranded>>

Active(d) == {p \in Pods : pods[p].owner = d /\ pods[p].phase # "none"
                                             /\ ~pods[p].terminating}

Wanted(d) == d \in deployed /\ replicas[d] = 1

\* The controller does not count terminating pods: it creates a new pod while
\* an old one is still shutting down.
CreatePod(d) ==
  /\ Wanted(d) /\ Active(d) = {}
  /\ \E p \in Pods :
       /\ pods[p].phase = "none"
       /\ pods' = [pods EXCEPT ![p] = [owner |-> d, phase |-> "Pending",
                                       terminating |-> FALSE]]
  /\ UNCHANGED <<deployed, replicas, clientVars>>

TerminatePod(d) ==
  /\ ~Wanted(d)
  /\ \E p \in Active(d) : pods' = [pods EXCEPT ![p].terminating = TRUE]
  /\ UNCHANGED <<deployed, replicas, clientVars>>

RunPod(p) ==
  /\ pods[p].phase = "Pending" /\ ~pods[p].terminating
  /\ pods' = [pods EXCEPT ![p].phase = "Running"]
  /\ UNCHANGED <<deployed, replicas, clientVars>>

RemovePod(p) ==
  /\ pods[p].terminating
  /\ pods' = [pods EXCEPT ![p] = NoPod]
  /\ UNCHANGED <<deployed, replicas, clientVars>>

Kubernetes ==
  \/ \E d \in Deployments : CreatePod(d) \/ TerminatePod(d)
  \/ \E p \in Pods : RunPod(p) \/ RemovePod(p)

-----------------------------------------------------------------------------
Next ==
  \/ \E u \in Users : BeginStart(u) \/ BeginStop(u)
  \/ \E u \in Users : Step(u) \/ Abort(u)
  \/ Kubernetes

\* A running process makes its next call, and the control loops of Kubernetes
\* act on what they see; a user need not begin a command, nor kill one.
Fairness ==
  /\ \A u \in Users : WF_vars(Step(u))
  /\ \A d \in Deployments : WF_vars(CreatePod(d)) /\ WF_vars(TerminatePod(d))
  /\ \A p \in Pods : WF_vars(RunPod(p)) /\ WF_vars(RemovePod(p))

Spec == Init /\ [][Next]_vars /\ Fairness

-----------------------------------------------------------------------------
(* Properties. *)

\* When no start overlaps a stop: whenever no command is running, and the last
\* one to switch was not cut off half-way, exactly one of the two deployments
\* serves the daemon.  A command that returns -- with success or with an error
\* it found by itself -- leaves the daemon neither without a deployment nor
\* with two, also when it ran together with another of its kind.
ExactlyOneMode ==
  (\A u \in Users : pc[u] \in Returned) /\ ~stranded
    => ((replicas[Original] = 1) # (Maint \in deployed))

\* The commands implement the exclusive switch of module ModeSwitch.
Switch == INSTANCE ModeSwitch WITH up <- {d \in Deployments : Wanted(d)}
SwitchSpec == Switch!Spec

\* Every command returns: each wait loop gives up after its number of polls.
CommandsReturn ==
  \A u \in Users : pc[u] \notin Returned ~> pc[u] \in Returned

\* A stop that reports success brings the daemon itself back up, unless a command is
\* started on it; a start that is complete or cut off takes it down again.
StopRestoresDaemon ==
  \A u \in Users : pc[u] = "stopped" /\ Maint \notin deployed /\ ~stranded ~>
     \/ \E p \in Running(Original) : ~pods[p].terminating
     \/ \E v \in Users : pc[v] \notin Returned

\* The daemon is down, no pod of it is left to look at, and no command is past
\* its first checks: what remains of a start or a stop cut off half-way.
Helpless ==
  /\ replicas[Original] = 0 /\ Maint \notin deployed
  /\ \A p \in Pods : pods[p].phase # "none" => pods[p].terminating
  /\ \A u \in Users :
       pc[u] \in Returned \cup {"getOriginal", "awaitDaemonPod", "getMaintenance"}

\* Neither command repairs that state, whatever is run and in whatever order: a
\* stop finds no maintenance deployment and a start no running pod, so both give
\* up before they change anything.  Only a change made by other means does.
HelplessStays == [][Helpless => Helpless']_vars

\* docs/maintenance.md, "without that daemon running": when start reports that
\* the pod is ready for maintenance operations, the daemon is no longer running.
ReadyMeansDaemonStopped ==
  [][\A u \in Users : pc[u] = "awaitReady" /\ pc'[u] = "started"
        => Running(Original) = {}]_vars
=============================================================================
