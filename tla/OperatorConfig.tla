--------------------------- MODULE OperatorConfig ---------------------------
(***************************************************************************)
(* `kubectl rook-ceph operator set <property> <value>` and `operator       *)
(* restart` (cmd/commands/operator.go, with UpdateConfigMap and            *)
(* RestartDeployment of pkg/k8sutil), by any number of users.              *)
(*                                                                         *)
(* `set' reads the ConfigMap rook-ceph-operator-config, changes one entry  *)
(* of the copy and writes the whole copy back; the API server refuses a    *)
(* copy whose resourceVersion is no longer that of the object.  `restart'  *)
(* writes a new annotation into the pod template of the operator's         *)
(* deployment, and leaves the rest to the Deployment controller, while     *)
(* other commands scale that deployment to zero and back.                  *)
(***************************************************************************)
EXTENDS Naturals, FiniteSets

CONSTANTS
  Users,
  Keys, Values, NoValue,   \* properties, what they are set to, not set
  Pods,                    \* names the operator's pods can have
  MaxVersion,              \* bound: writes of the ConfigMap
  MaxRestarts              \* bound: patches of the deployment

ASSUME ConfigAssumption ==
  /\ NoValue \notin Values
  /\ MaxVersion \in Nat /\ MaxRestarts \in Nat

VARIABLES
  exists,    \* the ConfigMap exists
  data,      \* [Keys -> Values \cup {NoValue}], its Data
  version,   \* its resourceVersion, or the last one it had
  replicas,  \* 0..1, of rook-ceph-operator
  template,  \* 0..MaxRestarts, the revision of its pod template
  pods,      \* [Pods -> [state : PodStates, template : 0..MaxRestarts]]
  pc,        \* [Users -> Labels], the next call
  arg,       \* [Users -> Requests], the arguments of set
  copy,      \* [Users -> Copies], cm
  told,      \* [Users -> Answers], how the last set of the user ended
  patches    \* history: patches of the deployment that were accepted

configMap == <<exists, data, version>>
deployment == <<replicas, template, pods>>
process == <<pc, arg, copy, told>>
vars == <<configMap, deployment, process, patches>>

Settings == [Keys -> Values \cup {NoValue}]
NoRequest == [key |-> NoValue, value |-> NoValue]
Requests == [key : Keys, value : Values] \cup {NoRequest}
Unset == [k \in Keys |-> NoValue]
Copies == [data : Settings, version : 0..MaxVersion]
NoCopy == [data |-> Unset, version |-> 0]
PodStates == {"absent", "starting", "running", "terminating"}
NoPod == [state |-> "absent", template |-> 0]
Labels == {"idle", "get", "update", "verify", "patch"}
Answers == {"nothing", "patched", "error"}

TypeOK ==
  /\ exists \in BOOLEAN /\ data \in Settings /\ version \in 0..MaxVersion
  /\ replicas \in 0..1 /\ template \in 0..MaxRestarts
  /\ pods \in [Pods -> [state : PodStates, template : 0..MaxRestarts]]
  /\ pc \in [Users -> Labels] /\ arg \in [Users -> Requests]
  /\ copy \in [Users -> Copies] /\ told \in [Users -> Answers]
  /\ patches \in 0..MaxRestarts

Init ==
  /\ exists = TRUE /\ data = Unset /\ version = 0
  /\ replicas = 1 /\ template = 0 /\ patches = 0
  /\ pods = [p \in Pods |-> NoPod]
  /\ pc = [u \in Users |-> "idle"] /\ arg = [u \in Users |-> NoRequest]
  /\ copy = [u \in Users |-> NoCopy] /\ told = [u \in Users |-> "nothing"]

-----------------------------------------------------------------------------
(* operator set. *)

Goto(u, from, to) == pc[u] = from /\ pc' = [pc EXCEPT ![u] = to]

\* The process ends, and what it knew with it; `set' prints how.
End(u, answer) ==
  /\ pc' = [pc EXCEPT ![u] = "idle"]
  /\ arg' = [arg EXCEPT ![u] = NoRequest] /\ copy' = [copy EXCEPT ![u] = NoCopy]
  /\ told' = [told EXCEPT ![u] = IF pc[u] \in {"get", "update"} THEN answer ELSE @]

\* Wrong: the value may be left out, as if cobra.ExactArgs(2) were not there.
BeginSetKeyOnly(u) ==
  /\ Goto(u, "idle", "get") /\ told' = [told EXCEPT ![u] = "nothing"]
  /\ \E k \in Keys, v \in Values \cup {NoValue} : arg' = [arg EXCEPT ![u] = [key |-> k, value |-> v]]
  /\ UNCHANGED <<configMap, deployment, copy, patches>>

BeginSet(u) ==
  /\ Goto(u, "idle", "get") /\ told' = [told EXCEPT ![u] = "nothing"]
  /\ \E k \in Keys, v \in Values : arg' = [arg EXCEPT ![u] = [key |-> k, value |-> v]]
  /\ UNCHANGED <<configMap, deployment, copy, patches>>

GetCM(u) ==
  /\ Goto(u, "get", "update") /\ exists
  /\ copy' = [copy EXCEPT ![u] = [data |-> data, version |-> version]]
  /\ UNCHANGED <<configMap, deployment, arg, told, patches>>

\* The API server takes the whole object; one that does not differ stays as it is.
Accept(new) ==
  /\ exists /\ version < MaxVersion
  /\ data' = new
  /\ version' = IF new = data THEN version ELSE version + 1
  /\ UNCHANGED exists

\* Wrong: a conflict is answered by writing the same copy again, at the new version.
UpdateAgain(u) ==
  /\ pc[u] = "update"
  /\ Accept([copy[u].data EXCEPT ![arg[u].key] = arg[u].value])
  /\ \E answer \in {"patched", "error"} : End(u, answer)
  /\ UNCHANGED <<deployment, patches>>

\* The changed copy; the answer may be lost, which is an error to the user.
Update(u) ==
  /\ pc[u] = "update" /\ copy[u].version = version
  /\ Accept([copy[u].data EXCEPT ![arg[u].key] = arg[u].value])
  /\ \E answer \in {"patched", "error"} : End(u, answer)
  /\ UNCHANGED <<deployment, patches>>

-----------------------------------------------------------------------------
(* operator restart. *)

BeginRestart(u) ==
  /\ Goto(u, "idle", "verify")
  /\ UNCHANGED <<configMap, deployment, arg, copy, told, patches>>

\* `rook version' is run in the operator's pod, before anything else.
Verify(u) ==
  /\ Goto(u, "verify", "patch")
  /\ \E p \in Pods : pods[p].state = "running"
  /\ UNCHANGED <<configMap, deployment, arg, copy, told, patches>>

\* Wrong: the annotation goes to the deployment and not to its pod template.
PatchNoTemplate(u) ==
  /\ pc[u] = "patch" /\ patches < MaxRestarts /\ End(u, "nothing")
  /\ patches' = patches + 1
  /\ UNCHANGED <<configMap, deployment>>

\* The annotation is the time of the restart: the template differs from all before.
Patch(u) ==
  /\ pc[u] = "patch" /\ patches < MaxRestarts /\ End(u, "nothing")
  /\ template' = template + 1 /\ patches' = patches + 1
  /\ UNCHANGED <<configMap, replicas, pods>>

\* A call that fails or is refused ends the process, and so does its user.  A patch
\* that failed is no exception, but for the message, which is that of Patch.
Die(u) ==
  /\ pc[u] # "idle" /\ End(u, "error")
  /\ UNCHANGED <<configMap, deployment, patches>>

-----------------------------------------------------------------------------
(* Kubernetes and everybody else (external). *)

\* Other tools change the ConfigMap, with or without a look at its version.
EditCM ==
  /\ \E new \in Settings : new # data /\ Accept(new)
  /\ UNCHANGED <<deployment, process, patches>>

DeleteCM ==
  /\ exists /\ exists' = FALSE /\ data' = Unset
  /\ UNCHANGED <<version, deployment, process, patches>>

\* A new object of that name, with a version of its own.
CreateCM ==
  /\ ~exists /\ exists' = TRUE /\ version < MaxVersion /\ version' = version + 1
  /\ data' \in Settings
  /\ UNCHANGED <<deployment, process, patches>>

\* restore-quorum, restore-deleted and destroy-cluster stop the operator and may
\* start it again.
Scale ==
  /\ replicas' = 1 - replicas
  /\ UNCHANGED <<configMap, template, pods, process, patches>>

SetPod(p, pod) ==
  /\ pods' = [pods EXCEPT ![p] = pod]
  /\ UNCHANGED <<configMap, replicas, template, process, patches>>

Current(p) == pods[p].state \in {"starting", "running"} /\ pods[p].template = template

CreatePod(p) ==
  /\ pods[p] = NoPod /\ replicas = 1 /\ \A q \in Pods : ~Current(q)
  /\ SetPod(p, [state |-> "starting", template |-> template])

RunPod(p) == pods[p].state = "starting" /\ SetPod(p, [pods[p] EXCEPT !.state = "running"])

\* A rollout replaces the pods of older templates, before or after it has a new one.
TerminatePod(p) ==
  /\ pods[p].state \in {"starting", "running"} /\ (replicas = 0 \/ ~Current(p))
  /\ SetPod(p, [pods[p] EXCEPT !.state = "terminating"])

RemovePod(p) == pods[p].state = "terminating" /\ SetPod(p, NoPod)

Command(u) == \/ BeginSet(u) \/ GetCM(u) \/ Update(u)
              \/ BeginRestart(u) \/ Verify(u) \/ Patch(u) \/ Die(u)

Kubernetes(p) == CreatePod(p) \/ RunPod(p) \/ TerminatePod(p) \/ RemovePod(p)

Next == \/ \E u \in Users : Command(u)
        \/ EditCM \/ DeleteCM \/ CreateCM \/ Scale
        \/ \E p \in Pods : Kubernetes(p)

\* The control loops of Kubernetes go on; no command has to.
Fairness == \A p \in Pods : WF_vars(Kubernetes(p))

Spec == Init /\ [][Next]_vars /\ Fairness

-----------------------------------------------------------------------------
(* Properties. *)

Store == INSTANCE SettingStore WITH settings <- data, request <- arg

\* UpdateConfigMap, a read and a write of the whole object with nothing between them
\* but a version, sets single properties atomically: no request loses another one or
\* an edit, over deletions and re-creations of the ConfigMap, and `patched' is told
\* only to who has set the property.
SetsAreAtomic == Store!Spec

\* A restart replaces the operator: after a patch of the deployment, every pod of an
\* older template goes away, and if the deployment stays scaled up a pod of the last
\* template runs, however the patches and the scaling by other commands follow each
\* other.
RestartTakesEffect ==
  /\ \A n \in 1..MaxRestarts :
       (patches >= n) ~> (\A p \in Pods : pods[p] = NoPod \/ pods[p].template >= n)
  /\ <>[](replicas = 1) =>
       []<>(\E p \in Pods : pods[p] = [state |-> "running", template |-> patches])
=============================================================================
