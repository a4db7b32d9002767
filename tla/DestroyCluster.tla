--------------------------- MODULE DestroyCluster ---------------------------
(***************************************************************************)
(* `kubectl rook-ceph destroy-cluster' (pkg/crds/crds.go): every Rook CR   *)
(* is deleted, kind by kind, with its finalizers removed by force, except  *)
(* that of a CephCluster, which is the operator's to remove; then the      *)
(* deployments and jobs of the cluster's pods are deleted until no pod is  *)
(* left.  Meanwhile the operator goes on, and users create CRs again.      *)
(***************************************************************************)
EXTENDS Naturals

CONSTANTS
  CRs,          \* names of Rook CRs
  NumKinds,     \* length of CephResources
  KindOf,       \* [CRs -> 1..NumKinds], place of its kind in CephResources
  Deployments,  \* of the cluster, and the toolbox
  Jobs,
  Toolbox,
  Apps,
  AppOf         \* [Workloads -> Apps], label "app" of a workload and of its pods

NoCR == "no CR"
Workloads == Deployments \cup Jobs

ASSUME DestroyAssumption ==
  /\ NumKinds \in Nat \ {0} /\ KindOf \in [CRs -> 1..NumKinds] /\ NoCR \notin CRs
  /\ Toolbox \in Deployments /\ Deployments \cap Jobs = {} /\ AppOf \in [Workloads -> Apps]

\* The first of CephResources.
CephClusters == {c \in CRs : KindOf[c] = 1}

VARIABLES
  cr,             \* [CRs -> {"absent", "bare", "live", "deleting"}]: bare without finalizers,
                  \* deleting with them
  confirmed,      \* the clusters whose cleanupPolicy confirms the destruction of data
  work,           \* the workloads that exist
  pods,           \* the workloads that have pods with the label rook_cluster
  orchestrating,  \* the operator is setting up the daemons of a cluster
  stage,          \* label of the process
  kind,           \* kind that is deleted
  todo,           \* CRs of the list still to be deleted
  item,           \* the CR that is being deleted
  apps,           \* apps of the listed pods still to be pruned
  app,            \* the app that is being pruned
  targets,        \* workloads of the list still to be deleted
  born            \* history: the CRs created since their kind was listed last

crVars == <<cr, confirmed, born>>
workVars == <<work, pods, orchestrating>>
loopVars == <<kind, todo, item>>
waitVars == <<apps, app, targets>>
destroyVars == <<crVars, workVars, stage, loopVars, waitVars>>

Ended == {"idle", "done", "failed"}
Present == {c \in CRs : cr[c] # "absent"}

DestroyTypeOK ==
  /\ cr \in [CRs -> {"absent", "bare", "live", "deleting"}]
  /\ confirmed \subseteq CephClusters \cap Present /\ born \subseteq CRs
  /\ work \subseteq Workloads /\ pods \subseteq Workloads \ {Toolbox} /\ orchestrating \in BOOLEAN
  /\ stage \in Ended \cup {"prompt", "items", "get", "patch", "deleteAgain", "wait", "jobs"}
  /\ kind \in 0..NumKinds /\ todo \subseteq {c \in CRs : KindOf[c] = kind}
  /\ item \in CRs \cup {NoCR}
  /\ stage \in {"get", "patch", "deleteAgain"} => item \in CRs /\ KindOf[item] = kind
  /\ apps \subseteq Apps /\ app \in Apps
  /\ targets \subseteq IF stage = "jobs" THEN Deployments ELSE Jobs

DestroyInit ==
  /\ cr \in [CRs -> {"absent", "live"}] /\ confirmed = {} /\ born = {}
  /\ work = Workloads /\ pods = Workloads \ {Toolbox} /\ orchestrating \in BOOLEAN
  /\ stage = "idle" /\ kind = 0 /\ todo = {} /\ item = NoCR
  /\ apps = {} /\ app = AppOf[Toolbox] /\ targets = {}

-----------------------------------------------------------------------------
(* Kubernetes, the operator and users (external). *)

\* A CR without finalizers goes when it is deleted, a deleted one when it loses them.
AfterDelete(state) == IF state \in {"absent", "bare"} THEN "absent" ELSE "deleting"
AfterPatch(state) == IF state = "deleting" THEN "absent" ELSE "bare"

Becomes(c, state) ==
  /\ cr' = [cr EXCEPT ![c] = state]
  /\ confirmed' = IF state = "absent" THEN confirmed \ {c} ELSE confirmed

\* By a user, or by the operator for a CR of another kind.
Create(c) ==
  /\ cr[c] = "absent" /\ Becomes(c, "bare") /\ born' = born \cup {c}
  /\ UNCHANGED <<workVars, stage, loopVars, waitVars>>

Adopt(c) ==
  /\ cr[c] = "bare" /\ Becomes(c, "live")
  /\ UNCHANGED <<born, workVars, stage, loopVars, waitVars>>

\* The operator removes its finalizer; that of a cluster when no CR depends on it.
Release(c) ==
  /\ cr[c] = "deleting" /\ (c \in CephClusters => Present \subseteq CephClusters) /\ Becomes(c, "absent")
  /\ UNCHANGED <<born, workVars, stage, loopVars, waitVars>>

\* What has begun for a live cluster goes on for a while.
Orchestrate ==
  /\ ~orchestrating /\ (\E c \in CephClusters : cr[c] = "live") /\ orchestrating' = TRUE
  /\ UNCHANGED <<crVars, work, pods, stage, loopVars, waitVars>>

CreateWorkload(w) ==
  /\ orchestrating /\ w # Toolbox /\ work' = work \cup {w}
  /\ UNCHANGED <<crVars, pods, orchestrating, stage, loopVars, waitVars>>

StopOrchestrating ==
  /\ orchestrating /\ (\A c \in CephClusters : cr[c] # "live") /\ orchestrating' = FALSE
  /\ UNCHANGED <<crVars, work, pods, stage, loopVars, waitVars>>

\* What a cluster owns goes after it.
CollectGarbage(w) ==
  /\ CephClusters \cap Present = {} /\ w # Toolbox /\ work' = work \ {w}
  /\ UNCHANGED <<crVars, pods, orchestrating, stage, loopVars, waitVars>>

CreatePod(w) ==
  /\ w \in work \ {Toolbox} /\ pods' = pods \cup {w}
  /\ UNCHANGED <<crVars, work, orchestrating, stage, loopVars, waitVars>>

\* The pod of a job stays when it has completed.
RemovePod(w) ==
  /\ w \in pods \ work /\ pods' = pods \ {w}
  /\ UNCHANGED <<crVars, work, orchestrating, stage, loopVars, waitVars>>

Environment ==
  \/ \E c \in CRs : Create(c) \/ Adopt(c) \/ Release(c)
  \/ Orchestrate \/ StopOrchestrating
  \/ \E w \in Workloads : CreateWorkload(w) \/ CollectGarbage(w) \/ CreatePod(w) \/ RemovePod(w)

-----------------------------------------------------------------------------
(* The process: the CRs. *)

\* What the process knows goes with it.
Exit(label) ==
  /\ stage' = label /\ kind' = 0 /\ todo' = {} /\ item' = NoCR
  /\ apps' = {} /\ app' = AppOf[Toolbox] /\ targets' = {}

DestroyClusterCmd ==
  /\ stage \in Ended /\ stage' = "prompt"
  /\ UNCHANGED <<crVars, workVars, loopVars, waitVars>>

AnswerPrompt ==
  /\ stage = "prompt" /\ stage' \in {"items", "failed"}
  /\ UNCHANGED <<crVars, workVars, loopVars, waitVars>>

\* Wrong: one kind too many.
ListPastLast ==
  /\ stage = "items" /\ todo = {} /\ kind <= NumKinds /\ kind' = kind + 1
  /\ todo' = {c \in Present : KindOf[c] = kind'}
  /\ born' = born \ {c \in CRs : KindOf[c] = kind'}
  /\ UNCHANGED <<cr, confirmed, workVars, stage, item, waitVars>>

\* A kind without a CRD has no CRs.
ListKind ==
  /\ stage = "items" /\ todo = {} /\ kind < NumKinds /\ kind' = kind + 1
  /\ todo' = {c \in Present : KindOf[c] = kind'}
  /\ born' = born \ {c \in CRs : KindOf[c] = kind'}
  /\ UNCHANGED <<cr, confirmed, workVars, stage, item, waitVars>>

\* Wrong: patched first, and deleted then.
PatchFirst(c) ==
  /\ stage = "items" /\ c \in todo /\ todo' = todo \ {c}
  /\ stage' = "get" /\ item' = c
  /\ UNCHANGED <<crVars, workVars, kind, waitVars>>

\* The first Delete of an item of the list; NotFound is tolerated.
DeleteCR(c) ==
  /\ stage = "items" /\ c \in todo /\ todo' = todo \ {c}
  /\ IF c \in Present THEN Becomes(c, AfterDelete(cr[c])) /\ stage' = "get" /\ item' = c
                      ELSE UNCHANGED <<cr, confirmed, stage, item>>
  /\ UNCHANGED <<born, workVars, kind, waitVars>>

ItemDone == stage' = "items" /\ item' = NoCR

\* Wrong: it is taken for gone.
NeverPatch ==
  /\ stage = "get" /\ ItemDone
  /\ UNCHANGED <<crVars, workVars, kind, todo, waitVars>>

GetCR ==
  /\ stage = "get"
  /\ IF item \in Present THEN stage' = "patch" /\ UNCHANGED item ELSE ItemDone
  /\ UNCHANGED <<crVars, workVars, kind, todo, waitVars>>

\* updatingFinalizers: of a cluster the clean-up is confirmed, any other loses its finalizers.
Patch ==
  /\ stage = "patch"
  /\ IF item \notin Present THEN ItemDone /\ UNCHANGED <<cr, confirmed>>
     ELSE /\ stage' = "deleteAgain" /\ UNCHANGED item
          /\ IF item \in CephClusters THEN confirmed' = confirmed \cup {item} /\ UNCHANGED cr
                                  ELSE Becomes(item, AfterPatch(cr[item]))
  /\ UNCHANGED <<born, workVars, kind, todo, waitVars>>

\* With the Get whose answer is not used.
DeleteAgain ==
  /\ stage = "deleteAgain" /\ ItemDone /\ Becomes(item, AfterDelete(cr[item]))
  /\ UNCHANGED <<born, workVars, kind, todo, waitVars>>

DeleteToolbox ==
  /\ stage = "items" /\ todo = {} /\ kind = NumKinds /\ stage' = "wait" /\ work' = work \ {Toolbox}
  /\ UNCHANGED <<crVars, pods, orchestrating, loopVars, waitVars>>

-----------------------------------------------------------------------------
(* The process: ensureClusterIsEmpty. *)

Poll == stage = "wait" /\ targets = {} /\ apps = {}

\* Several pods of an app are pruned for once.
ListPods ==
  /\ Poll
  /\ IF pods = {} THEN Exit("done")
                  ELSE apps' = {AppOf[w] : w \in pods} /\ UNCHANGED <<stage, loopVars, app, targets>>
  /\ UNCHANGED <<crVars, workVars>>

\* After maxExecutionTime, between two polls.
Timeout ==
  /\ Poll /\ Exit("done") /\ UNCHANGED <<crVars, workVars>>

OfApp(a, workloads) == {w \in work \cap workloads : AppOf[w] = a}

PruneDeployments(a) ==
  /\ stage = "wait" /\ targets = {} /\ a \in apps
  /\ stage' = "jobs" /\ app' = a /\ apps' = apps \ {a} /\ targets' = OfApp(a, Deployments)
  /\ UNCHANGED <<crVars, workVars, loopVars>>

DeleteDeployment(w) ==
  /\ stage = "jobs" /\ w \in targets /\ targets' = targets \ {w} /\ work' = work \ {w}
  /\ UNCHANGED <<crVars, pods, orchestrating, stage, loopVars, apps, app>>

AppDone == stage' = "wait" /\ app' = AppOf[Toolbox]

\* Wrong: the jobs are left alone.
SkipJobs(a) ==
  /\ stage = "jobs" /\ targets = {} /\ a = app /\ AppDone
  /\ UNCHANGED <<crVars, workVars, loopVars, apps, targets>>

PruneJobs(a) ==
  /\ stage = "jobs" /\ targets = {} /\ a = app /\ AppDone /\ targets' = OfApp(a, Jobs)
  /\ UNCHANGED <<crVars, workVars, loopVars, apps>>

DeleteJob(w) ==
  /\ stage = "wait" /\ w \in targets /\ targets' = targets \ {w} /\ work' = work \ {w}
  /\ UNCHANGED <<crVars, pods, orchestrating, stage, loopVars, apps, app>>

\* Failures that are only warned of: to list deployments, to list jobs, to delete one.
OrWarn ==
  /\ \/ \E a \in apps : /\ stage = "wait" /\ targets = {}
                        /\ stage' = "jobs" /\ app' = a /\ apps' = apps \ {a} /\ UNCHANGED targets
     \/ stage = "jobs" /\ targets = {} /\ AppDone /\ UNCHANGED <<apps, targets>>
     \/ stage = "wait" /\ targets # {} /\ targets' = {} /\ UNCHANGED <<stage, apps, app>>
  /\ UNCHANGED <<crVars, workVars, loopVars>>

\* A call fails, or the process is killed.
Die ==
  /\ stage \notin Ended /\ Exit("failed") /\ UNCHANGED <<crVars, workVars>>

Step ==
  \/ ListKind \/ (\E c \in CRs : DeleteCR(c)) \/ GetCR \/ Patch \/ DeleteAgain \/ DeleteToolbox
  \/ ListPods \/ (\E a \in Apps : PruneDeployments(a) \/ PruneJobs(a))
  \/ \E w \in Workloads : DeleteDeployment(w) \/ DeleteJob(w)

DestroyNext == DestroyClusterCmd \/ AnswerPrompt \/ Step \/ Timeout \/ OrWarn \/ Die \/ Environment

\* The process makes its next call, and one that it makes again and again does not fail each
\* time; the operator notices that a cluster is deleted, and the pods of deleted workloads
\* go.  Not fair: the timeout, the finalizers of the operator, the garbage collector.
Fairness ==
  /\ WF_destroyVars(Step)
  /\ \A w \in Workloads \ {Toolbox} : /\ SF_destroyVars(PruneDeployments(AppOf[w]))
                                     /\ SF_destroyVars(PruneJobs(AppOf[w])) /\ WF_destroyVars(RemovePod(w))
  /\ \A w \in Jobs : SF_destroyVars(DeleteJob(w))
  /\ WF_destroyVars(StopOrchestrating)

DestroySpec == DestroyInit /\ [][DestroyNext]_destroyVars /\ Fairness

-----------------------------------------------------------------------------
(* Properties. *)

\* cmd/commands/destroy_cluster.go, "delete ... all Rook CRs": when the command is done, of
\* the CRs it found none is left, but clusters that are being deleted with their clean-up
\* confirmed.  So it is also after a run that was cut off anywhere, and whatever the operator
\* does meanwhile; a CR created after its kind was listed may be left.
DoneLeavesNothingOld ==
  stage = "done" => \A c \in Present \ born :
                   c \in CephClusters /\ cr[c] = "deleting" /\ c \in confirmed

\* The destruction of data is confirmed for no cluster that is not being deleted, unless it
\* was created since the clusters were listed.
NeverConfirmsALiveCluster ==
  [][\A c \in confirmed' \ confirmed : cr[c] = "deleting" \/ c \in born]_destroyVars

\* The command ends, and not by the timeout alone: unless there is a live cluster, what it
\* deletes in the end is all that has pods.
DestroyReturns ==
  stage \notin Ended \cup {"prompt"} /\ (\A c \in CephClusters : cr[c] # "live")
    ~> stage \in Ended \/ \E c \in CephClusters : cr[c] = "live"
=============================================================================
