--------------------------- MODULE RestoreQuorum ---------------------------
(***************************************************************************)
(* `kubectl rook-ceph mons restore-quorum <good mon>` (pkg/mons).          *)
(*                                                                         *)
(* The restore stops the operator and the other mons, puts the good mon in *)
(* maintenance mode (module Maintenance, called as a procedure), edits the *)
(* monmap in its store, rewrites the endpoints ConfigMap, leaves           *)
(* maintenance mode, waits for `ceph status` and purges the other mons.    *)
(* One action per remote call that succeeds.  Every failure -- a call that *)
(* fails or whose condition does not hold, a prompt answered otherwise, a  *)
(* Ctrl-C -- ends the process where it is: Die.  The user may then stop    *)
(* the maintenance mode it left behind, restart the operator and run the   *)
(* command again.                                                          *)
(***************************************************************************)
EXTENDS Naturals, FiniteSets

CONSTANTS
  Bad,         \* the other mons of the cluster
  Good,        \* the mon to restore quorum to
  Spare,       \* a mon the operator may add while it runs
  Pods,        \* pod names for the good mon, see Maintenance
  MaxTries,    \* polls of a wait loop of Maintenance
  MaxProbes,   \* polls of `ceph status' (20 in the code)
  MaxRuns      \* bound: restores the user begins

Mons == Bad \cup {Good, Spare}

ASSUME MonsAssumption ==
  /\ IsFiniteSet(Bad) /\ Good \notin Bad /\ Spare \notin Bad \cup {Good}
  /\ MaxTries \in Nat \ {0} /\ MaxProbes \in Nat \ {0} /\ MaxRuns \in Nat

VARIABLES
  deployed, replicas, pods, pc, tries, copied, stranded,   \* see Maintenance
  opScale,    \* 0..1, replicas of rook-ceph-operator
  opPod,      \* the operator's pod is running
  cm,         \* the mons listed in rook-ceph-mon-endpoints
  version,    \* resourceVersion of that ConfigMap
  store,      \* the monmap in the good mon's store: a set of mons
  resources,  \* [Mons -> SUBSET {"deployment", "service", "pvc"}]
  scale,      \* [Mons -> 0..1], replicas of the mon deployments, Good's aside
  lost,       \* the mons that never run again
  spare,      \* whether Spare was created, and has joined the quorum
  rq,         \* label: the next call of the restore process
  read,       \* [mons, version]: the ConfigMap as the process read it
  todo,       \* the mons the current loop of the process has still to visit
  file,       \* [pod, mons]: /tmp/monmap, in the pod it was extracted in
  probes,     \* polls of `ceph status' made
  heard,      \* history: `ceph status' was answered since the mon restarted
  runs        \* history: restores begun

maintVars == <<deployed, replicas, pods, pc, tries, copied, stranded>>
operatorVars == <<opScale, opPod, spare>>
monVars == <<cm, version, store, resources, scale, lost>>
localVars == <<rq, read, todo, file, probes, heard, runs>>
vars == <<maintVars, operatorVars, monVars, localVars>>

\* The commands of Maintenance, run by this process ("cli") or by its user
\* between two restores.
M == INSTANCE Maintenance WITH Users <- {"cli"}, Mixed <- FALSE

NoPodName == "no pod"
NoFile == [pod |-> NoPodName, mons |-> {}]
NothingRead == [mons |-> {}, version |-> 0]

Idle == {"idle", "done", "failed", "timedOut"}
Labels == Idle \cup
  {"validate", "getCM", "prompt", "scaleOperator", "scaleBad", "callStart", "inStart",
   "getMaintenance", "extract", "remove", "inject", "updateCM", "callStop", "inStop",
   "probe", "purge", "deleteService", "deletePVC", "restored", "startOperator"}

TypeOK ==
  /\ M!TypeOK
  /\ opScale \in 0..1 /\ opPod \in BOOLEAN
  /\ cm \subseteq Mons /\ version \in 0..(MaxRuns + 1) /\ store \subseteq Mons
  /\ resources \in [Mons -> SUBSET {"deployment", "service", "pvc"}]
  /\ scale \in [Mons -> 0..1] /\ lost \subseteq Bad
  /\ spare \in {"unborn", "created", "joined"}
  /\ rq \in Labels
  /\ read \in [mons : SUBSET Mons, version : 0..(MaxRuns + 1)]
  /\ todo \subseteq Mons
  /\ file \in [pod : Pods \cup {NoPodName}, mons : SUBSET Mons]
  /\ probes \in 0..(MaxProbes - 1) /\ heard \in BOOLEAN /\ runs \in 0..MaxRuns

Init ==
  /\ M!Init
  /\ opScale = 1 /\ opPod = TRUE /\ spare = "unborn"
  /\ cm = Bad \cup {Good} /\ version = 0 /\ store = Bad \cup {Good}
  /\ resources = [m \in Mons |-> IF m = Spare THEN {} ELSE {"deployment", "service", "pvc"}]
  /\ scale = [m \in Mons |-> IF m \in Bad THEN 1 ELSE 0]
  /\ lost \in SUBSET Bad
  /\ rq = "idle" /\ read = NothingRead /\ todo = {} /\ file = NoFile
  /\ probes = 0 /\ heard = FALSE /\ runs = 0

-----------------------------------------------------------------------------
(* The restore process. *)

Goto(from, to) == rq = from /\ rq' = to

BadMons == read.mons \ {Good}

\* The process ends.  What it knew goes with it, and the monmap file is
\* extracted anew before a later restore uses it.
End(label) ==
  /\ rq' = label
  /\ read' = NothingRead /\ todo' = {} /\ file' = NoFile /\ probes' = 0

Begin ==
  /\ rq \in Idle /\ pc["cli"] \in M!Returned /\ runs < MaxRuns
  /\ rq' = "validate" /\ runs' = runs + 1 /\ heard' = FALSE
  /\ UNCHANGED <<maintVars, operatorVars, monVars, read, todo, file, probes>>

\* validateMonIsUp asks the good mon for its state: a running mon is in one of
\* the states it accepts, and a maintenance pod has no mon to answer.
Validate ==
  /\ M!Running(M!Original) # {}
  /\ Goto("validate", "getCM")
  /\ UNCHANGED <<maintVars, operatorVars, monVars, read, todo, file, probes, heard, runs>>

\* Get of the ConfigMap, getMonDetails; then the fsid and the toolbox are looked
\* up, which changes nothing.
GetCM ==
  /\ Good \in cm /\ Goto("getCM", "prompt")
  /\ read' = [mons |-> cm, version |-> version]
  /\ UNCHANGED <<maintVars, operatorVars, monVars, todo, file, probes, heard, runs>>

AnswerPrompt ==
  /\ Goto("prompt", "scaleOperator") \/ Goto("restored", "startOperator")
  /\ UNCHANGED <<maintVars, operatorVars, monVars, read, todo, file, probes, heard, runs>>

ScaleOperator ==
  /\ \/ /\ Goto("scaleOperator", IF BadMons = {} THEN "callStart" ELSE "scaleBad")
        /\ opScale' = 0 /\ todo' = BadMons
        /\ UNCHANGED <<read, file, probes>>
     \/ rq = "startOperator" /\ End("done") /\ opScale' = 1
  /\ UNCHANGED <<maintVars, opPod, spare, monVars, heard, runs>>

\* One round of the loop that scales the bad mons down: each has a deployment.
ScaleBad(m) ==
  /\ m \in todo /\ "deployment" \in resources[m]
  /\ Goto("scaleBad", IF todo = {m} THEN "callStart" ELSE "scaleBad")
  /\ scale' = [scale EXCEPT ![m] = 0] /\ todo' = todo \ {m}
  /\ UNCHANGED <<maintVars, operatorVars, cm, version, store, resources, lost,
                 read, file, probes, heard, runs>>

\* StartMaintenance and StopMaintenance are calls, in which the process waits;
\* it does not outlive one that fails.
Call ==
  /\ \/ Goto("callStart", "inStart") /\ M!BeginStart("cli")
     \/ Goto("callStop", "inStop") /\ M!BeginStop("cli")
  /\ UNCHANGED <<operatorVars, monVars, read, todo, file, probes, heard, runs>>

Return ==
  /\ \/ pc["cli"] = "started" /\ Goto("inStart", "getMaintenance")
     \/ pc["cli"] = "stopped" /\ Goto("inStop", "probe")
  /\ UNCHANGED <<maintVars, operatorVars, monVars, read, todo, file, probes, heard, runs>>

\* The maintenance deployment is fetched and its pod awaited once more.
GetMaintenance ==
  /\ M!Maint \in deployed /\ M!SomePodRuns /\ Goto("getMaintenance", "extract")
  /\ UNCHANGED <<maintVars, operatorVars, monVars, read, todo, file, probes, heard, runs>>

\* RunCommandInLabeledPod runs in the first pod listed, whatever its phase and
\* deployment.  ceph-mon opens the store only when no mon has it open, and
\* monmaptool finds /tmp/monmap only in the pod it was extracted in.
StoreIsFree == M!Running(M!Original) = {}
Exec(p) == pods[p].phase = "Running" /\ pods[p].owner = M!Maint

\* Wrong: the monmap is injected as it was extracted.
ExtractOnly ==
  /\ StoreIsFree
  /\ \E p \in Pods : Exec(p) /\ file' = [pod |-> p, mons |-> store]
  /\ Goto("extract", "inject")
  /\ todo' = BadMons
  /\ UNCHANGED <<maintVars, operatorVars, monVars, read, probes, heard, runs>>

Extract ==
  /\ StoreIsFree
  /\ \E p \in Pods : Exec(p) /\ file' = [pod |-> p, mons |-> store]
  /\ Goto("extract", IF BadMons = {} THEN "inject" ELSE "remove")
  /\ todo' = BadMons
  /\ UNCHANGED <<maintVars, operatorVars, monVars, read, probes, heard, runs>>

\* Wrong: one that is absent is no error.
RemoveIfAny(m) ==
  /\ m \in todo /\ file.pod # NoPodName /\ Exec(file.pod)
  /\ Goto("remove", IF todo = {m} THEN "inject" ELSE "remove")
  /\ file' = [file EXCEPT !.mons = @ \ {m}] /\ todo' = todo \ {m}
  /\ UNCHANGED <<maintVars, operatorVars, monVars, read, probes, heard, runs>>

\* monmaptool --rm of a mon the monmap does not have is an error.
Remove(m) ==
  /\ m \in todo /\ file.pod # NoPodName /\ Exec(file.pod)
  /\ m \in file.mons
  /\ Goto("remove", IF todo = {m} THEN "inject" ELSE "remove")
  /\ file' = [file EXCEPT !.mons = @ \ {m}] /\ todo' = todo \ {m}
  /\ UNCHANGED <<maintVars, operatorVars, monVars, read, probes, heard, runs>>

Inject ==
  /\ file.pod # NoPodName /\ Exec(file.pod) /\ StoreIsFree
  /\ Goto("inject", "updateCM")
  /\ store' = file.mons
  /\ UNCHANGED <<maintVars, operatorVars, cm, version, resources, scale, lost,
                 read, todo, file, probes, heard, runs>>

\* Update of the ConfigMap as it was read, with the good mon alone; the error of
\* a conflict, or of any other kind, is logged and the restore goes on.
UpdateCM ==
  /\ Goto("updateCM", "callStop")
  /\ \/ version = read.version /\ cm' = {Good} /\ version' = version + 1
     \/ UNCHANGED <<cm, version>>
  /\ UNCHANGED <<maintVars, operatorVars, store, resources, scale, lost,
                 read, todo, file, probes, heard, runs>>

Up(m) == IF m = Good THEN \E p \in M!Running(M!Original) : ~pods[p].terminating
                     ELSE scale[m] = 1 /\ m \notin lost

QuorumUp == Up(Good) /\ 2 * Cardinality({m \in store : Up(m)}) > Cardinality(store)

\* What the loop of polls ends in.
AfterProbe == IF BadMons = {} THEN "restored" ELSE "purge"

\* Wrong: one poll too many.
OnePollMore == probes = MaxProbes

LastPoll == probes + 1 = MaxProbes

\* One poll of waitForMonStatusResponse.  An answer is accepted when it has
\* HEALTH_OK, HEALTH_WARN or HEALTH_ERROR in it; Ceph says HEALTH_ERR.  The
\* timeout is reported by a last poll that got another answer: after a last
\* poll that got none, the loop just ends.
Probe ==
  /\ rq = "probe"
  /\ LET answered == QuorumUp /\ heard' = TRUE
         goOn == rq' = AfterProbe /\ todo' = BadMons /\ probes' = 0 /\ UNCHANGED <<read, file>>
     IN \/ LastPoll /\ goOn /\ UNCHANGED heard               \* no answer
        \/ LastPoll /\ answered /\ End("timedOut")           \* HEALTH_ERR
        \/ answered /\ goOn                              \* HEALTH_OK, HEALTH_WARN
        \/ /\ ~LastPoll /\ (answered \/ UNCHANGED heard)
           /\ probes' = probes + 1 /\ UNCHANGED <<rq, read, todo, file>>
  /\ UNCHANGED <<maintVars, operatorVars, monVars, runs>>

\* removeBadMonsResources: a missing deployment is an error, a missing service
\* or volume claim is not.
Purge(m) ==
  /\ m \in todo /\ "deployment" \in resources[m]
  /\ Goto("purge", "deleteService")
  /\ resources' = [resources EXCEPT ![m] = @ \ {"deployment"}]
  /\ scale' = [scale EXCEPT ![m] = 0]
  /\ UNCHANGED <<maintVars, operatorVars, cm, version, store, lost,
                 read, todo, file, probes, heard, runs>>

\* the mon of the round is the one whose deployment this round deleted
DeleteService(m) ==
  /\ m \in todo /\ "deployment" \notin resources[m]
  /\ Goto("deleteService", "deletePVC")
  /\ resources' = [resources EXCEPT ![m] = @ \ {"service"}]
  /\ UNCHANGED <<maintVars, operatorVars, cm, version, store, scale, lost,
                 read, todo, file, probes, heard, runs>>

DeletePVC(m) ==
  /\ m \in todo /\ "deployment" \notin resources[m]
  /\ Goto("deletePVC", IF todo = {m} THEN "restored" ELSE "purge")
  /\ resources' = [resources EXCEPT ![m] = @ \ {"pvc"}]
  /\ todo' = todo \ {m}
  /\ UNCHANGED <<maintVars, operatorVars, cm, version, store, scale, lost,
                 read, file, probes, heard, runs>>

Die ==
  /\ rq \notin Idle /\ End("failed")
  /\ IF pc["cli"] \in M!Returned THEN UNCHANGED maintVars ELSE M!Abort("cli")
  /\ heard' = FALSE
  /\ UNCHANGED <<operatorVars, monVars, runs>>

\* Die for a reason of its own: the call it makes fails, or the maintenance command
\* it called has given up (logging.Fatal).  Any other Die is a kill.
Fail ==
  /\ rq \notin {"prompt", "restored"}
  /\ rq \in {"inStart", "inStop"} => pc["cli"] = "failed"
  /\ Die

RestoreStep ==
  \/ Validate \/ GetCM \/ ScaleOperator \/ Call \/ Return \/ GetMaintenance
  \/ Extract \/ Inject \/ UpdateCM \/ Probe
  \/ \E m \in Mons : ScaleBad(m) \/ Remove(m) \/ Purge(m) \/ DeleteService(m) \/ DeletePVC(m)

\* The steps of a maintenance command, called or run by the user.
MaintStep == M!Step("cli") /\ UNCHANGED <<operatorVars, monVars, localVars>>

-----------------------------------------------------------------------------
(* The user, and the cluster (external). *)

UserStopsMaintenance ==
  /\ rq \in Idle /\ M!BeginStop("cli")
  /\ UNCHANGED <<operatorVars, monVars, localVars>>

UserStartsOperator ==
  /\ rq \in Idle /\ opScale = 0 /\ opScale' = 1
  /\ UNCHANGED <<maintVars, opPod, spare, monVars, localVars>>

OperatorPod ==
  /\ opPod # (opScale = 1) /\ opPod' = (opScale = 1)
  /\ UNCHANGED <<maintVars, opScale, spare, monVars, localVars>>

\* While its pod runs, the operator may add a mon, and scales up the mons it
\* knows of, save one whose maintenance deployment says do-not-reconcile.
OperatorFailover ==
  /\ opPod /\ spare = "unborn" /\ spare' = "created"
  /\ cm' = cm \cup {Spare} /\ version' = version + 1
  /\ resources' = [resources EXCEPT ![Spare] = {"deployment", "service", "pvc"}]
  /\ scale' = [scale EXCEPT ![Spare] = 1]
  /\ UNCHANGED <<maintVars, opScale, opPod, store, lost, localVars>>

OperatorReconcile(m) ==
  /\ opPod /\ m \in cm
  /\ \/ /\ m # Good /\ "deployment" \in resources[m] /\ scale[m] = 0
        /\ scale' = [scale EXCEPT ![m] = 1] /\ UNCHANGED replicas
     \/ /\ m = Good /\ M!Maint \notin deployed /\ replicas[M!Original] = 0
        /\ replicas' = [replicas EXCEPT ![M!Original] = 1] /\ UNCHANGED scale
  /\ UNCHANGED <<deployed, pods, pc, tries, copied, stranded, operatorVars,
                 cm, version, store, resources, lost, localVars>>

\* A new mon joins a quorum once; a mon that was removed from the monmap after
\* it had joined does not come back (Ceph makes it exit).
SpareJoins ==
  /\ spare = "created" /\ QuorumUp /\ Up(Spare)
  /\ spare' = "joined" /\ store' = store \cup {Spare}
  /\ UNCHANGED <<maintVars, opScale, opPod, cm, version, resources, scale, lost, localVars>>

\* A file in a pod is gone with the pod.
GoodMonPods ==
  /\ M!Kubernetes
  /\ file' = IF file.pod # NoPodName /\ pods'[file.pod].phase = "none" THEN NoFile ELSE file
  /\ UNCHANGED <<operatorVars, monVars, rq, read, todo, probes, heard, runs>>

Environment ==
  \/ UserStopsMaintenance \/ UserStartsOperator \/ OperatorPod \/ OperatorFailover
  \/ SpareJoins \/ GoodMonPods \/ \E m \in Mons : OperatorReconcile(m)

Next == Begin \/ AnswerPrompt \/ RestoreStep \/ MaintStep \/ Die \/ Environment

\* The process makes its next call, or ends with a call that fails: one whose
\* condition stays false does.  A maintenance command it called goes on by itself.
\* Nobody need kill the process, nor answer a prompt, and pods need not come up.
Fairness == WF_vars(RestoreStep \/ Fail) /\ WF_vars(MaintStep)

Spec == Init /\ [][Next]_vars /\ Fairness

-----------------------------------------------------------------------------
(* Properties. *)

\* The volume of a mon is deleted only when the good mon's monmap no longer has
\* it, over any number of restores, cut off anywhere, and whatever the operator
\* does before its pod is gone: no quorum ever needs a mon that was purged.
PurgedMonsAreForgotten ==
  \A m \in Mons : "pvc" \notin resources[m] => m \notin store

\* A mon is listed in the ConfigMap and no longer in the monmap, and no restore
\* is past the surgery: what one cut off right after it leaves behind.
HalfRestored ==
  /\ \E m \in cm \cap Bad : m \notin store
  /\ rq \in Idle \cup {"validate", "getCM", "prompt", "scaleOperator", "scaleBad", "callStart",
                      "inStart", "getMaintenance", "extract", "remove"}

\* No later restore completes it: monmaptool refuses to remove what is no longer
\* in the monmap, so the ConfigMap goes on listing the discarded mons.
HalfRestoredStays == [][HalfRestored => HalfRestored']_vars

\* The command asks its user or returns: none of its loops goes on for ever.
RestoreReturns == rq \notin Idle ~> rq \in Idle \cup {"prompt", "restored"}

\* docs/mons.md:115, "Check that the restored mon is responding": the bad mons are
\* purged only when `ceph status' was answered since the good mon restarted.
ResponseBeforePurge ==
  rq \in {"purge", "deleteService", "deletePVC"} => heard
=============================================================================
