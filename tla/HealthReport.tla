---------------------------- MODULE HealthReport ----------------------------
(***************************************************************************)
(* `kubectl rook-ceph health' (pkg/health): the checks of one report, call *)
(* by call, on a cluster that changes meanwhile.                           *)
(*                                                                         *)
(* `ceph -s' is asked once, first, and its answer serves four of the       *)
(* checks; the others ask the API server, or Ceph again, when their turn   *)
(* comes.  Any call may fail, a Ceph command also because there is no      *)
(* quorum; the report goes on.  What Ceph prints of its monmap, a count    *)
(* and a list, is not taken for the monmap: either may be missing, or      *)
(* wrong.                                                                  *)
(***************************************************************************)
EXTENDS Integers, FiniteSets, Sequences

CONSTANTS
  Clusters,      \* what a cluster can be like
  MaxSeen,       \* bound: how many of them the cluster is like during one report
  MaxFailures    \* bound: calls of one report that fail for no reason in the model

\* types.go: the severities, by their iota.
StatusOK == 0
StatusWarning == 1
StatusCritical == 2
StatusError == 3
NoResult == -1

Worse(a, b) == IF a > b THEN a ELSE b

MonDistribution == "Mon Distribution"
CephClusterHealth == "Ceph Cluster Health"
OSDDistribution == "OSD Distribution"
PodsStatus == "Pods Status"
PGStatus == "PG Status"
MGRStatus == "MGR Status"
NodePressure == "Node Resource Pressure"
ClusterCapacity == "Cluster Capacity"
NetworkMTU == "Network MTU Config"

StandardChecks == {MonDistribution, CephClusterHealth, OSDDistribution, PodsStatus,
                   PGStatus, MGRStatus, NodePressure, ClusterCapacity}
Checks == StandardChecks \cup {NetworkMTU}

PGStates == {"clean", "unclean", "down"}     \* healthy, not healthy, and of those the worst
Severities == {"HEALTH_WARN", "HEALTH_ERR"}
HealthCodes == {"HEALTH_OK"} \cup Severities
Pod == [app : {"mon", "osd", "mgr", "operator", "other"}, name : STRING, ns : STRING,
        phase : {"Running", "Succeeded", "Pending"}, node : STRING]
Node == [name : STRING, ready : BOOLEAN, pressure : BOOLEAN]

\* The fields of a cluster; numMons to checks are what `ceph -s' tells of it, of its monmap
\* a number and a list of mons (0 and none when they are missing).
Cluster ==
  [operatorNs : STRING, pods : SUBSET Pod, nodes : SUBSET Node, monmap : SUBSET STRING,
   numMons : Nat, mons : SUBSET STRING, quorum : SUBSET STRING, pgs : Seq(PGStates),
   health : STRING,
   checks : SUBSET [capacity : BOOLEAN, severity : Severities],
   openshift : BOOLEAN, mtu : Nat]

ASSUME ClustersAssumption ==
  /\ \A c \in Clusters :
       /\ c \in Cluster /\ c.quorum \subseteq c.monmap
       /\ IsFiniteSet(c.pods) /\ IsFiniteSet(c.monmap)
  /\ MaxSeen \in Nat /\ MaxFailures \in Nat

VARIABLES
  cluster,    \* the cluster as it is now
  pc,         \* label: what the process does next
  status,     \* cephStatus, with the error of the call that asked for it
  openshift,  \* the MTU check is one of the checks
  unfit,      \* podNotRunning: pods of the operator's namespace that do not run
  rest,       \* the PG states still to look at
  worst,      \* overallStatus of the PG states so far
  results,    \* [Checks -> severities], NoResult before the check
  seen,       \* history: what the cluster was like since the report was begun
  failed      \* history: the calls that failed

process == <<pc, status, openshift, unfit, rest, worst, results>>
vars == <<cluster, process, seen, failed>>

ClusterNs == "rook-ceph"

StatusOf(c) == [err |-> FALSE, numMons |-> c.numMons, mons |-> c.mons, quorum |-> c.quorum,
                pgs |-> c.pgs, health |-> c.health, checks |-> c.checks]
NoStatus == [err |-> TRUE, numMons |-> 0, mons |-> {}, quorum |-> {}, pgs |-> <<>>,
             health |-> "", checks |-> {}]
Labels == {"idle", "status", "openshift", "mons", "health", "osds", "pods", "clusterPods",
           "pgs", "pg", "mgr", "nodes", "capacity", "mtu", "done"}
Calls == Labels \ {"idle", "health", "pgs", "pg", "done"}

TypeOK ==
  /\ cluster \in Clusters /\ pc \in Labels
  /\ status \in {StatusOf(c) : c \in Clusters} \cup {NoStatus}
  /\ openshift \in BOOLEAN /\ unfit \in SUBSET Pod
  /\ rest \in Seq(PGStates) /\ worst \in StatusOK..StatusCritical
  /\ results \in [Checks -> NoResult..StatusError]
  /\ seen \subseteq Clusters /\ failed \subseteq Calls

NoResults == [k \in Checks |-> NoResult]

Init ==
  /\ cluster \in Clusters /\ pc = "idle" /\ status = NoStatus /\ openshift = FALSE
  /\ unfit = {} /\ rest = <<>> /\ worst = StatusOK /\ results = NoResults
  /\ seen = {} /\ failed = {}

\* A process ends: the next one knows nothing.
Forget ==
  /\ status' = NoStatus /\ openshift' = FALSE
  /\ unfit' = {} /\ rest' = <<>> /\ worst' = StatusOK /\ results' = NoResults
  /\ seen' = {} /\ failed' = {}

-----------------------------------------------------------------------------
(* The calls. *)

Goto(from, to) == pc = from /\ pc' = to

Conclude(check, verdict) == results' = [results EXCEPT ![check] = verdict]

Answered == UNCHANGED failed

Fails(call) == Cardinality(failed) < MaxFailures /\ failed' = failed \cup {call}

OperatorRuns == \E p \in cluster.pods : p.app = "operator" /\ p.phase = "Running"

Majority(n) == n \div 2 + 1

\* A Ceph command is run in the operator's pod and answered by the quorum.
CephAnswers ==
  OperatorRuns /\ Cardinality(cluster.quorum) >= Majority(Cardinality(cluster.monmap))

CephFails(call) == failed' = failed \cup {call} /\ (~CephAnswers \/ Fails(call))

\* A check with one call, which is made now and answered, or not.
Check(check, call, verdict, withoutAnswer) ==
  \/ Answered /\ Conclude(check, verdict)
  \/ Fails(call) /\ Conclude(check, withoutAnswer)

Pods(app) == {p \in cluster.pods : p.app = app /\ p.ns = ClusterNs}

-----------------------------------------------------------------------------
(* The checks. *)

Begin ==
  /\ Goto("idle", "status") /\ OperatorRuns     \* verifyOperatorPodIsRunning
  /\ seen' = {cluster}
  /\ UNCHANGED <<cluster, status, openshift, unfit, rest, worst, results, failed>>

\* The report is printed.
FormatReport ==
  /\ Goto("done", "idle") /\ Forget
  /\ UNCHANGED cluster

UnMarshalCephStatus ==
  /\ Goto("status", "openshift")
  /\ \/ CephAnswers /\ Answered /\ status' = StatusOf(cluster)
     \/ CephFails("status") /\ status' = NoStatus
  /\ UNCHANGED <<cluster, openshift, unfit, rest, worst, results, seen>>

\* No network configuration of OpenShift: no OpenShift.
IsOpenShiftCluster ==
  /\ Goto("openshift", "mons")
  /\ \/ Answered /\ openshift' = cluster.openshift
     \/ Fails("openshift") /\ openshift' = FALSE
  /\ UNCHANGED <<cluster, status, unfit, rest, worst, results, seen>>

PodsOnNodes(app) ==
  LET running == {p \in Pods(app) : p.phase = "Running"}
      uniqueNodes == {p.node : p \in running} \ {""}
  IN IF running # Pods(app) \/ Cardinality(uniqueNodes) < 3 THEN StatusWarning ELSE StatusOK

\* Wrong: as long as there is a majority, all is well.
QuorumIsEnough ==
  IF Cardinality(status.quorum) >= Majority(status.numMons) THEN StatusOK ELSE StatusCritical

\* Without a number of mons there are no data; the mons out of quorum are those of the list.
EvaluateMonQuorum ==
  IF status.numMons = 0 \/ status.mons \subseteq status.quorum THEN StatusOK
  ELSE IF Cardinality(status.quorum) >= Majority(status.numMons) THEN StatusWarning
  ELSE StatusCritical

CheckMonDistribution ==
  LET verdict(pods) == IF status.err THEN StatusError ELSE Worse(pods, EvaluateMonQuorum)
  IN /\ Goto("mons", "health")
     /\ Check(MonDistribution, "mons", verdict(PodsOnNodes("mon")), verdict(StatusError))
     /\ UNCHANGED <<cluster, status, openshift, unfit, rest, worst, seen>>

CheckCephClusterHealth ==
  /\ Goto("health", "osds")
  /\ Conclude(CephClusterHealth, CASE status.err -> StatusError
                                   [] status.health = "HEALTH_OK" -> StatusOK
                                   [] status.health = "HEALTH_WARN" -> StatusWarning
                                   [] status.health = "HEALTH_ERR" -> StatusCritical
                                   [] OTHER -> StatusError)
  /\ UNCHANGED <<cluster, status, openshift, unfit, rest, worst, seen, failed>>

CheckOSDDistribution ==
  /\ Goto("osds", "pods")
  /\ Check(OSDDistribution, "osds", PodsOnNodes("osd"), StatusError)
  /\ UNCHANGED <<cluster, status, openshift, unfit, rest, worst, seen>>

NotRunning(ns) == {p \in cluster.pods : p.ns = ns /\ p.phase \notin {"Running", "Succeeded"}}

PodsVerdict(notRunning) == IF notRunning = {} THEN StatusOK ELSE StatusWarning

\* The pods of the operator's namespace, which may be that of the cluster too.
CheckAllPodsStatus ==
  /\ pc = "pods"
  /\ \/ /\ Answered /\ unfit' = NotRunning(cluster.operatorNs)
        /\ IF cluster.operatorNs = ClusterNs
             THEN pc' = "pgs" /\ Conclude(PodsStatus, PodsVerdict(unfit'))
             ELSE pc' = "clusterPods" /\ UNCHANGED results
     \/ /\ Fails("pods") /\ pc' = "pgs" /\ Conclude(PodsStatus, StatusError)
        /\ UNCHANGED unfit
  /\ UNCHANGED <<cluster, status, openshift, rest, worst, seen>>

\* Wrong: what is known of the first namespace stands for both.
OneNamespaceWillDo ==
  /\ Goto("clusterPods", "pgs")
  /\ Check(PodsStatus, "clusterPods", PodsVerdict(unfit \cup NotRunning(ClusterNs)),
           PodsVerdict(unfit))
  /\ UNCHANGED <<cluster, status, openshift, unfit, rest, worst, seen>>

CheckClusterPods ==
  /\ Goto("clusterPods", "pgs")
  /\ Check(PodsStatus, "clusterPods", PodsVerdict(unfit \cup NotRunning(ClusterNs)),
           StatusError)
  /\ UNCHANGED <<cluster, status, openshift, unfit, rest, worst, seen>>

CheckPGStatus ==
  /\ pc = "pgs"
  /\ IF status.err
       THEN pc' = "mgr" /\ Conclude(PGStatus, StatusError) /\ UNCHANGED <<rest, worst>>
       ELSE pc' = "pg" /\ rest' = status.pgs /\ worst' = StatusOK /\ UNCHANGED results
  /\ UNCHANGED <<cluster, status, openshift, unfit, seen, failed>>

\* Wrong: the last state that is not healthy decides.
LastPGDecides(state) ==
  CASE state = "clean" -> worst [] state = "down" -> StatusCritical [] OTHER -> StatusWarning

\* Wrong: the worst state is one severity too bad.
DownIsAnError(state) ==
  CASE state = "clean" -> worst [] state = "down" -> StatusError [] OTHER -> StatusWarning

\* A state that is not healthy does not make up for a critical one before it.
WithPG(state) ==
  CASE state = "clean" -> worst
    [] state = "down" -> StatusCritical
    [] OTHER -> IF worst # StatusCritical THEN StatusWarning ELSE worst

NextPG ==
  /\ pc = "pg" /\ rest # <<>>
  /\ worst' = WithPG(Head(rest)) /\ rest' = Tail(rest)
  /\ UNCHANGED <<cluster, pc, status, openshift, unfit, results, seen, failed>>

PGsDone ==
  /\ rest = <<>> /\ Goto("pg", "mgr") /\ Conclude(PGStatus, worst)
  /\ UNCHANGED <<cluster, status, openshift, unfit, rest, worst, seen, failed>>

CheckMGRStatus ==
  /\ Goto("mgr", "nodes")
  /\ Check(MGRStatus, "mgr",
           IF \E p \in Pods("mgr") : p.phase = "Running" THEN StatusOK ELSE StatusWarning,
           StatusError)
  /\ UNCHANGED <<cluster, status, openshift, unfit, rest, worst, seen>>

NodesVerdict ==
  IF \E n \in cluster.nodes : ~n.ready THEN StatusCritical
  ELSE IF \E n \in cluster.nodes : n.pressure THEN StatusWarning ELSE StatusOK

CheckNodeResourcePressure ==
  /\ Goto("nodes", "capacity")
  /\ Check(NodePressure, "nodes", NodesVerdict, StatusError)
  /\ UNCHANGED <<cluster, status, openshift, unfit, rest, worst, seen>>

CapacityStatusFromHealth ==
  LET codes == {k \in status.checks : k.capacity}
  IN IF \E k \in codes : k.severity = "HEALTH_ERR" THEN StatusCritical
     ELSE IF codes # {} THEN StatusWarning ELSE StatusOK

\* `ceph df' is asked, but the verdict is that of the first answer, if there was one.
CheckClusterCapacity ==
  /\ Goto("capacity", IF openshift THEN "mtu" ELSE "done")
  /\ \/ CephAnswers /\ Answered
        /\ Conclude(ClusterCapacity, IF status.err THEN StatusOK ELSE CapacityStatusFromHealth)
     \/ CephFails("capacity") /\ Conclude(ClusterCapacity, StatusError)
  /\ UNCHANGED <<cluster, status, openshift, unfit, rest, worst, seen>>

mtuWarningThreshold == 8900

\* An MTU that cannot be read is no reason for a warning.
CheckNetworkMTUConfig ==
  /\ Goto("mtu", "done")
  /\ Check(NetworkMTU, "mtu",
           IF cluster.mtu >= mtuWarningThreshold THEN StatusOK ELSE StatusWarning, StatusOK)
  /\ UNCHANGED <<cluster, status, openshift, unfit, rest, worst, seen>>

-----------------------------------------------------------------------------
(* The cluster (external). *)

Change(c) ==
  /\ pc # "done" /\ c.operatorNs = cluster.operatorNs /\ c.openshift = cluster.openshift
  /\ cluster' = c /\ seen' = (IF pc = "idle" THEN {} ELSE seen \cup {c})
  /\ Cardinality(seen') <= MaxSeen
  /\ UNCHANGED <<process, failed>>

Health ==
  \/ Begin \/ FormatReport \/ UnMarshalCephStatus \/ IsOpenShiftCluster
  \/ CheckMonDistribution \/ CheckCephClusterHealth \/ CheckOSDDistribution
  \/ CheckAllPodsStatus \/ CheckClusterPods
  \/ CheckPGStatus \/ NextPG \/ PGsDone
  \/ CheckMGRStatus \/ CheckNodeResourcePressure \/ CheckClusterCapacity
  \/ CheckNetworkMTUConfig

Next == Health \/ \E c \in Clusters : Change(c)

Spec == Init /\ [][Next]_vars

-----------------------------------------------------------------------------
(* Properties. *)

\* docs/health.md:5-10, and for the checks it does not name the comments of the code.
DaemonsFine(app, c) ==
  LET pods == {p \in c.pods : p.app = app /\ p.ns = ClusterNs}
  IN /\ \A p \in pods : p.phase = "Running"
     /\ \E p, q, r \in pods :
          /\ p.node # q.node /\ q.node # r.node /\ r.node # p.node
          /\ "" \notin {p.node, q.node, r.node}

\* The answer names no mon out of quorum.  Without a number of mons it has no data on them
\* (health.go:401); a list that is missing names none.
QuorumFine(c) == c.numMons = 0 \/ c.mons \subseteq c.quorum

\* It names one, and not half of the mons it counts, and one more, are in quorum.
QuorumLost(c) == ~QuorumFine(c) /\ 2 * Cardinality(c.quorum) <= c.numMons

PGsFine(c) == \A i \in DOMAIN c.pgs : c.pgs[i] = "clean"
CapacityFine(c) == \A k \in c.checks : ~k.capacity
PodsFine(ns, c) == \A p \in c.pods : p.ns = ns => p.phase \in {"Running", "Succeeded"}

Fine(check, c) ==
  CASE check = MonDistribution -> DaemonsFine("mon", c) /\ QuorumFine(c)
    [] check = CephClusterHealth -> c.health = "HEALTH_OK"
    [] check = OSDDistribution -> DaemonsFine("osd", c)
    [] check = PodsStatus -> PodsFine(c.operatorNs, c) /\ PodsFine(ClusterNs, c)
    [] check = PGStatus -> PGsFine(c)
    [] check = MGRStatus ->
         \E p \in c.pods : p.app = "mgr" /\ p.ns = ClusterNs /\ p.phase = "Running"
    [] check = NodePressure -> \A n \in c.nodes : n.ready /\ ~n.pressure
    [] check = ClusterCapacity -> CapacityFine(c)
    [] check = NetworkMTU -> c.mtu >= 8900

Severe(check, c) ==
  CASE check = MonDistribution -> QuorumLost(c)
    [] check = CephClusterHealth -> c.health = "HEALTH_ERR"
    [] check = PGStatus -> \E i \in DOMAIN c.pgs : c.pgs[i] = "down"
    [] check = NodePressure -> \E n \in c.nodes : ~n.ready
    [] check = ClusterCapacity -> [capacity |-> TRUE, severity |-> "HEALTH_ERR"] \in c.checks
    [] OTHER -> FALSE

ChecksOf(c) == StandardChecks \cup (IF c.openshift THEN {NetworkMTU} ELSE {})

\* The health is none of Ceph's codes (health.go:228-230).
Unexpected(check, c) == check = CephClusterHealth /\ c.health \notin HealthCodes

\* A cluster that does not change while it is asked, and answers, gets the report it
\* deserves: which checks are OK, which are critical and which an error, whatever the
\* order of the PG states and of the codes of Ceph, and whatever Ceph prints of its mons.
SteadyIsReported ==
  pc = "done" /\ seen = {cluster} /\ failed = {} =>
    \A k \in ChecksOf(cluster) :
      /\ results[k] = StatusError <=> Unexpected(k, cluster)
      /\ results[k] = StatusOK <=> Fine(k, cluster)
      /\ results[k] = StatusCritical <=> Severe(k, cluster)

\* A report without a fault was never far from the truth, however the cluster changed
\* meanwhile: what Ceph was asked for held together at one time, and each list of the
\* pods and nodes was right at some time -- but the two lists of pods maybe at
\* different times, as the pods of the mons and their quorum.  That every mon was in
\* quorum it says only if Ceph printed the number of the mons and all of them.
AllClearWasClear ==
  pc = "done" /\ (\A k \in StandardChecks : results[k] = StatusOK) =>
    /\ \E c \in seen :
         /\ c.numMons # 0 /\ c.monmap \subseteq c.mons => c.monmap = c.quorum
         /\ PGsFine(c) /\ CapacityFine(c) /\ c.health = "HEALTH_OK"
    /\ \E c \in seen : DaemonsFine("mon", c)
    /\ \A ns \in {cluster.operatorNs, ClusterNs} : \E c \in seen : PodsFine(ns, c)
    /\ \A k \in {OSDDistribution, MGRStatus, NodePressure} : \E c \in seen : Fine(k, c)

CallsOf(check) ==
  CASE check = MonDistribution -> {"status", "mons"}
    [] check \in {CephClusterHealth, PGStatus} -> {"status"}
    [] check = OSDDistribution -> {"osds"}
    [] check = PodsStatus -> {"pods", "clusterPods"}
    [] check = MGRStatus -> {"mgr"}
    [] check = NodePressure -> {"nodes"}
    [] check = ClusterCapacity -> {"capacity"}
    [] check = NetworkMTU -> {}

\* No failed call is lost on the report, and an error in it has its reason: a check is an
\* error if and only if a call it rests on failed (that of the MTU has none), or if Ceph
\* answered with a health that was the cluster's at some time and is none of its codes.
ErrorsHaveReasons ==
  pc = "done" =>
    /\ \A k \in Checks : results[k] = StatusError <=> \/ CallsOf(k) \cap failed # {}
                                                     \/ Unexpected(k, status)
    /\ Unexpected(CephClusterHealth, status) /\ "status" \notin failed =>
         \E c \in seen : Unexpected(CephClusterHealth, c)
=============================================================================
