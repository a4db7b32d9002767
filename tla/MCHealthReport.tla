--------------------------- MODULE MCHealthReport ---------------------------
(***************************************************************************)
(* The clusters of the run: a healthy one with three mons, three OSDs, a   *)
(* mgr and the operator, and what it is like with one or two faults.       *)
(***************************************************************************)
EXTENDS HealthReport

CONSTANT MaxFaults     \* bound: faults a cluster has at a time

PodOf(app, name, ns, node) ==
  [app |-> app, name |-> name, ns |-> ns, phase |-> "Running", node |-> node]

Daemons(app) == {PodOf(app, "1", ClusterNs, "n1"), PodOf(app, "2", ClusterNs, "n2"),
                 PodOf(app, "3", ClusterNs, "n3")}

Healthy(ns, ocp) ==
  [operatorNs |-> ns, openshift |-> ocp, mtu |-> 8900,
   pods |-> Daemons("mon") \cup Daemons("osd")
            \cup {PodOf("mgr", "a", ClusterNs, "n1"), PodOf("operator", "op", ns, "n2"),
                  PodOf("other", "csi", ns, "n3"),
                  [PodOf("other", "job", ClusterNs, "n1") EXCEPT !.phase = "Succeeded"]},
   nodes |-> {[name |-> n, ready |-> TRUE, pressure |-> FALSE] : n \in {"n1", "n2", "n3"}},
   monmap |-> {"a", "b", "c"}, numMons |-> 3, mons |-> {"a", "b", "c"},
   quorum |-> {"a", "b", "c"}, pgs |-> <<"clean", "clean">>,
   health |-> "HEALTH_OK", checks |-> {}]

\* Three concern what `ceph -s' prints of the mons, when one is out: no list, as in the
\* output of docs/ceph.md, no number, or the mons of another monmap.
Faults == {"mon moved", "mon pending", "osd pending", "no mgr", "csi pending", "job pending",
           "operator gone", "mon out", "no list", "no number", "other monmap", "quorum lost",
           "unclean down", "down unclean", "unclean", "warning", "error", "no health",
           "near full", "full", "pressure", "not ready", "mtu"}

Phase(pods, app, name, phase) ==
  {IF p.app = app /\ p.name = name THEN [p EXCEPT !.phase = phase] ELSE p : p \in pods}

Codes(severity) == {[capacity |-> TRUE, severity |-> severity],
                    [capacity |-> FALSE, severity |-> "HEALTH_WARN"]}

With(c, f) ==
  CASE f = "mon moved" -> [c EXCEPT !.pods = {IF p.app = "mon" /\ p.name = "2"
                                                THEN [p EXCEPT !.node = "n1"] ELSE p : p \in @}]
    [] f = "mon pending" -> [c EXCEPT !.pods = Phase(@, "mon", "3", "Pending")]
    [] f = "osd pending" -> [c EXCEPT !.pods = Phase(@, "osd", "1", "Pending")]
    [] f = "no mgr" -> [c EXCEPT !.pods = Phase(@, "mgr", "a", "Pending")]
    [] f = "csi pending" -> [c EXCEPT !.pods = Phase(@, "other", "csi", "Pending")]
    [] f = "job pending" -> [c EXCEPT !.pods = Phase(@, "other", "job", "Pending")]
    [] f = "operator gone" -> [c EXCEPT !.pods = Phase(@, "operator", "op", "Pending")]
    [] f = "mon out" -> [c EXCEPT !.quorum = {"a", "b"}]
    [] f = "no list" -> [c EXCEPT !.quorum = {"a", "b"}, !.mons = {}]
    [] f = "no number" -> [c EXCEPT !.quorum = {"a", "b"}, !.numMons = 0]
    [] f = "other monmap" ->
         [c EXCEPT !.quorum = {"a", "b"}, !.numMons = 5, !.mons = @ \cup {"d", "e"}]
    [] f = "quorum lost" -> [c EXCEPT !.quorum = {"a"}]
    [] f = "unclean down" -> [c EXCEPT !.pgs = <<"unclean", "down">>]
    [] f = "down unclean" -> [c EXCEPT !.pgs = <<"down", "unclean">>]
    [] f = "unclean" -> [c EXCEPT !.pgs = <<"unclean", "clean">>]
    [] f = "warning" -> [c EXCEPT !.health = "HEALTH_WARN"]
    [] f = "error" -> [c EXCEPT !.health = "HEALTH_ERR"]
    [] f = "no health" -> [c EXCEPT !.health = ""]
    [] f = "near full" -> [c EXCEPT !.checks = Codes("HEALTH_WARN")]
    [] f = "full" -> [c EXCEPT !.checks = Codes("HEALTH_ERR")]
    [] f = "pressure" -> [c EXCEPT !.nodes = {[n EXCEPT !.pressure = n.name = "n1"] : n \in @}]
    [] f = "not ready" -> [c EXCEPT !.nodes = {[n EXCEPT !.ready = n.name # "n1"] : n \in @}]
    [] f = "mtu" -> [c EXCEPT !.mtu = 8899]

MCClusters ==
  LET healthy == {Healthy("rook-ceph", FALSE), Healthy("rook-operator", TRUE)}
      one == {With(c, f) : c \in healthy, f \in Faults}
      two == {With(c, f) : c \in one, f \in Faults}
  IN healthy \cup one \cup (IF MaxFaults = 2 THEN two ELSE {})
=============================================================================
