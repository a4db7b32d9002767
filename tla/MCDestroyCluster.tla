-------------------------- MODULE MCDestroyCluster --------------------------
EXTENDS DestroyCluster
KindOfCR == [c \in CRs |-> IF c = "cluster" THEN 1 ELSE 2]
AppOfWorkload ==
  [w \in Workloads |-> CASE w = "tools" -> "rook-ceph-tools"
                         [] w \in {"osd", "prepare"} -> "rook-ceph-osd"
                         [] OTHER -> "rook-ceph-mon"]
=============================================================================
