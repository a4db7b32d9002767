-------------------------- MODULE MCCephFsCleanup --------------------------
EXTENDS CephFsCleanup, TLC
CONSTANTS v1, s1, s2
SnapsOfBoth == s1 :> v1 @@ s2 :> v1
\* As Rook sets it up; with a prefix for snapshots, over CephFS and over NFS; and with
\* a prefix for volumes and a handle of another version.
FourSetups ==
  {[nfs |-> n, odd |-> {}, custom |-> {s2}] : n \in {{}, {v1}}}
    \cup {[nfs |-> {}, odd |-> {}, custom |-> {}],
          [nfs |-> {}, odd |-> {s1}, custom |-> {v1}]}
=============================================================================
