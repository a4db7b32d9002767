----------------------------- MODULE MCRbdImages -----------------------------
EXTENDS RbdImages, TLC

CONSTANTS clone, snapshot, other, plain, split, n1, n2

MCVolumes == {clone, snapshot, other}

MCSource == (clone :> "PersistentVolumeClaim") @@ (snapshot :> "VolumeSnapshot") @@ (other :> "other kind")

\* One pool has no rados namespaces, the other one two, the first of them empty.
MCPools == {plain, split}
MCNamespaceList == (plain :> <<>>) @@ (split :> <<n1, n2>>)
MCSpace == (clone :> plain) @@ (snapshot :> plain) @@ (other :> n2)

UsersAreAlike == Permutations(Users)
=============================================================================
