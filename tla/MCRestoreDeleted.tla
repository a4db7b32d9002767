-------------------------- MODULE MCRestoreDeleted --------------------------
EXTENDS RestoreDeleted, TLC
CONSTANTS cluster1, cluster2, keyring, osd, claim
ParentOf == keyring :> cluster1 @@ osd :> cluster1 @@ claim :> cluster2
KindsOf == keyring :> "secrets" @@ osd :> "deployments" @@ claim :> "pvcs"
=============================================================================
