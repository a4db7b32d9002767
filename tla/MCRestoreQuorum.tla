-------------------------- MODULE MCRestoreQuorum --------------------------
EXTENDS RestoreQuorum
=============================================================================
