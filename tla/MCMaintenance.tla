--------------------------- MODULE MCMaintenance ---------------------------
EXTENDS Maintenance, TLC
PodSymmetry == Permutations(Pods)
=============================================================================
