SPECIFICATION DestroySpec
CONSTANTS
  CRs = {"cluster", "pool"}
  NumKinds = 2
  KindOf <- KindOfCR
  Deployments = {"mon", "tools"}
  Jobs = {"prepare"}
  Toolbox = "tools"
  Apps = {"rook-ceph-mon", "rook-ceph-osd", "rook-ceph-tools"}
  AppOf <- AppOfWorkload
INVARIANTS DestroyTypeOK DoneLeavesNothingOld
PROPERTIES NeverConfirmsALiveCluster DestroyReturns
