SPECIFICATION Spec
CONSTANTS
  cluster1 = cluster1
  cluster2 = cluster2
  keyring = keyring
  osd = osd
  claim = claim
  CRs = {cluster1, cluster2}
  Kids = {keyring, osd, claim}
  Parent <- ParentOf
  KindOf <- KindsOf
  MaxUid = 2
INVARIANTS TypeOK KidsSurvive GoneOnlyBetween
