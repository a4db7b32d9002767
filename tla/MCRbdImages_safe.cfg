SPECIFICATION Spec
CONSTANTS
  Users = {u1, u2}
  plain = plain
  split = split
  Pools <- MCPools
  clone = clone
  snapshot = snapshot
  other = other
  n1 = n1
  n2 = n2
  Volumes <- MCVolumes
  Source <- MCSource
  Space <- MCSpace
  NamespaceList <- MCNamespaceList
SYMMETRY UsersAreAlike
INVARIANTS TypeOK TempGoesFirst RowsHaveImages
