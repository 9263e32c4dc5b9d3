SPECIFICATION Spec
CONSTANTS
  c1 = c1
  c2 = c2
  u1 = u1
  u2 = u2
  u3 = u3
  v1 = v1
  Claims = {c1, c2}
  Uuids = {u1, u2}
  Foreign = {}
  Types = {"small"}
  Pools = {}
  PoolOf <- MCPoolOf
  ClusterName = "prod"
  ForeignCluster = "prod-eu"
  MatchingClusters = {"prod", "prod-eu"}
  ClassTags <- OwnTags
  ForeignTags <- OtherTags
  ClassConditions = {"ready"}
  NoUuid = NoUuid
  EmptyID = EmptyID
  MaxFaults = 1
  GraceCoversLaunch = TRUE
SYMMETRY MCSymmetry
INVARIANT LaunchedClaimRuns
PROPERTIES ImplementsContract NodeRemovalSafe
