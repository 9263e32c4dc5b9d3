SPECIFICATION Spec
CONSTANTS
  c1 = c1
  c2 = c2
  u1 = u1
  u2 = u2
  u3 = u3
  v1 = v1
  Claims = {c1}
  Uuids = {u1, u2, v1}
  Foreign = {v1}
  Types = {"small"}
  Pools = {"default"}
  PoolOf <- MCPoolOf
  ClusterName = "prod"
  ForeignCluster = "prod-eu"
  MatchingClusters = {"prod", "prod-eu"}
  ClassTags <- NoTags
  ForeignTags <- OtherTags
  ClassConditions = {"ready", "notready", "terminating"}
  NoUuid = NoUuid
  EmptyID = EmptyID
  MaxFaults = 2
  GraceCoversLaunch = TRUE
INVARIANT OwnRunningVMsListed
