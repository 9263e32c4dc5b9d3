SPECIFICATION FairSpec
CONSTANTS
  c1 = c1
  c2 = c2
  u1 = u1
  u2 = u2
  u3 = u3
  v1 = v1
  Claims = {c1}
  Uuids = {u1, u2}
  Foreign = {}
  Types = {"small"}
  Pools = {"default"}
  PoolOf <- MCPoolOf
  ClusterName = "prod"
  ForeignCluster = "prod-eu"
  MatchingClusters = {"prod", "prod-eu"}
  ClassTags <- OwnTags
  ForeignTags <- OtherTags
  ClassConditions = {"ready", "unknown", "terminating"}
  NoUuid = NoUuid
  EmptyID = EmptyID
  MaxFaults = 1
  GraceCoversLaunch = TRUE
PROPERTIES DeletedClaimsTerminate OrphansCollected LaunchSettles StuckNameBlocksLaunch
