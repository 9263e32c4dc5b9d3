SPECIFICATION Spec
CONSTANTS
  tplA = tplA
  tplB = tplB
  plainVM = plainVM
  clusterA = clusterA
  clusterB = clusterB
  store = store
  portgroup = portgroup
  opaque = opaque
  switch = switch
  Objects <- MCObjects
  Kind <- MCKind
  Patterns <- MCPatterns
  Templates <- MCTemplates
  Disks <- MCDisks
  Nics <- MCNics
  KnownTags <- MCKnownTags
  InitTags <- MCInitTags
  Launches <- BaseLaunches
  Distros = {"rke2airgapped"}
  NoObject = NoObject
  MaxRetags = 2
  MaxFaults = 0
INVARIANT NoTemplateNics
CHECK_DEADLOCK FALSE
