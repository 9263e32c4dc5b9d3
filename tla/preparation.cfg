SPECIFICATION Spec
CONSTANTS
  tplA = tplA
  tplB = tplB
  plainVM = plainVM
  clusterA = clusterA
  clusterB = clusterB
  store = store
  portgroup = portgroup
  opaque = opaque
  switch = switch
  Objects <- MCObjects
  Kind <- MCKind
  Patterns <- MCPatterns
  Templates <- MCTemplates
  Disks <- MCDisks
  Nics <- MCNics
  KnownTags <- MCKnownTags
  InitTags <- MCInitTags
  Launches <- MCLaunches
  Distros = {"rke2", "rke2airgapped", "kubeadm"}
  NoObject = NoObject
  MaxRetags = 2
  MaxFaults = 1
INVARIANTS TypeOK PlacementMatchesSpec LaunchableIsLaunched AmbiguousNetworkRefused DevicesFitImage UserDataComplete MachineHoldsRequests
CHECK_DEADLOCK FALSE
