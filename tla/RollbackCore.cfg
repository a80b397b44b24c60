SPECIFICATION FairSpec
CONSTANTS
  v1 = v1
  v2 = v2
  w1 = w1
  p1 = p1
  p2 = p2
  NoVersion = NoVersion
  None = None
  InitialVersion = v1
  InitialCurrent = v1
  Workloads = {w1}
  AppSpecs <- OwnTarget
  PVCs = {p1, p2}
  Mounts <- SharedMount
  Position <- InOrder
  Versions <- TwoVersions
  Rollbacks = {b1}
  Upgrades <- AnyUpgrade
  Disturbances = {"delete", "prune", "stale"}
  TimeoutScaleDown = 0
  TimeoutVolumeRestore = 0
  TimeoutReconcile = 0
  TimeoutHealthCheck = 0
  MaxAge = 1
  MaxFaults = 1
  MaxSnaps = 1
  MaxCount = 0
INVARIANTS TypeOK RevertAfterRestore RestoredDataClean SuspendedWhileClaimsMissing
PROPERTIES FollowsLifecycle EndsOrWaits
