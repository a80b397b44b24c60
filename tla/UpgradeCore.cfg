SPECIFICATION FairSpec
CONSTANTS
  v1 = v1
  v2 = v2
  w1 = w1
  p1 = p1
  NoVersion = NoVersion
  None = None
  InitialVersion = v1
  InitialCurrent = NoVersion
  Workloads = {w1}
  AppSpecs <- ListedOrPlain
  RequestSpecs <- AnyRequest
  PVCs = {p1}
  Mounts <- OneMount
  Versions <- TwoVersions
  Requests = {r1}
  Disturbances = {"stale", "delete"}
  TimeoutScaleDown = 0
  TimeoutSnapshot = 0
  TimeoutReconcile = 0
  TimeoutHealthCheck = 0
  MaxAge = 1
  MaxFaults = 1
  MaxRollbacks = 2
  MaxSnaps = 2
  MaxCount = 1
INVARIANTS TypeOK SnapshotsPrecedeCommit SnapshotsConsistent OneStageAhead
PROPERTIES CommitWhileSuspended TerminalStable FollowsLifecycle EndsOrAwaitsHealth
