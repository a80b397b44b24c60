SPECIFICATION Spec
CONSTANTS
  v1 = v1
  v2 = v2
  w1 = w1
  p1 = p1
  NoVersion = NoVersion
  None = None
  InitialVersion = v1
  InitialCurrent = NoVersion
  Workloads = {w1}
  AppSpecs <- ListedManual
  RequestSpecs <- Plain
  PVCs = {p1}
  Mounts <- OneMount
  Versions <- TwoVersions
  Requests = {r1, r2}
  Disturbances = {"resume", "evict", "publish"}
  TimeoutScaleDown = 0
  TimeoutSnapshot = 0
  TimeoutReconcile = 0
  TimeoutHealthCheck = 0
  MaxAge = 1
  MaxFaults = 1
  MaxRollbacks = 1
  MaxSnaps = 1
  MaxCount = 1
SYMMETRY AnyOrder
INVARIANTS EndedIsResumed GitHoldsRecordedVersion
