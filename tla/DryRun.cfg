SPECIFICATION FairSpec
CONSTANTS
  v1 = v1
  v2 = v2
  w1 = w1
  w2 = w2
  p1 = p1
  NoVersion = NoVersion
  InitialVersion = v1
  InitialCurrent = v1
  Versions = {v1}
  Workloads = {w1}
  PVCs = {p1}
  Mounts <- OneMount
  AppSpecs <- AppliedThroughout
  Kinds = {"upgrade", "rollback"}
  Disturbances = {"prune", "resume"}
  TimeoutSuspend = 0
  TimeoutScaleDown = 0
  TimeoutScaleUp = 0
  TimeoutResume = 0
  MaxAge = 1
  MaxFaults = 1
  MaxSnaps = 0
  MaxCount = 0
INVARIANTS TypeOK SuspensionExplained
PROPERTIES EveryDryRunEnds
