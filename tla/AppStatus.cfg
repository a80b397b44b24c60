SPECIFICATION FairSpec
CONSTANTS
  a1 = a1
  a2 = a2
  f1 = f1
  f2 = f2
  d1 = d1
  d2 = d2
  t1 = t1
  t2 = t2
  NoPath = NoPath
  NoTag = NoTag
  NoVersion = NoVersion
  Idle = Idle
  Apps = {a1, a2}
  Files = {f1, f2}
  Deps = {d1, d2}
  Tags = {t1, t2}
  GitPath <- SameFile
  Reports <- SomeReports
  Targets <- OneTarget
  MaxReports = 1
  MaxUpgrades = 1
  MaxRestarts = 1
INVARIANTS TypeOK MappingExact FlagAgrees
PROPERTIES NoLostStatus ReadySettles
