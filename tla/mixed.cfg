SPECIFICATION FairSpec
CONSTANTS
  r1 = r1  r2 = r2  s1 = s1  s2 = s2  t1 = t1  t2 = t2
  c1 = c1  c2 = c2  k1 = k1  k2 = k2
  Runs = {r1}
  Tables = {t1, t2}
  TargetTables = {k1, k2}
  Unknown = Unknown
  Scripts = {s1}
  RunOf <- RunOfOne
  Plan <- MixedPlan
  CanUnload <- MixedUnload
  BatchSize = 2
  InitialRows <- ThreeAndOne
  MaxRows = 2
  Preloaded <- K2Loaded
  SerialDispatch = TRUE
  Callers = {c1}
  MaxCalls = 2
INVARIANTS RowsAgree ItemsFollowScripts CheckpointSound DoneIsComplete EventsFollowTables
PROPERTIES LandsOnlyWhileRunning StagedUntilLanded ScriptsSettle
CHECK_DEADLOCK FALSE
