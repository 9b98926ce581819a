SPECIFICATION Spec
CONSTANTS
  r1 = r1  r2 = r2  s1 = s1  s2 = s2  t1 = t1  t2 = t2
  c1 = c1  c2 = c2  k1 = k1  k2 = k2
  Runs = {r1, r2}
  Tables = {t1}
  TargetTables = {k1}
  Unknown = Unknown
  Scripts = {s1, s2}
  RunOf <- RunOfEach
  Plan <- PairPlans
  CanUnload <- NoUnload
  BatchSize = 1
  InitialRows <- OneEach
  MaxRows = 1
  Preloaded <- EmptyTargets
  SerialDispatch = TRUE
  Callers = {c1, c2}
  MaxCalls = 2
INVARIANTS IInv
PROPERTIES ImplementsLifecycle
SYMMETRY SameCallers
VIEW BesidesEvents
CHECK_DEADLOCK FALSE
