SPECIFICATION SystemSpec
CONSTANTS
  r1 = r1  s1 = s1  t1 = t1  t2 = t2  c1 = c1  k1 = k1  k2 = k2  v1 = v1  v2 = v2
  Runs = {r1}
  Tables = {t1}
  TargetTables = {k1}
  Unknown = Unknown
  Scripts = {s1}
  RunOf <- RunOfOne
  Plan <- OneDirect
  CanUnload <- NoUnload
  BatchSize = 1
  InitialRows <- TwoRows
  MaxRows = 2
  Preloaded <- NoRow
  SerialDispatch = TRUE
  Callers = {c1}
  MaxCalls = 1
  Validations = {v1, v2}
  ValidationRun <- OneRun
  Discovers = {v1}
  Asked <- AskedAll
  NamedTarget <- SameName
  SerialValidation = TRUE
INVARIANTS VerdictsOfOneCall JudgesDoneTables SummaryMatchesRows MatchMeansLanded
VIEW BesidesEvents
CHECK_DEADLOCK FALSE
