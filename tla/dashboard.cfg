SPECIFICATION DashboardSpec
CONSTANTS
  Runs = {1, 2}
  Tables = {}
  Unknown = Unknown
  Hooks = {"poll", "milestones", "list"}
  OwnOnError = {"milestones"}
  GiveUpAfter = 2
  MaxBreaks = 2
  MaxMilestones = 2
  RowValues = {0, 1}
  NoRows = 0
  MaxInFlight = 2
  MaxFailures = 1
  MaxActs = 4
INVARIANTS MilestonesInOrder
PROPERTIES EndedStaysEnded SelectionSettles DetailSettles MilestonesSettle RowsSettle
CHECK_DEADLOCK FALSE
