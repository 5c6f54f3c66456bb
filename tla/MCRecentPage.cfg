SPECIFICATION Spec
CONSTANTS
  MaxSessions = 3
  Foreign <- SecondForeign
  Limit = 1
  Starts = {1, 2}
  Filters = {"", "200"}
  MaxLoads = 2
  MaxFailures = 1
INVARIANTS ListFollowsTable
PROPERTIES ImplementsSelectableList
CHECK_DEADLOCK FALSE
