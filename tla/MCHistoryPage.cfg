SPECIFICATION FairSpec
CONSTANTS
  c1 = c1
  c2 = c2
  all = all
  search = search
  Configs = {c1, c2}
  First = c1
  Criteria = {all, search}
  Plain = all
  MaxSessions = 3
  ConfigOf <- OddFirst
  Matches <- Found12
  Old = 2
  Limit = 1
  MaxOffset = 1
  MaxChanges = 2
  MaxFailures = 1
INVARIANTS ListIsOfTheView
PROPERTIES LoadingEnds
CHECK_DEADLOCK FALSE
