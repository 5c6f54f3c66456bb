SPECIFICATION FairLogSpec
CONSTANTS
  r1 = r1
  r2 = r2
  r3 = r3
  o1 = o1
  Requests = {r1, r2, r3}
  OldSessions = {o1}
  MaxRetain = 1
  MaxLogErrors = 1
INVARIANTS
  ViewFollowsRow
PROPERTIES
  ReaperLeavesEnough
  NoRegress EventuallyWithinLimit
CHECK_DEADLOCK FALSE
