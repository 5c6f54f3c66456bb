SPECIFICATION FairConnectionSpec
CONSTANTS
  c1 = c1
  c2 = c2
  c3 = c3
  t1 = t1
  t2 = t2
  Topics = {t1, t2}
  Components = {c1, c2, c3}
  TopicOf <- Shared
  MaxMounts = 6
  MaxLosses = 2
INVARIANTS ServerFollowsTab
PROPERTIES EventuallySubscribed
CHECK_DEADLOCK FALSE
