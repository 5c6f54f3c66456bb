SPECIFICATION FairSpec
CONSTANTS
  Entries = {"a", "b"}
  Configs = {"a1", "b1", "b2"}
  EntryOf <- MCEntryOf
  Initial = {"a1"}
  Old = {"b1"}
  Keys = {"log_level"}
  Values = {0, 1}
  Default = 0
  NoConfig = "none"
  MaxSteps = 4
  MaxFailures = 1
  MaxElsewhere = 1
INVARIANTS PageFollowsServer
PROPERTIES RunningIsKept BusyEnds
CHECK_DEADLOCK FALSE
