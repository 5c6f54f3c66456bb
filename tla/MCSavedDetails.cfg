SPECIFICATION FairSpec
CONSTANTS
  b1 = b1
  b2 = b2
  Bookmarks = {b1, b2}
  MaxEdits = 2
  Values = {"", "x"}
  Nothing = ""
  Stored <- MCStored
  First = b1
  MaxFaults = 1
  MaxOpens = 2
  MaxSteps = 4
INVARIANTS TextsStayWhereWritten LastEditIsSaved DeletedStaysDeleted
PROPERTIES EditsAreSaved
CHECK_DEADLOCK FALSE
