SPECIFICATION Spec
CONSTANTS
  s1 = s1
  s2 = s2
  all = all
  some = some
  Sessions = {s1, s2}
  MaxBookmarks = 3
  Old = 2
  OldSession <- OldSessions
  Searches = {all, some}
  All = all
  Matches <- FoundOdd
  Filters = {"", "GET"}
  NoFilter = ""
  Limit = 1
  MaxOffset = 1
  MaxActs = 3
INVARIANTS  OneBookmarkPerSession
CHECK_DEADLOCK FALSE
