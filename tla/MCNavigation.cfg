SPECIFICATION FairNavigationSpec
CONSTANTS
  Configs = {1, 2}
  Starts = {10, 20}
  Today = 10
  None = 0
  MaxClicks = 3
  MaxChanges = 1
INVARIANTS SelectionAgrees PinsFollowUrl
PROPERTIES NavigationSettles
CHECK_DEADLOCK FALSE
