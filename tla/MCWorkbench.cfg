SPECIFICATION Spec
CONSTANTS
  Targets = {"", "GET /a"}
  Original = "GET /a"
  Bodies = {"", "dGVzdA", "test"}
  Decoded <- Base64
  NoKey = NoKey
  MaxStoredTabs = 1
  MaxStoredResponses = 1
  MaxSends = 2
  MaxEdits = 2
  MaxReloads = 1
  MaxSwitches = 1
INVARIANTS ResponseOfItsRequest PanelsAgree StoreBounded OutcomeIsKept EditorShowsDraft
CHECK_DEADLOCK FALSE
