SPECIFICATION FairRegistrySpec
CONSTANTS
  Calls = {k1, k2}
  OldIds = {}
  Listens = {l1, l2}
  Targets = {t1, t2}
  InvalidTargets = {t2}
  Taken = {}
  l1 = l1
  t1 = t1
  InitialProxies <- OneProxy
  MaxExports = 1
  MaxDbErrors = 1
  None = None
INVARIANTS OneIdPerEntry ListenersAreListed
PROPERTIES ExportKeepsListeners ActiveGetsServed
CHECK_DEADLOCK FALSE
