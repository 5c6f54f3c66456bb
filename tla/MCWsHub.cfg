SPECIFICATION FairHubSpec
CONSTANTS
  c1 = c1
  c2 = c2
  t1 = t1
  Clients = {c1, c2}
  Topics = {t1}
  SendCap = 1
  MaxMessages = 3
  Pingers = {c1}
INVARIANTS
  OpenIffInClients
  StaleSubscribersWereEvicted
  PanicCauses
PROPERTIES
  ImplementsPubSub
  PumpsEndTogether
CHECK_DEADLOCK FALSE
