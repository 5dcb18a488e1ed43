SPECIFICATION FairSpec
CONSTANTS
  Clients = {c1, c2}
  Slots = {s1, s2}
  NoSlot = NoSlot
  Size = 1
  MayExpire = TRUE
VIEW View
PROPERTIES
  WaiterServed
  ShutdownReturns
CHECK_DEADLOCK FALSE
