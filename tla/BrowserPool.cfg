SPECIFICATION Spec
CONSTANTS
  Clients = {c1, c2, c3}
  Slots = {s1, s2, s3}
  NoSlot = NoSlot
  Size = 2
  MayExpire = TRUE
SYMMETRY Symmetry
VIEW View
INVARIANTS
  SlotsSound
  SlotsCounted
  ConnClosedOnce
  CleanCheckout
  ConnOpenWhileUsed
PROPERTIES
  ImplementsSlotLease
CHECK_DEADLOCK FALSE
