SPECIFICATION Spec
CONSTANTS
  None = None
  l1 = l1
  l2 = l2
  l3 = l3
  o1 = o1
  o2 = o2
  Worker = {w1, w2}
  LotOrder <- OneAndSpare
  Spare <- LastSpare
  Order <- OneOrder
  Opening <- TwoEach
  Qty <- OrderOne
  Sold <- OneOrTwo
  Blended <- Alone
  Ops <- Everything
SYMMETRY Perms
INVARIANT ReservedOnce
INVARIANT DeliveredWasDispatched
PROPERTY LotSaleSparesReserved
CHECK_DEADLOCK FALSE
