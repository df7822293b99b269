SPECIFICATION Spec
CONSTANTS
  None = None
  l1 = l1
  l2 = l2
  l3 = l3
  o1 = o1
  o2 = o2
  Worker = {w1, w2, w3}
  LotOrder <- TwoLots
  Spare <- NoSpare
  Order <- NoOrder
  Opening <- OneEach
  Qty <- OrderTwo
  Sold <- OneOrTwo
  Blended <- PackedTogether
  Ops <- Selling
INVARIANT StockMatchesLots
INVARIANT RecalledNotSellable
PROPERTY QuarantineSound
SYMMETRY Perms
CHECK_DEADLOCK FALSE
