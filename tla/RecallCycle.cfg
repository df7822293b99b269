SPECIFICATION Spec
CONSTANTS
  None = None
  Worker = {w1, w2}
  Packed = 2
  Quantity <- JustOne
  MaxSold = 1
  MaxRecalls = 2
  Ops <- Everything
INVARIANT RecoveredWithinSold
PROPERTY ClosedForGood
SYMMETRY Perms
CHECK_DEADLOCK FALSE
