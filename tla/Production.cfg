SPECIFICATION Spec
CONSTANTS
  None = None
  b1 = b1
  b2 = b2
  t1 = t1
  t2 = t2
  e1 = e1
  e2 = e2
  Worker = {w1, w2}
  BatchOrder <- TwoBatches
  Ticket = {t1, t2}
  Entry = {e1, e2}
  MaxUnits = 2
  Yield <- JustTwo
  Pack <- OneOrTwo
  Extra <- ZeroOrOne
  SharedTotal = 4
  Mixes <- AllMixes
INVARIANT BulkConserved
INVARIANT PackedWithinApproved
INVARIANT AppliedOnce
PROPERTY PackagingStops
PROPERTY SharedChargedOnce
PROPERTY ImplementsPool
SYMMETRY Perms
CHECK_DEADLOCK FALSE
