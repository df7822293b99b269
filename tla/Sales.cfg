SPECIFICATION Spec
CONSTANTS
  None = None
  Key = Key
  q1 = q1
  s1 = s1
  s2 = s2
  p1 = p1
  p2 = p2
  i1 = i1
  i2 = i2
  c1 = c1
  c2 = c2
  d1 = d1
  d2 = d2
  r1 = r1
  r2 = r2
  Worker = {w1, w2}
  Estimate = q1
  SO = {s1, s2}
  PI = {p1, p2}
  INV = {i1, i2}
  Challan = {c1, c2}
  DCReturn = {d1, d2}
  Return = {r1, r2}
  Units = 2
  Quantity <- OneOrTwo
  MaxEdits = 2
  Mixes <- AllMixes
INVARIANT OrdersSound
INVARIANT ChallansWithinInvoice
INVARIANT ReturnsWithinSale
PROPERTY EditIsWhole
PROPERTY PostedOnce
SYMMETRY Perms
CHECK_DEADLOCK FALSE
