SPECIFICATION Spec
CONSTANTS
  None = None
  p1 = p1
  p2 = p2
  Worker = {w1}
  PoOrder <- TwoPos
  Key = {k1, k2}
  Total <- ThreeAndOne
  Amounts <- OneOrTwo
  NewPo <- NoNew
  Families <- Advances
  MaxRows <- ThreeAdvances
  Openings <- NoOpening
  ReturnStart <- NoReturn
  ReturnAmount = 1
INVARIANT BalanceExact
CHECK_DEADLOCK FALSE
