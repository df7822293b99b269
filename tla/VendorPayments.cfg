SPECIFICATION Spec
CONSTANTS
  None = None
  p1 = p1
  p2 = p2
  Worker = {w1, w2, w3}
  PoOrder <- TwoPos
  Key = {k1, k2}
  Total <- ThreeAndOne
  Amounts <- OneOrTwo
  NewPo <- SecondNew
  Families <- JustPaying
  MaxRows <- TwoWhilePaying
  Openings <- NoOpening
  ReturnStart <- NoReturn
  ReturnAmount = 1
SYMMETRY Perms
INVARIANT LedgerSound
INVARIANT AppliedWithinCredit
CHECK_DEADLOCK FALSE
