SPECIFICATION Spec
CONSTANTS
  None = None
  p1 = p1
  p2 = p2
  Worker = {w1, w2}
  PoOrder <- OnePo
  Key = {k1}
  Total <- TwoForOne
  Amounts <- OneOrThree
  NewPo <- FirstNew
  Families <- AllFamilies
  MaxRows <- ThreeOrFour
  Openings <- OldOpening
  ReturnStart <- OldReturn
  ReturnAmount = 1
SYMMETRY Perms
INVARIANT OnePaymentPerKey
CHECK_DEADLOCK FALSE
 
PROPERTY PaidRaisedWithinTotal
