SPECIFICATION Spec
CONSTANTS
  None = None
  o1 = o1
  o2 = o2
  o3 = o3
  e1 = e1
  s1 = s1
  s2 = s2
  c1 = c1
  b1 = b1
  b2 = b2
  r1 = r1
  rice = rice
  oil = oil
  Worker = {w1, w2}
  Order = {o1, o2, o3}
  Expense = {e1}
  Slip = {s1, s2}
  Cheque = {c1}
  Bill = {b1, b2}
  Return = {r1}
  Item = {rice, oil}
  CategoryOf <- Stocked
  Sold <- Catalogue
  MaxUnits = 2
  MaxDay = 2
  MaxPay = 3
  MaxMoves = 7
  MaxRows = 1
  MaxLoan = 2
  Mixes <- AllMixes
INVARIANT MoneyBehindStatus
INVARIANT TaxReturnsAgree
INVARIANT BooksAgree
INVARIANT UtilizationSound
PROPERTY SettledAtOneMoment
 
SYMMETRY Perms
CHECK_DEADLOCK FALSE
