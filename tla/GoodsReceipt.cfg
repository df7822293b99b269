SPECIFICATION Spec
CONSTANTS
  Worker = {w1, w2}
  Grn = {g1, g2}
  Ret = {r1, r2}
  m1 = m1
  Material <- MCMaterial
  None = None
  FirstOrder <- Two
  EditedOrders <- Edits
  ReceiptInputs <- Whole
  ReturnInputs <- Rejections
  Ops <- Everything
  ReturnStart <- AnyStart
  ManualStatus <- Manual
  MaxReversals = 1
SYMMETRY Perms
INVARIANTS DebitMatchesReturn OneReturnPerRejection
PROPERTIES PostOnlyForOpenOrder
CHECK_DEADLOCK FALSE
