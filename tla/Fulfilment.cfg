SPECIFICATION Spec
CONSTANTS
  Worker = {w1, w2, w3}
  Grn = {g1, g2, g3}
  Ret = {r1, r2}
  m1 = m1
  Material <- MCMaterial
  None = None
  FirstOrder <- Three
  EditedOrders <- NoEdits
  ReceiptInputs <- Rejectable
  ReturnInputs <- Rejections
  Ops <- Returning
  ReturnStart <- AnyStart
  ManualStatus <- NoManual
  MaxReversals = 1
INVARIANT ReceivedIsFulfilled
INVARIANT CompletedWithinOrder
SYMMETRY Perms
CHECK_DEADLOCK FALSE
