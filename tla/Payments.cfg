SPECIFICATION Spec
CONSTANTS
  None = None
  i1 = i1
  i2 = i2
  a1 = a1
  a2 = a2
  Due <- DueTwo
  Opening <- OpenWithOne
  Transfers <- JustOne
  Worker = {w1, w2, w3}
  Payment = {k1, k2}
  Invoice <- TwoInvoices
  Account <- TwoAccounts
  Inputs <- ReceiptsTwo
  Ops <- Everything
  MaxMoves = 1
SYMMETRY Perms
INVARIANT StatusMatchesPaid
INVARIANT CancelledNetsToZero
PROPERTY RecordedOnce
PROPERTY NoUpdateLost
CHECK_DEADLOCK FALSE
