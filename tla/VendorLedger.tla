---------------------------- MODULE VendorLedger ----------------------------
(***************************************************************************)
(* Money owed to one vendor: the running-balance ledger, the orders' paid  *)
(* and advance columns, purchase bills and payments.                       *)
(*                                                                         *)
(* A ledger row stores the balance after it, computed from the newest row. *)
(* No handler locks the ledger, but every payment first increments the     *)
(* day's number sequence and so holds that row until it commits; new       *)
(* orders and bills likewise hold the row of their number.  A request      *)
(* reads in one step and writes in a later one, as in GoodsReceipt.        *)
(***************************************************************************)
EXTENDS Sums, SequencesExt

CONSTANTS
  Worker,     \* requests that may be in flight together
  PoOrder,    \* the vendor's purchase orders, oldest first
  Key,        \* idempotency keys of payments
  None,       \* no order, no lock holder
  Total,      \* total amount of each order
  Amounts,    \* amounts paid, adjusted or advanced
  NewPo,      \* orders that do not exist yet
  Openings,   \* opening balances the vendor may have, or be given
  ReturnStart,  \* statuses the return may have at the beginning
  ReturnAmount, \* what the return is worth
  Families,   \* families of requests that are issued together
  MaxRows     \* per family, bound on ledger rows before a new request starts

Po == Range(PoOrder)

ASSUME VendorAssumption ==
  /\ None \notin Worker \cup Po /\ NewPo \subseteq Po
  /\ PoOrder \in Seq(Po) /\ IsInjective(PoOrder) /\ IsFiniteSet(Key)
  /\ Total \in [Po -> Nat \ {0}] /\ Amounts \subseteq Nat \ {0} /\ MaxRows \in [Families -> Nat]
  /\ Openings \subseteq Int /\ ReturnStart \subseteq {"none", "COMPLETED"} /\ ReturnAmount \in Nat \ {0}

OrderStatus == {"none", "APPROVED", "RECEIVED", "CLOSED", "CANCELLED"}
BillStatus  == {"none", "PENDING", "APPROVED", "PAID"}
LedgerType  == {"CREDIT", "DEBIT"}
Kind        == {"PAYMENT", "ADVANCE", "PURCHASE", "RETURN", "ADJUSTMENT", "OPENING_BALANCE"}

\* Number sequences whose row an incrementing transaction keeps locked.
Sequence == {"VPAY", "PO", "GRN_BILL"}

VARIABLES
  ops,                      \* the family this behaviour is about
  rows,                     \* ledger rows of the vendor, by creation date
  opening,                  \* Vendor.openingBalance
  poStatus, paid, applied,  \* orders: status, paid, advanceApplied
  bill, billAdvance,        \* the purchase bill of each order, and its advanceApplied
  pay,                      \* payments by idempotency key: 0 or the amount
  payBill,                  \* the order whose bill a payment is linked to, or None
  retStatus, retAt,         \* a purchase return: status, rows before its creation date
  seqLock, poLock,          \* row locks: holder or None
  pc, on, seen              \* per request: control, order, values read

returnVars == <<retStatus, retAt>>
ledgerVars == <<rows, opening, returnVars>>
orderVars  == <<poStatus, paid, applied>>
billVars   == <<bill, billAdvance>>
payVars    == <<pay, payBill>>
data       == <<ledgerVars, orderVars, billVars, payVars>>
locks      == <<seqLock, poLock>>
vars       == <<ops, data, locks, pc, on, seen>>

PC == {"idle", "advance", "applyAvailable", "apply", "payLock", "payPO", "payTotals", "payDue", "payWrite",
       "newLock", "newWrite", "billTotals", "billDue", "bill", "approveBill", "cancel", "adjust", "return",
       "sync", "inject", "editOpening"}

\* What a request has read: the ledger's balance, an order's columns, the money
\* free to settle with and what was due on each outstanding order; and what it was
\* sent or decided: an amount, its side, an idempotency key, whether it pays a bill.
NothingSeen == [bal |-> 0, paid |-> 0, applied |-> 0, status |-> "none", amt |-> 0,
                type |-> "DEBIT", key |-> None, billed |-> FALSE, free |-> 0, due |-> [p \in Po |-> 0]]
Seen == [bal : Int, paid : Nat, applied : Nat, status : OrderStatus, amt : Nat,
         type : LedgerType, key : Key \cup {None}, billed : BOOLEAN, free : Nat, due : [Po -> Nat]]

Init ==
  /\ ops \in Families
  /\ rows = << >> /\ retAt = 0
  /\ opening \in IF "inject" \in ops THEN Openings ELSE {0}
  /\ retStatus \in IF "sync" \in ops THEN ReturnStart ELSE {"none"}
  /\ poStatus = [p \in Po |-> IF p \in NewPo THEN "none" ELSE "APPROVED"]
  /\ paid = [p \in Po |-> 0] /\ applied = [p \in Po |-> 0]
  /\ bill = [p \in Po |-> "none"] /\ billAdvance = [p \in Po |-> 0]
  /\ pay = [k \in Key |-> 0] /\ payBill = [k \in Key |-> None]
  /\ seqLock = [s \in Sequence |-> None] /\ poLock = [p \in Po |-> None]
  /\ pc = [w \in Worker |-> "idle"] /\ on = [w \in Worker |-> None]
  /\ seen = [w \in Worker |-> NothingSeen]

-----------------------------------------------------------------------------
(* Amounts. *)

Lesser(a, b) == IF a < b THEN a ELSE b

Positive(n) == IF n > 0 THEN n ELSE 0

Row(type, amount, bal, kind, ref) ==
  [type |-> type, amount |-> amount, bal |-> bal, kind |-> kind, ref |-> ref]

Signed(r) == IF r.type = "CREDIT" THEN r.amount ELSE -r.amount

\* The sum of the entries rs of one type and of the kinds K.
TotalOf(rs, type, K) ==
  SumOf([i \in DOMAIN rs |-> IF rs[i].type = type /\ rs[i].kind \in K THEN rs[i].amount ELSE 0], DOMAIN rs)

BalanceOf(rs) == SumOf([i \in DOMAIN rs |-> Signed(rs[i])], DOMAIN rs)

\* getVendorBalance: the sum of the ledger.
VendorBalance == BalanceOf(rows)

Debits(rs) == TotalOf(rs, "DEBIT", Kind)

\* getNextBalance's source: the newest row's stored balance.
LastBalance == IF rows = << >> THEN 0 ELSE Last(rows).bal

\* getAvailableAdvance: what the vendor owes us less what open orders reserved.
Reserving == {p \in Po : poStatus[p] \notin {"none", "CLOSED", "CANCELLED"}}

AvailableAdvance == Positive(Positive(-VendorBalance) - SumOf(applied, Reserving))

\* Payments made against the bill of p.
BillPayments(p) == SumOf(pay, {k \in Key : payBill[k] = p})

\* Closed once nothing is due on a received order, else the status read.
Settled(status, p, newPaid) ==
  IF status = "RECEIVED" /\ newPaid >= Total[p] THEN "CLOSED" ELSE status

\* Debits of the ledger that no order shows as paid.
Unapplied(rs, pd, st) ==
  Positive(Debits(rs) - SumOf(pd, {p \in Po : st[p] \notin {"none", "CANCELLED"}}))

\* What is due on each order that is received and not paid.
DueOf(pd, st) == [p \in Po |-> IF st[p] = "RECEIVED" THEN Positive(Total[p] - pd[p]) ELSE 0]

\* Settled in turn, oldest first, what was due on each order from the money free.
Share(r) == InTurn(PoOrder, r.due, r.free)

\* settleVendorOrders writes what it read of the orders and the share of each.
Settle(r, pd, st) ==
  LET new == [p \in Po |-> (Total[p] - r.due[p]) + Share(r)[p]] IN
  [paid   |-> [p \in Po |-> IF Share(r)[p] > 0 THEN new[p] ELSE pd[p]],
   status |-> [p \in Po |-> IF Share(r)[p] > 0 THEN Settled("RECEIVED", p, new[p]) ELSE st[p]]]

-----------------------------------------------------------------------------
(* Requests and row locks. *)

Start(w, op, p, d) ==
  /\ op \in ops /\ pc[w] = "idle" /\ Len(rows) < MaxRows[ops]
  /\ pc' = [pc EXCEPT ![w] = p] /\ on' = [on EXCEPT ![w] = d]

Goto(w, p) == pc' = [pc EXCEPT ![w] = p] /\ UNCHANGED on

See(w, r) == seen' = [seen EXCEPT ![w] = r]

Freed(lock, w) == [x \in DOMAIN lock |-> IF lock[x] = w THEN None ELSE lock[x]]

End(w) ==
  /\ seqLock' = Freed(seqLock, w) /\ poLock' = Freed(poLock, w)
  /\ pc' = [pc EXCEPT ![w] = "idle"] /\ on' = [on EXCEPT ![w] = None]
  /\ See(w, NothingSeen)

\* An exception, a timeout or a crash rolls the transaction back.
Timeout(w) == pc[w] # "idle" /\ End(w) /\ UNCHANGED data

\* Mutant of Increment: a number that is counted instead of incremented.
IncrementUnlocked(w, s) == UNCHANGED seqLock

\* The number sequence is incremented, which locks its row.
Increment(w, s) == seqLock[s] = None /\ seqLock' = [seqLock EXCEPT ![s] = w]

\* Every order row a transaction writes must be unlocked or its own.
Writable(w, S) == \A p \in S : poLock[p] \in {None, w}

-----------------------------------------------------------------------------
(* ProcurementService.recordAdvancePayment: reads the order and the newest  *)
(* row, then writes the row and the order from what it read.               *)

AdvanceRead(w, p, a) ==
  /\ poStatus[p] \notin {"none", "CANCELLED"}
  /\ Start(w, "advance", "advance", p)
  /\ See(w, [NothingSeen EXCEPT !.bal = LastBalance, !.paid = paid[p], !.status = poStatus[p],
                                !.amt = a])
  /\ UNCHANGED <<data, locks>>

AdvanceRow(r, p) == Row("DEBIT", r.amt, r.bal - r.amt, "ADVANCE", p)

AdvanceWrite(w) ==
  LET p == on[w] r == seen[w] newPaid == Lesser(Total[p], r.paid + r.amt) IN
  /\ pc[w] = "advance" /\ Writable(w, {p})
  /\ rows' = Append(rows, AdvanceRow(r, p))
  /\ paid' = [paid EXCEPT ![p] = newPaid]
  /\ poStatus' = [poStatus EXCEPT ![p] = Settled(r.status, p, newPaid)]
  /\ End(w)
  /\ UNCHANGED <<opening, returnVars, applied, billVars, payVars>>

-----------------------------------------------------------------------------
(* ProcurementService.applyAdvanceToPO: reads the order, then the available *)
(* advance, and writes only if the order's paid is still what it read.      *)

ApplyRead(w, p) ==
  /\ poStatus[p] # "none"
  /\ Start(w, "apply", "applyAvailable", p)
  /\ See(w, [NothingSeen EXCEPT !.paid = paid[p], !.applied = applied[p], !.status = poStatus[p]])
  /\ UNCHANGED <<data, locks>>

ApplyReadAvailable(w) ==
  LET due == Total[on[w]] - seen[w].paid IN
  /\ pc[w] = "applyAvailable"
  /\ IF AvailableAdvance > 0 /\ due > 0
     THEN /\ Goto(w, "apply") /\ UNCHANGED locks
          /\ See(w, [seen[w] EXCEPT !.amt = Lesser(due, AvailableAdvance)])
     ELSE End(w)
  /\ UNCHANGED data

\* Mutant of PaidUnchanged: an update by id.
AnyPaid(w) == TRUE

\* updateMany ... WHERE paid = the value read.
PaidUnchanged(w) == paid[on[w]] = seen[w].paid

ApplyWrite(w) ==
  LET p == on[w] r == seen[w] IN
  /\ pc[w] = "apply" /\ Writable(w, {p})
  /\ IF PaidUnchanged(w)
     THEN /\ paid' = [paid EXCEPT ![p] = r.paid + r.amt]
          /\ applied' = [applied EXCEPT ![p] = r.applied + r.amt]
          /\ poStatus' = [poStatus EXCEPT ![p] = Settled(r.status, p, r.paid + r.amt)]
     ELSE UNCHANGED orderVars
  /\ End(w)
  /\ UNCHANGED <<ledgerVars, billVars, payVars>>

-----------------------------------------------------------------------------
(* ProcurementService.recordPayment and FinanceService.createPayment. *)

\* What is still due on the bill of p, or on p itself.
Outstanding(p, billed) ==
  IF billed THEN Total[p] - billAdvance[p] - BillPayments(p) ELSE Total[p] - paid[p]

\* The idempotency key and the outstanding amount are checked without a lock.
\* A payment is for an order, for an order's bill, or on account.
PayCheck(w, k, p, a, billed) ==
  /\ pay[k] = 0
  /\ IF p = None THEN ~billed ELSE poStatus[p] # "none" /\ a <= Outstanding(p, billed)
  /\ billed => bill[p] # "none"
  /\ Start(w, IF p = None THEN "payOnAccount" ELSE "pay", "payLock", p)
  /\ See(w, [NothingSeen EXCEPT !.amt = a, !.key = k, !.billed = billed])
  /\ UNCHANGED <<data, locks>>

\* Mutant of KeyFree: the column is not unique.
KeyUnconstrained(k) == TRUE

\* Payment.idempotencyKey is unique.
KeyFree(k) == pay[k] = 0

\* The payment's number is taken and the payment inserted; a used key aborts.
\* Then the newest ledger row is read.
PayLock(w) ==
  /\ pc[w] = "payLock" /\ KeyFree(seen[w].key) /\ Increment(w, "VPAY")
  /\ Goto(w, "payPO")
  /\ See(w, [seen[w] EXCEPT !.bal = LastBalance])
  /\ UNCHANGED <<data, poLock>>

PayRefused(w) ==
  /\ pc[w] = "payLock" /\ seqLock["VPAY"] = None /\ ~KeyFree(seen[w].key)
  /\ End(w) /\ UNCHANGED data

PayReadPO(w) ==
  /\ pc[w] = "payPO" /\ Goto(w, "payTotals")
  /\ IF on[w] = None THEN UNCHANGED seen
     ELSE See(w, [seen[w] EXCEPT !.paid = paid[on[w]], !.status = poStatus[on[w]]])
  /\ UNCHANGED <<data, locks>>

\* A bill is paid once payments and its advance cover it.
BillAfterPayment(p, a) ==
  IF BillPayments(p) + a + billAdvance[p] >= Total[p]
  THEN [bill EXCEPT ![p] = "PAID"] ELSE bill

\* Mutant of PaidAfter: the whole payment counts.
PaidAfterUncapped(p, old, a) == old + a

\* The order's paid after a payment: raised to its total at most, or lowered to it.
PaidAfter(p, old, a) == old + Lesser(a, Total[p] - old)

\* What the payment has written and not committed: its entry and its order's columns.
PaymentRow(r) == Row("DEBIT", r.amt, r.bal - r.amt, "PAYMENT", r.key)

PaidBy(p, r) == IF p = None THEN paid ELSE [paid EXCEPT ![p] = PaidAfter(p, r.paid, r.amt)]

StatusBy(p, r) ==
  IF p = None THEN poStatus
  ELSE [poStatus EXCEPT ![p] = Settled(r.status, p, PaidAfter(p, r.paid, r.amt))]

\* The order is written, which locks its row; then settlement reads the debits and
\* what all orders show as paid, then the orders on which something is due.
PayTotals(w) ==
  LET p == on[w] IN
  /\ pc[w] = "payTotals" /\ Goto(w, "payDue")
  /\ IF p = None THEN UNCHANGED poLock
     ELSE Writable(w, {p}) /\ poLock' = [poLock EXCEPT ![p] = w]
  /\ See(w, [seen[w] EXCEPT !.free = Unapplied(Append(rows, PaymentRow(seen[w])), PaidBy(p, seen[w]),
                                                StatusBy(p, seen[w]))])
  /\ UNCHANGED <<data, seqLock>>

PayDue(w) ==
  /\ pc[w] = "payDue" /\ Goto(w, "payWrite")
  /\ See(w, [seen[w] EXCEPT !.due = DueOf(PaidBy(on[w], seen[w]), StatusBy(on[w], seen[w]))])
  /\ UNCHANGED <<data, locks>>

PayWrite(w) ==
  LET p == on[w] r == seen[w] s == Settle(r, PaidBy(p, r), StatusBy(p, r)) IN
  /\ pc[w] = "payWrite" /\ Writable(w, {q \in Po : Share(r)[q] > 0})
  /\ rows' = Append(rows, PaymentRow(r))
  /\ pay' = [pay EXCEPT ![r.key] = r.amt]
  /\ payBill' = [payBill EXCEPT ![r.key] = IF r.billed THEN p ELSE None]
  /\ paid' = s.paid /\ poStatus' = s.status
  /\ bill' = IF r.billed THEN BillAfterPayment(p, r.amt) ELSE bill
  /\ End(w)
  /\ UNCHANGED <<opening, returnVars, applied, billAdvance>>

-----------------------------------------------------------------------------
(* ProcurementService.createPurchaseOrder: the credit it may use is read    *)
(* before the transaction; money beyond that credit is a new advance.  Any  *)
(* advance is taken, one above the order's total too.                       *)

NewRead(w, p, a) ==
  /\ poStatus[p] = "none" /\ \A v \in Worker : on[v] # p
  /\ Start(w, "newPO", "newLock", p)
  /\ See(w, [NothingSeen EXCEPT !.applied = Lesser(a, AvailableAdvance), !.amt = a])
  /\ UNCHANGED <<data, locks>>

NewLock(w) ==
  /\ pc[w] = "newLock" /\ seqLock["PO"] = None
  /\ seen[w].amt > seen[w].applied => seqLock["VPAY"] = None
  /\ seqLock' = [s \in Sequence |->
                   IF s = "PO" \/ seen[w].amt > seen[w].applied THEN w ELSE seqLock[s]]
  /\ See(w, [seen[w] EXCEPT !.bal = LastBalance])
  /\ Goto(w, "newWrite")
  /\ UNCHANGED <<data, poLock>>

NewWrite(w) ==
  LET p == on[w] r == seen[w] fresh == r.amt - r.applied IN
  /\ pc[w] = "newWrite"
  /\ rows' = IF fresh > 0 THEN Append(rows, Row("DEBIT", fresh, r.bal - fresh, "ADVANCE", p))
                          ELSE rows
  /\ poStatus' = [poStatus EXCEPT ![p] = "APPROVED"]
  /\ paid' = [paid EXCEPT ![p] = r.amt]
  /\ applied' = [applied EXCEPT ![p] = r.applied]
  /\ End(w)
  /\ UNCHANGED <<opening, returnVars, billVars, payVars>>

-----------------------------------------------------------------------------
(* GRNService.approve posts the bill of a received order, with the order    *)
(* locked, through VendorInvoiceService.recognizeLiability.                 *)

LockOrder(w, p) == poLock[p] = None /\ poLock' = [poLock EXCEPT ![p] = w]

\* The order is locked and the bill's number taken, then the newest row is read.
BillLock(w, p) ==
  /\ poStatus[p] = "APPROVED" /\ bill[p] = "none"
  /\ Start(w, "bill", "billTotals", p)
  /\ LockOrder(w, p) /\ Increment(w, "GRN_BILL")
  /\ See(w, [NothingSeen EXCEPT !.bal = LastBalance])
  /\ UNCHANGED data

\* The orders as the bill's settlement sees them.
Received(p) == [poStatus EXCEPT ![p] = "RECEIVED"]

BillTotals(w) ==
  /\ pc[w] = "billTotals" /\ Goto(w, "billDue")
  /\ See(w, [seen[w] EXCEPT !.free = Unapplied(rows, paid, Received(on[w]))])
  /\ UNCHANGED <<data, locks>>

BillDue(w) ==
  /\ pc[w] = "billDue" /\ Goto(w, "bill")
  /\ See(w, [seen[w] EXCEPT !.due = DueOf(paid, Received(on[w]))])
  /\ UNCHANGED <<data, locks>>

BillPost(w) ==
  LET p == on[w] r == seen[w] s == Settle(r, paid, Received(p)) advance == Lesser(Total[p], applied[p]) IN
  /\ pc[w] = "bill" /\ Writable(w, {q \in Po : Share(r)[q] > 0})
  /\ rows' = Append(rows, Row("CREDIT", Total[p], r.bal + Total[p], "PURCHASE", p))
  /\ bill' = [bill EXCEPT ![p] = IF advance >= Total[p] THEN "PAID" ELSE "PENDING"]
  /\ billAdvance' = [billAdvance EXCEPT ![p] = advance]
  /\ paid' = s.paid /\ poStatus' = s.status
  /\ End(w)
  /\ UNCHANGED <<opening, returnVars, applied, payVars>>

\* VendorInvoiceService.approve: the liability is there already, so only the
\* status moves, unless the bill was read as paid.
ApproveBillRead(w, p) ==
  /\ bill[p] \in {"PENDING", "APPROVED"}
  /\ Start(w, "approveBill", "approveBill", p)
  /\ UNCHANGED <<data, locks, seen>>

ApproveBillWrite(w) ==
  /\ pc[w] = "approveBill"
  /\ bill' = [bill EXCEPT ![on[w]] = "APPROVED"]
  /\ End(w)
  /\ UNCHANGED <<ledgerVars, orderVars, billAdvance, payVars>>

-----------------------------------------------------------------------------
(* Entries of other origins. *)

\* ProcurementService.cancelPO: the reversal row's balance is left at its
\* schema default, 0.
CancelRead(w, p) ==
  /\ poStatus[p] \notin {"none", "RECEIVED", "CANCELLED"}
  /\ Start(w, "cancel", "cancel", p)
  /\ UNCHANGED <<data, locks, seen>>

CancelWrite(w) ==
  LET p == on[w] IN
  /\ pc[w] = "cancel" /\ Writable(w, {p})
  /\ rows' = Append(rows, Row("CREDIT", Total[p], 0, "ADJUSTMENT", p))
  /\ poStatus' = [poStatus EXCEPT ![p] = "CANCELLED"]
  /\ End(w)
  /\ UNCHANGED <<opening, returnVars, paid, applied, billVars, payVars>>

\* ProcurementService.recordAdjustment: the balance is computed in one
\* transaction and the row written in another.
AdjustRead(w, t, a) ==
  /\ Start(w, "adjust", "adjust", None)
  /\ See(w, [NothingSeen EXCEPT !.amt = a, !.type = t,
                                !.bal = LastBalance + IF t = "CREDIT" THEN a ELSE -a])
  /\ UNCHANGED <<data, locks>>

AdjustWrite(w) ==
  LET r == seen[w] IN
  /\ pc[w] = "adjust"
  /\ rows' = Append(rows, Row(r.type, r.amt, r.bal, "ADJUSTMENT", None))
  /\ End(w)
  /\ UNCHANGED <<opening, returnVars, orderVars, billVars, payVars>>

\* A pending purchase return is created; its date is that of its later row.
ReturnCreate(w) ==
  /\ "return" \in ops /\ pc[w] = "idle" /\ retStatus = "none"
  /\ retStatus' = "PENDING" /\ retAt' = Len(rows)
  /\ UNCHANGED <<rows, opening, orderVars, billVars, payVars, locks, pc, on, seen>>

\* The return's entry, dated as the return is.
PostReturn(w) ==
  rows' = InsertAt(rows, retAt + 1,
                   Row("DEBIT", seen[w].amt, seen[w].bal - seen[w].amt, "RETURN", None))

\* PurchaseService.recognizeReturn, under the claim of updatePurchaseReturn.
ReturnRead(w) ==
  /\ retStatus = "PENDING" /\ \A v \in Worker : pc[v] # "return"
  /\ Start(w, "return", "return", None)
  /\ See(w, [NothingSeen EXCEPT !.bal = LastBalance, !.amt = ReturnAmount])
  /\ UNCHANGED <<data, locks>>

ReturnWrite(w) ==
  /\ pc[w] = "return"
  /\ PostReturn(w)
  /\ retStatus' = "COMPLETED" /\ UNCHANGED retAt
  /\ End(w)
  /\ UNCHANGED <<opening, orderVars, billVars, payVars>>

-----------------------------------------------------------------------------
(* Repairs that the vendor's pages make while they are shown.  Each looks   *)
(* for an entry and, in another transaction, adds the one that is missing.  *)

HasRow(kind) == \E i \in DOMAIN rows : rows[i].kind = kind

\* ProcurementService.getVendorLedger: a completed return without an entry.
SyncRead(w) ==
  /\ retStatus = "COMPLETED" /\ ~HasRow("RETURN")
  /\ Start(w, "sync", "sync", None)
  /\ See(w, [NothingSeen EXCEPT !.bal = LastBalance, !.amt = ReturnAmount])
  /\ UNCHANGED <<data, locks>>

SyncWrite(w) ==
  /\ pc[w] = "sync"
  /\ PostReturn(w)
  /\ End(w)
  /\ UNCHANGED <<opening, returnVars, orderVars, billVars, payVars>>

\* The vendor's opening balance as an entry: a debt to the vendor is a credit.
OpeningRow(b) ==
  Row(IF b > 0 THEN "CREDIT" ELSE "DEBIT", IF b > 0 THEN b ELSE -b, b, "OPENING_BALANCE", None)

\* It is dated before every other entry.
AddOpening(b) ==
  /\ rows' = InsertAt(rows, 1, OpeningRow(b))
  /\ retAt' = IF retStatus = "none" THEN retAt ELSE retAt + 1

\* getVendors and getVendorById: an opening balance without an entry.
InjectRead(w) ==
  /\ opening # 0 /\ ~HasRow("OPENING_BALANCE")
  /\ Start(w, "inject", "inject", None)
  /\ See(w, [NothingSeen EXCEPT !.bal = opening])
  /\ UNCHANGED <<data, locks>>

InjectWrite(w) ==
  /\ pc[w] = "inject"
  /\ AddOpening(seen[w].bal)
  /\ End(w)
  /\ UNCHANGED <<opening, retStatus, orderVars, billVars, payVars>>

\* updateVendor: the vendor's row, which the update locks, and then the entry found for
\* it, rewritten, deleted or added. Later entries keep the balances they were given.
EditOpening(w, b) ==
  /\ \A v \in Worker : pc[v] # "editOpening"
  /\ Start(w, "editOpening", "editOpening", None)
  /\ See(w, [NothingSeen EXCEPT !.bal = b, !.billed = HasRow("OPENING_BALANCE")])
  /\ UNCHANGED <<data, locks>>

RewriteOpening(i, b) ==
  IF b # 0 THEN rows' = [rows EXCEPT ![i] = OpeningRow(b)] /\ UNCHANGED retAt
  ELSE rows' = RemoveAt(rows, i) /\ retAt' = IF retStatus = "none" THEN retAt ELSE retAt - 1

EditOpeningWrite(w) ==
  LET b == seen[w].bal IN
  /\ pc[w] = "editOpening"
  /\ opening' = b
  /\ IF seen[w].billed
     THEN \E i \in DOMAIN rows : rows[i].kind = "OPENING_BALANCE" /\ RewriteOpening(i, b)
     ELSE IF b = 0 THEN UNCHANGED <<rows, retAt>> ELSE AddOpening(b)
  /\ End(w)
  /\ UNCHANGED <<retStatus, orderVars, billVars, payVars>>

-----------------------------------------------------------------------------
Step(w) ==
  \/ AdvanceWrite(w)
  \/ ApplyReadAvailable(w) \/ ApplyWrite(w)
  \/ PayLock(w) \/ PayRefused(w) \/ PayReadPO(w) \/ PayTotals(w) \/ PayDue(w) \/ PayWrite(w)
  \/ NewLock(w) \/ NewWrite(w)
  \/ BillTotals(w) \/ BillDue(w) \/ BillPost(w) \/ ApproveBillWrite(w)
  \/ CancelWrite(w) \/ AdjustWrite(w) \/ ReturnWrite(w)
  \/ SyncWrite(w) \/ InjectWrite(w) \/ EditOpeningWrite(w)

Arrive(w) ==
  \/ \E p \in Po : ApplyRead(w, p) \/ BillLock(w, p) \/ ApproveBillRead(w, p) \/ CancelRead(w, p)
  \/ \E p \in Po, a \in Amounts : AdvanceRead(w, p, a) \/ NewRead(w, p, a)
  \/ \E k \in Key, p \in Po \cup {None}, a \in Amounts, billed \in BOOLEAN :
       PayCheck(w, k, p, a, billed)
  \/ \E t \in LedgerType, a \in Amounts : AdjustRead(w, t, a)
  \/ ReturnCreate(w) \/ ReturnRead(w) \/ SyncRead(w) \/ InjectRead(w)
  \/ \E b \in Openings : EditOpening(w, b)

Next == UNCHANGED ops /\ \E w \in Worker : Arrive(w) \/ Step(w) \/ Timeout(w)

Spec == Init /\ [][Next]_vars

-----------------------------------------------------------------------------
(* Properties. *)

\* Types: amounts are naturals, balances integers, statuses of their enums.
TypeOK ==
  /\ rows \in Seq([type : LedgerType, amount : Nat, bal : Int, kind : Kind,
                   ref : Po \cup Key \cup {None}])
  /\ ops \in Families /\ opening \in Int
  /\ poStatus \in [Po -> OrderStatus] /\ paid \in [Po -> Nat] /\ applied \in [Po -> Nat]
  /\ bill \in [Po -> BillStatus] /\ billAdvance \in [Po -> Nat]
  /\ pay \in [Key -> Nat] /\ payBill \in [Key -> Po \cup {None}]
  /\ retStatus \in {"none", "PENDING", "COMPLETED"} /\ retAt \in Nat
  /\ seqLock \in [Sequence -> Worker \cup {None}] /\ poLock \in [Po -> Worker \cup {None}]
  /\ pc \in [Worker -> PC] /\ on \in [Worker -> Po \cup {None}] /\ seen \in [Worker -> Seen]

\* The newest row's stored balance is the sum of the ledger, whatever payments
\* and new orders' advances interleave: the next entry is computed from what the
\* vendor is really owed.  Entries of other origins break it: BalanceExact.
RunningBalance ==
  (\A i \in DOMAIN rows : rows[i].kind \in {"PAYMENT", "ADVANCE"}) => LastBalance = VendorBalance

\* A payment retried under its idempotency key, concurrently or after a
\* timeout, reaches the ledger at most once.
OnePaymentPerKey ==
  \A k \in Key : Cardinality({i \in DOMAIN rows : rows[i].kind = "PAYMENT" /\ rows[i].ref = k}) <= 1

\* p is written by the request that creates it.
Created(p) == \E w \in Worker : pc[w] = "newWrite" /\ on[w] = p /\ pc'[w] = "idle"

\* Once an order exists, nothing raises what it shows as paid above its total, although
\* the outstanding amount is checked without a lock, and columns are written that were
\* read several steps before: payments, advances, applied credit and settlements of
\* several orders meet on one order.  Its creation may, for any advance is taken:
\* PaidWithinTotal.
PaidRaisedWithinTotal ==
  [][\A p \in Po : paid'[p] > paid[p] => paid'[p] <= Total[p] \/ Created(p)]_vars

\* No order reserves more advance than the vendor was ever paid, however often and
\* concurrently it is asked for, beside payments on account, cancellations and new
\* orders: a write that is conditional on the paid column alone protects the other
\* column too.  Requests that set paid back to what they read undo this, as payments for
\* orders, advances and settlements do: ReservedWithinDebits.
AppliedWithinCredit ==
  ops \cap {"pay", "advance", "bill", "editOpening"} = {} => \A p \in Po : applied[p] <= Debits(rows)

\* A billed order's liability is in the ledger exactly once.
LiabilityOnce ==
  \A p \in Po :
    Cardinality({i \in DOMAIN rows : rows[i].kind = "PURCHASE" /\ rows[i].ref = p}) =
      IF bill[p] = "none" THEN 0 ELSE 1

(* What the code's comments say and the model refutes. *)

\* "balanceAfterTransaction must be computed": every entry leaves the newest row
\* with the ledger's sum.
BalanceExact == LastBalance = VendorBalance

\* "available" advance: open orders together reserve no more than was paid.
AppliedWithinDebits == SumOf(applied, Reserving) <= Debits(rows)

\* The same of one order.
ReservedWithinDebits == \A p \in Po : applied[p] <= Debits(rows)

\* "instead of silently applying advance a second time on stale numbers": who finds
\* paid as it read it finds the advance applied so far as well.
AppliedOnFreshNumbers ==
  \A w \in Worker : pc[w] = "apply" /\ PaidUnchanged(w) => applied[on[w]] = seen[w].applied

\* "The difference is the unapplied ... balance": as long as no credit is reserved,
\* settlement spreads no debit over two orders.
MoneyNotInvented ==
  (\A i \in DOMAIN rows : rows[i].kind \in {"PAYMENT", "PURCHASE"}) /\ (\A p \in Po : applied[p] = 0)
    => SumOf(paid, {p \in Po : poStatus[p] \notin {"none", "CANCELLED"}}) <= Debits(rows)

\* "Reject anything beyond that": payments and advance never exceed a bill.
BillNotOverpaid ==
  \A p \in Po : bill[p] # "none" => BillPayments(p) + billAdvance[p] <= Total[p]

\* "That field is capped at po.totalAmount" (procurement.service.ts:1396), but not when the
\* order is created with an advance.
PaidWithinTotal == \A p \in Po : paid[p] <= Total[p]

\* "moves the status to APPROVED ... unless it's already PAID": a paid bill
\* stays paid.
PaidBillStaysPaid == [][\A p \in Po : bill[p] = "PAID" => bill'[p] = "PAID"]_vars

\* "Auto-repair": a completed return is in the ledger once, whoever looks at it.
ReturnPostedOnce == Cardinality({i \in DOMAIN rows : rows[i].kind = "RETURN"}) <= 1

\* "Synchronize Opening Balance Ledger Entry": one entry, of the vendor's balance.
OpeningSynchronized ==
  \A i \in DOMAIN rows :
    rows[i].kind = "OPENING_BALANCE" =>
      /\ rows[i] = OpeningRow(opening)
      /\ \A j \in DOMAIN rows : rows[j].kind = "OPENING_BALANCE" => j = i

=============================================================================
