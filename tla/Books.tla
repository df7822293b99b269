------------------------------- MODULE Books --------------------------------
(***************************************************************************)
(* The tables that the counter (POSService), the cash book (FinanceService,*)
(* ChequeService, PayrollService) and the reports share.  One branch, one  *)
(* tracked customer, one dealer; every sale is of units of one product,    *)
(* every account's balance is in one total.                                *)
(*                                                                         *)
(* A request reads in the step by which it arrives and writes, by          *)
(* committing, in a later one.  A payment is numbered under a lock that is *)
(* held until it commits, so what follows the number is the same step.     *)
(***************************************************************************)
EXTENDS Integers, FiniteSetsExt, SequencesExt

CONSTANTS
  Worker,     \* requests that may be in flight together
  None,       \* no row
  Order, Expense, Slip, Cheque, Bill, Return,   \* ids of the tables' rows
  Item,       \* what is stocked
  CategoryOf, \* the category of each item
  Sold,       \* what each order's lines sell: item, product's category, whether it is a service
  MaxUnits,   \* bound: units on an order when items are added
  MaxDay,     \* bound: business days
  MaxPay,     \* bound: payments recorded
  MaxMoves,   \* bound: movements when a count begins
  MaxRows,    \* bound: ledger rows added when a status is set
  MaxLoan,    \* bound: what is due, or was paid, when an entry is made
  Mixes       \* families of requests, with the orders they are about and the rows that were there

Day == 1..MaxDay

Party == {"CUSTOMER", "DEALER", "WALKIN"}
OrderStatus == {"READY", "COMPLETED", "CANCELLED", "REFUNDED"}   \* those a request may ask for

VARIABLES
  mix,       \* the member of Mixes this behaviour is about
  order,     \* Order rows; st "none" before they exist
  lines,     \* per order: units in OrderItem rows
  lineTax,   \* per order: what its OrderItem rows' taxAmount come to
  deducted,  \* Order.inventory_deducted
  moves,     \* StockMovement rows; qty is signed, base what counts as stock
  currentStock,  \* InventoryItem.currentStock
  invoice,   \* Invoice rows by order
  ledger,    \* rows of the tracked customer's ledger, debits positive
  pay,       \* Payment rows
  cash,      \* what the accounts hold
  expense, slip, cheque,
  loan, txns, \* a LoanAccount row, and its LoanTransaction rows
  bill, ret, \* purchases with their bills and debit notes; customers' returns
  settled,   \* DailySettlement by day
  today,
  pc, on, seen

fixed == <<mix, bill, ret>>
stock == <<lines, lineTax, deducted, moves, currentStock>>
money == <<ledger, pay, cash>>
docs  == <<expense, slip, cheque, loan, txns>>
days  == <<settled, today>>
data  == <<fixed, order, stock, invoice, money, docs, days>>
vars  == <<data, pc, on, seen>>

-----------------------------------------------------------------------------
(* Rows. *)

\* Every unit costs twenty, and is taxed at five per cent.
Price  == 20
Tax(n) == n \div 20

\* disc: a discount on the whole order. net: what is taxed. inter: sold to another state.
NoOrder == [st |-> "none", type |-> "TAX_INVOICE", party |-> "WALKIN", net |-> 0, disc |-> 0,
            day |-> 1, flag |-> "UNPAID", inter |-> FALSE]
NoInvoice == [st |-> "none", net |-> 0, day |-> 1]

WithTax(n) == n + Tax(n)
Gross(o)   == WithTax(order[o].net)     \* Order.totalAmount
Final(o)   == WithTax(invoice[o].net)   \* Invoice.finalAmount

Sale(t, p, n, f, d) ==
  [NoOrder EXCEPT !.st = "COMPLETED", !.type = t, !.party = p, !.net = n, !.day = d, !.flag = f]

\* flow is not a column: it is the direction in which the account was moved.
Payment(src, of, p, amt, flow, type) ==
  [src |-> src, of |-> of, party |-> p, amt |-> amt, flow |-> flow, type |-> type,
   day |-> today, st |-> "PAID"]

Row(ref, amt) == [ref |-> ref, amt |-> amt, day |-> today]

Moved(type, qty, o) == [type |-> type, qty |-> qty, base |-> qty, day |-> today, of |-> o]

\* What was moved: sold on an order, bought by a purchase, or counted.
ItemOf(m) == CASE m.of \in Order -> Sold[m.of].item
               [] m.of \in Bill  -> bill[m.of].item
               [] OTHER          -> m.of

MovesOf(i) == {k \in DOMAIN moves : ItemOf(moves[k]) = i}

\* computeStock.
OnHand(i) == MapThenSumSet(LAMBDA k : moves[k].base, MovesOf(i))

\* The goods are there by the item's row, or the request is refused; a service takes none.
Available(o, qty) == Sold[o].service \/ currentStock[Sold[o].item] >= qty

\* recordMovement: the item's row is incremented, and the movement recorded.
RecordMovement(m) ==
  /\ moves' = Append(moves, m)
  /\ currentStock' = [currentStock EXCEPT ![ItemOf(m)] = @ + m.base]

\* An order's goods leave.
TakeOut(qty, o) ==
  IF Sold[o].service \/ qty = 0 THEN UNCHANGED <<moves, currentStock>>
  ELSE RecordMovement(Moved("SALES_OUT", -qty, o))

Signed(p) == IF p.flow = "IN" THEN p.amt ELSE -p.amt

\* Positions of the payment rows that satisfy P.
PaidRows(P(_)) == {i \in DOMAIN pay : P(pay[i])}
PaidSum(P(_))  == MapThenSumSet(LAMBDA i : pay[i].amt, PaidRows(P))

LedgerSum(P(_)) ==
  MapThenSumSet(LAMBDA i : ledger[i].amt, {i \in DOMAIN ledger : P(ledger[i])})

\* getInvoicePaidAmount, for receipts linked to the invoice's order.
PaidOn(o) == PaidSum(LAMBDA p : p.of = o /\ p.st = "PAID")

-----------------------------------------------------------------------------
(* Requests. *)

Start(w, op, p, r, s) ==
  /\ op \in mix.ops /\ pc[w] = "idle"
  /\ pc' = [pc EXCEPT ![w] = p] /\ on' = [on EXCEPT ![w] = r] /\ seen' = [seen EXCEPT ![w] = s]

Goto(w, p)   == pc' = [pc EXCEPT ![w] = p] /\ UNCHANGED <<on, seen>>
Finish(w)    == pc' = [pc EXCEPT ![w] = "idle"] /\ on' = [on EXCEPT ![w] = None] /\ seen' = [seen EXCEPT ![w] = None]

\* A request that does everything in one step.
OneStep(w, op) == op \in mix.ops /\ pc[w] = "idle" /\ UNCHANGED <<pc, on, seen>>

\* A request is abandoned with its uncommitted writes: a rejection after the first
\* read, a timeout, a crash between two transactions.
Abandon(w) == pc[w] # "idle" /\ Finish(w) /\ UNCHANGED data

\* PAID is decided by what is paid in all, not by what this payment adds.
StatusFor(paid, final) ==
  IF paid >= final THEN "PAID" ELSE IF paid > 0 THEN "PARTIAL" ELSE "UNPAID"

\* createPayment: the payment row, a ledger row when the customer paid or was paid,
\* the balance. `extra` is what else the request adds to the ledger.
Record(p, extra) ==
  /\ Len(pay) < MaxPay
  /\ pay' = Append(pay, p)
  /\ cash' = cash + Signed(p)
  /\ ledger' = (IF p.party = "CUSTOMER" THEN Append(ledger, Row(Len(pay) + 1, -Signed(p))) ELSE ledger) \o extra

\* Funds are checked on a balance read before any lock.
Covered(amt) == amt > 0 /\ cash >= amt

Init ==
  /\ mix \in Mixes
  /\ order = mix.order /\ invoice = mix.invoice /\ ledger = mix.ledger /\ pay = mix.pay
  /\ lines = [o \in Order |-> (mix.order[o].net + mix.order[o].disc) \div Price]
  /\ lineTax = [o \in Order |-> Tax(mix.order[o].net)]
  /\ deducted = [o \in Order |-> \E i \in DOMAIN mix.moves : mix.moves[i].of = o]
  /\ moves = mix.moves /\ cash = mix.cash /\ expense = mix.expense /\ bill = mix.bill /\ ret = mix.ret
  /\ currentStock = [i \in Item |-> OnHand(i)]
  /\ slip = [s \in Slip |-> "none"] /\ cheque = mix.cheque
  /\ loan = [st |-> "none", due |-> 0, paid |-> 0] /\ txns = <<>>
  /\ settled = [d \in Day |-> None] /\ today = mix.today
  /\ pc = [w \in Worker |-> "idle"] /\ on = [w \in Worker |-> None] /\ seen = [w \in Worker |-> None]
=============================================================================
