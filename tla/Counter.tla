------------------------------ MODULE Counter ------------------------------
(***************************************************************************)
(* POSService: step-by-step orders, counter sales and the day's closing.   *)
(***************************************************************************)
EXTENDS Books

\* createInvoiceFromOrder: PAID once the order is completed, paid for or not.
FromOrder(o) ==
  [st |-> IF order[o].flag = "PAID" \/ order[o].st = "COMPLETED" THEN "PAID" ELSE "UNPAID",
   net |-> order[o].net, day |-> IF invoice[o].st = "none" THEN today ELSE invoice[o].day]

\* What a sale to the tracked customer, or its payment, adds to the ledger.
Owes(o, amt) == IF order[o].party = "CUSTOMER" THEN <<Row(o, amt)>> ELSE <<>>

-----------------------------------------------------------------------------
(* Orders, step by step. *)

CreateOrder(w) ==
  /\ OneStep(w, "createOrder")
  /\ \E o \in mix.about, p \in {"CUSTOMER", "WALKIN"} :
       /\ order[o].st = "none"
       /\ order' = [order EXCEPT ![o] = [NoOrder EXCEPT !.st = "PENDING", !.party = p, !.day = today]]
  /\ UNCHANGED <<fixed, stock, invoice, money, docs, days>>

\* The total is summed over the lines seen: those committed, and its own of `qty` units.
AddItems(w) ==
  /\ \E o \in mix.about : \E qty \in 1..(MaxUnits - lines[o]) :
       /\ order[o].st # "none"
       /\ Start(w, "addItems", "addTotal", o, [qty |-> qty, units |-> lines[o] + qty])
  /\ UNCHANGED data

\* The line carries the tax of one of its units, the order that of its total.
AddTotal(w) ==
  /\ pc[w] = "addTotal"
  /\ lines' = [lines EXCEPT ![on[w]] = @ + seen[w].qty]
  /\ lineTax' = [lineTax EXCEPT ![on[w]] = @ + Tax(Price)]
  /\ order' = [order EXCEPT ![on[w]].net = Price * seen[w].units]
  /\ Finish(w)
  /\ UNCHANGED <<fixed, deducted, moves, currentStock, invoice, money, docs, days>>

\* Mutant of NextOfStatus: the status first, then the stock.
StatusFirst(s) == "status"

Deducts(s) == s \in {"READY", "COMPLETED"}

\* READY and COMPLETED take the goods out of stock before the status is written.
NextOfStatus(s) == IF Deducts(s) THEN "deduct" ELSE "status"

\* Whether the goods left is read here, and not looked at again.
SetStatus(w) ==
  /\ \E o \in mix.about, s \in OrderStatus :
       /\ order[o].st # "none" /\ Len(ledger) - Len(mix.ledger) < MaxRows
       /\ Start(w, "setStatus", NextOfStatus(s), o,
                IF Deducts(s) THEN [status |-> s, deducted |-> deducted[o], units |-> lines[o]] ELSE [status |-> s])
  /\ UNCHANGED data

\* deductInventoryIfNecessary: a transaction of its own.
Deduct(w) ==
  /\ pc[w] = "deduct"
  /\ LET qty == IF seen[w].deducted THEN 0 ELSE seen[w].units
     IN Available(on[w], qty) /\ TakeOut(qty, on[w])
  /\ deducted' = [deducted EXCEPT ![on[w]] = TRUE]
  /\ pc' = [pc EXCEPT ![w] = "status"] /\ seen' = [seen EXCEPT ![w] = [status |-> @.status]]
  /\ UNCHANGED <<fixed, order, lines, lineTax, invoice, money, docs, days, on>>

WriteStatus(w) ==
  /\ pc[w] = "status"
  /\ order' = [order EXCEPT ![on[w]].st = seen[w].status]
  /\ IF seen[w].status = "COMPLETED" THEN Goto(w, "postSale") ELSE Finish(w)
  /\ UNCHANGED <<fixed, stock, invoice, money, docs, days>>

\* The debit and the invoice are written one after the other; the failure of
\* either is logged and forgotten.
PostSale(w) ==
  /\ pc[w] = "postSale" /\ Goto(w, "postInvoice")
  /\ ledger' = ledger \o Owes(on[w], Gross(on[w]))
  /\ UNCHANGED <<fixed, order, stock, invoice, pay, cash, docs, days>>

PostInvoice(w) ==
  /\ pc[w] = "postInvoice" /\ Finish(w)
  /\ invoice' = [invoice EXCEPT ![on[w]] = FromOrder(on[w])]
  /\ UNCHANGED <<fixed, order, stock, money, docs, days>>

SwallowPost(w) ==
  /\ pc[w] = "postSale" /\ Goto(w, "postInvoice")
  /\ UNCHANGED data

-----------------------------------------------------------------------------
(* payOrder and checkout. *)

\* The invoice is made if there is none, and what is outstanding on it must
\* cover the order's total.
PayOrder(w) ==
  /\ \E o \in mix.about :
       LET made == IF invoice[o].st = "none" THEN FromOrder(o) ELSE invoice[o]
       IN /\ order[o].st # "none" /\ made.st # "CANCELLED"
          /\ Gross(o) > 0 /\ Gross(o) <= WithTax(made.net) - PaidOn(o)
          /\ Start(w, "payOrder", "payWrite", o, [amt |-> Gross(o), fresh |-> invoice[o].st = "none"])
  /\ UNCHANGED data

\* createPayment writes the customer's credit, payOrder another one.
PayWrite(w) ==
  /\ pc[w] = "payWrite"
  /\ LET o   == on[w]
         amt == seen[w].amt
         inv == IF seen[w].fresh THEN FromOrder(o) ELSE invoice[o]
     IN /\ Record(Payment("POS", o, order[o].party, amt, "IN", "DIRECT"), Owes(o, -amt))
        /\ invoice' = [invoice EXCEPT ![o] = [inv EXCEPT !.st = StatusFor(PaidOn(o) + amt, WithTax(inv.net))]]
        /\ order' = [order EXCEPT ![o].flag = "PAID"]
  /\ Finish(w)
  /\ UNCHANGED <<fixed, stock, docs, days>>

\* A settled day takes no counter sale: asked before the sale's transaction.
DayOpen == settled[today] = None

Checkout(w) ==
  /\ DayOpen
  /\ Start(w, "checkout", "checkoutWrite", None, None)
  /\ UNCHANGED data

\* A sale that is not on credit is paid in full; one on credit has a party, and is paid
\* in full, in part or not at all.
Collected(p, total) == IF p = "WALKIN" THEN {total} ELSE {0, 1, total}

\* Order, invoice, payment, the customer's debit and the stock, in one transaction.
CheckoutWrite(w) ==
  /\ pc[w] = "checkoutWrite"
  /\ \E o \in mix.about, p \in {"CUSTOMER", "WALKIN"} :
       LET total == Price + Tax(Price)
       IN \E got \in Collected(p, total) :
            /\ order[o].st = "none" /\ ~Sold[o].service /\ Available(o, 1)
            /\ order' = [order EXCEPT ![o] = Sale("TAX_INVOICE", p, Price, StatusFor(got, total), today)]
            /\ invoice' = [invoice EXCEPT ![o] =
                 [st |-> IF got = 0 THEN "PENDING" ELSE StatusFor(got, total), net |-> Price, day |-> today]]
            /\ LET owed == IF p = "CUSTOMER" THEN <<Row(o, total)>> ELSE <<>>
               IN IF got > 0 THEN Record(Payment("POS", o, p, got, "IN", "DIRECT"), owed)
                  ELSE ledger' = ledger \o owed /\ UNCHANGED <<pay, cash>>
            /\ lines' = [lines EXCEPT ![o] = 1] /\ lineTax' = [lineTax EXCEPT ![o] = Tax(Price)]
            /\ deducted' = [deducted EXCEPT ![o] = TRUE] /\ TakeOut(1, o)
  /\ Finish(w)
  /\ UNCHANGED <<fixed, docs, days>>

-----------------------------------------------------------------------------
(* The day's closing. *)

DayCompleted(d) == {o \in Order : order[o].st = "COMPLETED" /\ order[o].day = d}
Short(o)     == IF Gross(o) > PaidOn(o) THEN Gross(o) - PaidOn(o) ELSE 0

\* getDailySummary reads the day's completed orders with their payments ...
DayOrders(d) ==
  [grand |-> MapThenSumSet(Gross, DayCompleted(d)), credit |-> MapThenSumSet(Short, DayCompleted(d))]

\* ... then the day's receipts, those on earlier days' orders among them, and refunds.
Receipt(p, d) == p.src = "POS" /\ p.of \in Order /\ p.st = "PAID" /\ p.day = d
DayReceipts(d) ==
  [taken |-> PaidSum(LAMBDA p : Receipt(p, d)),
   earlier |-> PaidSum(LAMBDA p : Receipt(p, d) /\ order[p.of].day < d)]

CloseDay(w) ==
  /\ Start(w, "closeDay", "closeReceipts", today, DayOrders(today))
  /\ UNCHANGED data

\* Mutant of Reconciled: what was taken need not be what is expected.
Unreconciled(o, r) == TRUE

Reconciled(o, r) == r.taken = o.grand - o.credit + r.earlier

\* A day that does not reconcile, or is settled, is not closed.
CloseReceipts(w) ==
  /\ pc[w] = "closeReceipts"
  /\ settled[on[w]] = None
  /\ Reconciled(seen[w], DayReceipts(on[w]))
  /\ pc' = [pc EXCEPT ![w] = "closeWrite"]
  /\ seen' = [seen EXCEPT ![w] = [grand |-> @.grand, credit |-> @.credit,
                                  taken |-> DayReceipts(on[w]).taken, earlier |-> DayReceipts(on[w]).earlier]]
  /\ UNCHANGED <<data, on>>

\* One row per day: a unique column.
CloseWrite(w) ==
  /\ pc[w] = "closeWrite" /\ settled[on[w]] = None
  /\ settled' = [settled EXCEPT ![on[w]] = seen[w]]
  /\ Finish(w)
  /\ UNCHANGED <<fixed, order, stock, invoice, money, docs, today>>

-----------------------------------------------------------------------------
(* The stock is counted. *)

\* adjustStock: what the ledger says is read, and not read again under a lock.
AdjustStock(w) ==
  /\ \E i \in Item, counted \in 0..1 :
       /\ counted # OnHand(i) /\ Len(moves) < MaxMoves
       /\ Start(w, "adjustStock", "adjust", i, [diff |-> counted - OnHand(i)])
  /\ UNCHANGED data

\* The difference is recorded; lots that fall short do not refuse it.
AdjustWrite(w) ==
  /\ pc[w] = "adjust"
  /\ RecordMovement(Moved("ADJUSTMENT", seen[w].diff, on[w]))
  /\ Finish(w)
  /\ UNCHANGED <<fixed, order, lines, lineTax, deducted, invoice, money, docs, days>>

-----------------------------------------------------------------------------

\* Midnight.
NextDay ==
  /\ "nextDay" \in mix.ops /\ today < MaxDay
  /\ today' = today + 1
  /\ UNCHANGED <<fixed, order, stock, invoice, money, docs, settled, pc, on, seen>>

-----------------------------------------------------------------------------

CounterStep(w) ==
  \/ AddTotal(w) \/ Deduct(w) \/ WriteStatus(w) \/ PostSale(w) \/ PostInvoice(w) \/ SwallowPost(w)
  \/ PayWrite(w) \/ CheckoutWrite(w) \/ CloseReceipts(w) \/ CloseWrite(w) \/ AdjustWrite(w)

CounterArrive(w) ==
  \/ CreateOrder(w) \/ AddItems(w) \/ SetStatus(w) \/ PayOrder(w) \/ Checkout(w) \/ CloseDay(w)
  \/ AdjustStock(w)
=============================================================================
