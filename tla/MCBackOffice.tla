---------------------------- MODULE MCBackOffice -----------------------------
(***************************************************************************)
(* A small instance of BackOffice: two days, two requests in flight, three *)
(* orders.  Each mix is a family of requests over the books of an earlier  *)
(* day.                                                                    *)
(***************************************************************************)
EXTENDS BackOffice, TLC

CONSTANTS o1, o2, o3, e1, s1, s2, c1, b1, b2, r1, rice, oil

Stocked   == (rice :> "GRAIN") @@ (oil :> "OIL")
Catalogue == (o1 :> [item |-> rice, category |-> "GRAIN", service |-> FALSE])
          @@ (o2 :> [item |-> oil, category |-> "OIL", service |-> FALSE])
          @@ (o3 :> [item |-> rice, category |-> "GRAIN", service |-> TRUE])

At(d, row) == [row EXCEPT !.day = d]

Bought(st, po, date, item) ==
  [st |-> st, void |-> FALSE, po |-> po, date |-> date, amt |-> 40, units |-> 2, paid |-> 0,
   back |-> 0, backDay |-> 1, inter |-> FALSE, item |-> item]

Move(type, qty, base, day, of) == [type |-> type, qty |-> qty, base |-> base, day |-> day, of |-> of]

\* Nothing sold yet; two units of each item were bought.
NewBooks ==
  [ops |-> {}, about |-> {}, order |-> [o \in Order |-> NoOrder], invoice |-> [o \in Order |-> NoInvoice],
   ledger |-> <<>>, pay |-> <<>>, cash |-> 4,
   expense |-> [e \in Expense |-> [st |-> "none", amt |-> 2, paid |-> 0, day |-> 1, void |-> FALSE, unbacked |-> 0]],
   cheque |-> [c \in Cheque |-> [st |-> "PENDING", payable |-> TRUE]],
   bill |-> (b1 :> Bought("billed", 1, 2, rice)) @@ (b2 :> Bought("received", 1, 1, oil)),
   ret |-> [r \in Return |-> [of |-> o1, net |-> 20, cost |-> 24, st |-> "none", day |-> 1]],
   today |-> 1,
   moves |-> <<Move("PURCHASE_IN", 2, 2, 1, b1), Move("PURCHASE_IN", 2, 2, 1, b2)>>]

With(ops, about) == [NewBooks EXCEPT !.ops = ops, !.about = about]

\* The books of the second day: four units sold at half their price to the customer, in
\* another state, of which two came back, and a service to a dealer; a bill whose goods
\* were partly sent back, and one from another state.
Sold1 == [Sale("DINE_IN", "CUSTOMER", 40, "UNPAID", 1) EXCEPT !.inter = TRUE, !.disc = 40]
Sold3 == Sale("DINE_IN", "DEALER", 20, "UNPAID", 1)

OldBooks(ops, about) ==
  [NewBooks EXCEPT !.ops = ops, !.about = about, !.today = 2,
     !.order = (o1 :> Sold1) @@ (o2 :> NoOrder) @@ (o3 :> Sold3),
     !.invoice = (o1 :> [st |-> "PENDING", net |-> 40, day |-> 1]) @@ (o2 :> NoInvoice)
              @@ (o3 :> [st |-> "PENDING", net |-> 20, day |-> 1]),
     !.ledger = <<[ref |-> o1, amt |-> 42, day |-> 1]>>,
     !.bill[b1].amt = 60, !.bill[b1].units = 6, !.bill[b1].back = 20, !.bill[b1].backDay = 2, !.bill[b2].st = "billed", !.bill[b2].inter = TRUE,
     !.ret[r1].st = "APPROVED",
     !.moves[1].qty = 6, !.moves[1].base = 6,
     !.moves = @ \o <<Move("SALES_OUT", -4, -4, 1, o1), Move("SALES_RETURN_IN", 2, 2, 1, o1),
                      Move("RETURN_OUT", -2, -2, 2, b1)>>]

\* A step-by-step order of one unit.
OpenOrder == [Sale("TAX_INVOICE", "CUSTOMER", 20, "UNPAID", 1) EXCEPT !.st = "PENDING"]

AllMixes ==
  {[With({"addItems", "setStatus"}, {o1}) EXCEPT !.order[o1] = OpenOrder],
   With({"createOrder", "setStatus", "payOrder"}, {o1}),
   With({"checkout", "closeDay"}, {o1, o2}),
   With({"checkout", "closeDay", "nextDay"}, {o1}),
   With({"checkout", "receive", "closeDay"}, {o1}),
   With({"checkout", "cancelPayment", "closeDay"}, {o1}),
   With({"checkout", "setStatus", "closeDay"}, {o1}),
   OldBooks({"setStatus", "payOrder", "closeDay"}, {o1}),
   OldBooks({"receive", "cancelPayment"}, {o3}),
   OldBooks({"receive", "payOut"}, {o1, o3}),
   OldBooks({"receive", "cancelInvoice", "saleInvoice"}, {o2}),
   With({"addExpense", "payExpense", "cancelExpense", "nextDay"}, {}),
   OldBooks({"payroll", "paySlip", "cheque"}, {}),
   OldBooks({"transfer", "receive", "payExpense", "addExpense"}, {o3}),
   With({"addLoan", "loanEntry"}, {}),
   OldBooks({"adjustStock", "checkout"}, {o2}),
   [OldBooks({"adjustStock"}, {}) EXCEPT !.moves = @ \o <<Move("RETURN_QUARANTINE_IN", 1, 0, 1, o1)>>]}

Perms == Permutations(Worker)
=============================================================================
