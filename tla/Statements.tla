------------------------------ MODULE Statements ------------------------------
(***************************************************************************)
(* FinanceService's books: profit and loss, balances, statements of money  *)
(* and of parties.  Each is asked for a range D of consecutive days.       *)
(***************************************************************************)
EXTENDS Taxes

Earlier(D) == {d \in Day : \A e \in D : d < e}

\* parseInclusiveDates moves a range's last day to its end; a report that does not
\* use it stops at that day's midnight.
ToMidnight(D) == D \ {Max(D)}

UnitCost == 12   \* frozen on the order's lines when its goods left

Cost(o)  == UnitCost * lines[o]
Spent(e) == expense[e].amt
BillTotal(b) == WithTax(bill[b].amt)   \* VendorInvoice.amount

CountedExpenses(D) == {e \in Expense : expense[e].st # "none" /\ ~expense[e].void /\ expense[e].day \in D}
PurchasesOf(D)     == MapThenSumSet(BillTotal, Bills(D))
ExpensesOf(D)      == MapThenSumSet(Spent, CountedExpenses(D))

\* What the debits of the days D on the customer's ledger exceed the credits by.
DebtorNet(D) == LedgerSum(LAMBDA r : r.day \in D)

\* Bills of orders made in D, less what was paid on them.
Creditors(D) ==
  LET owed(b) == (IF bill[b].st = "billed" THEN BillTotal(b) ELSE 0) - bill[b].paid
  IN MapThenSumSet(owed, {b \in Bill : bill[b].st # "none" /\ ~bill[b].void /\ bill[b].po \in D})

\* What the items' rows say is in stock, at cost.
getInventoryValuationReport == UnitCost * MapThenSumSet(LAMBDA i : currentStock[i], Item)

-----------------------------------------------------------------------------
(* Profit and balances. *)

\* Invoices that are PAID; purchases are shown, and are no part of the profit.
getProfitAndLoss(D) ==
  LET paid    == {o \in Order : invoice[o].st = "PAID" /\ invoice[o].day \in D}
      revenue == After(paid, LAMBDA o : invoice[o].net, CreditNotes(D), Noted)
      cogs    == After(paid, Cost, CreditNotes(D), LAMBDA r : ret[r].cost)
  IN [revenue |-> revenue, cogs |-> cogs, purchase |-> PurchasesOf(D), expenses |-> ExpensesOf(D),
      netProfit |-> revenue - cogs - ExpensesOf(D)]

getTrialBalanceReport(D) ==
  [cash |-> cash, debtors |-> DebtorNet(D), creditors |-> Creditors(D),
   sales |-> MapThenSumSet(Gross, Ordered(D)), purchases |-> PurchasesOf(D), expenses |-> ExpensesOf(D)]

\* Debtors and creditors stop at midnight, the profit does not.
getBalanceSheetReport(D) ==
  LET debtors == Larger(0, DebtorNet(ToMidnight(D)))
      owed    == Larger(0, Creditors(ToMidnight(D)))
      assets  == cash + debtors + getInventoryValuationReport
      claims  == owed + getProfitAndLoss(D).netProfit
  IN [debtors |-> debtors, creditors |-> owed, assets |-> assets, isBalanced |-> assets = claims]

getBillWiseProfitReport(D) ==
  [total |-> MapThenSumSet(Gross, Completed(D)), profit |-> MapThenSumSet(LAMBDA o : Gross(o) - Cost(o), Completed(D))]

getLedgerSummary(D) ==
  LET M        == ToMidnight(D)
      invoiced == MapThenSumSet(Final, {o \in Order : invoice[o].st # "none" /\ invoice[o].day \in M})
      received == PaidSum(LAMBDA p : p.party \in {"CUSTOMER", "WALKIN"} /\ p.day \in M)
      billed   == MapThenSumSet(Spent, {e \in Expense : expense[e].st # "none" /\ expense[e].day \in M})
      paid     == PaidSum(LAMBDA p : p.src = "EXPENSE" /\ p.day \in M)
  IN [invoiced |-> invoiced, received |-> received, due |-> Larger(0, invoiced - received),
      billed |-> billed, paid |-> paid, owing |-> Larger(0, billed - paid)]

-----------------------------------------------------------------------------
(* Money. *)

\* PAYMENT_OUTFLOW_FILTER.
Outflow(p) == p.party = "VENDOR" \/ p.src = "EXPENSE" \/ p.type = "INTERNAL_TRANSFER"

MoneyIn(D)  == PaidSum(LAMBDA p : p.st = "PAID" /\ p.day \in D /\ ~Outflow(p))
MoneyOut(D) == PaidSum(LAMBDA p : p.st = "PAID" /\ p.day \in D /\ Outflow(p))

getDayBookReport(D) ==
  LET opening == MoneyIn(Earlier(D)) - MoneyOut(Earlier(D))
  IN [opening |-> opening, closing |-> opening + MoneyIn(D) - MoneyOut(D)]

getFinancialTransactionsReport(D) == [debit |-> MoneyIn(D), credit |-> MoneyOut(D)]

\* Cancelled payments are listed; only a vendor is paid out to.
getPayments(D) ==
  [inflow  |-> PaidSum(LAMBDA p : p.day \in D /\ p.party # "VENDOR"),
   outflow |-> PaidSum(LAMBDA p : p.day \in D /\ p.party = "VENDOR")]

\* Cash and bank: no status is asked for, the range stops at midnight.
AccountSummaryCash(D) ==
  LET in  == PaidSum(LAMBDA p : p.day \in ToMidnight(D) /\ ~Outflow(p))
      out == PaidSum(LAMBDA p : p.day \in ToMidnight(D) /\ Outflow(p))
  IN [debit |-> in, credit |-> out, closing |-> in - out]

\* Debtors, sales, purchases and expenses of the same summary; the bills' filter is
\* the one that moves the end of the range.
getAccountTransactionSummary(D) ==
  [debtors   |-> DebtorNet(ToMidnight(D)),
   sales     |-> MapThenSumSet(Gross, Ordered(ToMidnight(D))),
   purchases |-> PurchasesOf(D),
   expenses  |-> ExpensesOf(ToMidnight(D))]

\* Mutant of BankIn: a transfer's leg into the account is taken for one out of it.
BankInNoTransfer(p) == p.party # "VENDOR" /\ p.src # "EXPENSE" /\ p.type # "INTERNAL_TRANSFER"

\* getPaymentDirection: there is no flow column, so what is neither is a deposit.
BankIn(p) ==
  /\ p.party # "VENDOR" /\ p.src # "EXPENSE"
  /\ p.type = "INTERNAL_TRANSFER" => p.flow = "IN"

BankNet(D) ==
  PaidSum(LAMBDA p : p.st = "PAID" /\ p.day \in D /\ BankIn(p))
    - PaidSum(LAMBDA p : p.st = "PAID" /\ p.day \in D /\ ~BankIn(p))

\* From the balance of today back to the opening, and forward again.
getBankStatementData(D) ==
  LET initial == cash - BankNet(Day)
      opening == initial + BankNet(Earlier(D))
  IN [opening |-> opening, closing |-> opening + BankNet(D)]

getCashFlow == cash

getExpensesReportData(D) ==
  [total  |-> ExpensesOf(D),
   paid   |-> MapThenSumSet(LAMBDA e : expense[e].paid, CountedExpenses(D)),
   unpaid |-> MapThenSumSet(LAMBDA e : expense[e].amt - expense[e].paid, CountedExpenses(D))]

getExpenses(D) == ExpensesOf(ToMidnight(D))

\* One branch: completed orders, and its expenses.
getFranchiseReportData == [sales |-> MapThenSumSet(Gross, Completed(Day)), expenses |-> ExpensesOf(Day)]

-----------------------------------------------------------------------------
(* Parties. *)

\* Orders of a party with a record of its own.
OrdersOf(p) == {o \in Order : order[o].party = p /\ order[o].st \notin {"none", "CANCELLED"}}

Due(o) == Gross(o) - PaidOn(o)

getPartyReceivables(p, D) ==
  MapThenSumSet(Due, {o \in OrdersOf(p) : order[o].day \in D /\ Due(o) > 0})

\* Mutant of getPartyInvoices: a credit of the customer is shown as a negative balance.
getPartyInvoicesSigned(p) == [o \in OrdersOf(p) |-> Due(o)]

\* What is left on each of a party's orders.
getPartyInvoices(p) == [o \in OrdersOf(p) |-> Larger(0, Due(o))]

\* Its invoices that a receipt can be put on.
getOutstandingInvoicesForParty(p) ==
  {o \in OrdersOf(p) : invoice[o].st \notin {"none", "CANCELLED"} /\ Final(o) - PaidOn(o) > 0}

\* An order flagged PAID is shown as paid in full, another by its payments, those
\* cancelled among them.
getSalesReportDetails(D) ==
  LET paid(o) == IF order[o].flag = "PAID" THEN Gross(o) ELSE PaidSum(LAMBDA p : p.of = o)
  IN [o \in {x \in Order : order[x].st # "none" /\ order[x].day \in D} |-> Larger(0, Gross(o) - paid(o))]

\* Purchase orders on the day they were made; an order without a bill at its total.
getPurchasesReportDetails(D) ==
  MapThenSumSet(BillTotal, {b \in Bill : bill[b].st # "none" /\ bill[b].po \in D})

\* A dealer's orders of D with their payments of any day, and payments of D on none.
DealerStatement(D) ==
  LET sold  == {o \in OrdersOf("DEALER") : order[o].day \in D}
      onAccount(p) == p.party = "DEALER" /\ p.of = None /\ p.st = "PAID" /\ p.day \in D
  IN MapThenSumSet(Due, sold) - PaidSum(onAccount)

\* The customer's is its ledger; without a row in D, its orders and payments.
CustomerStatement(D) ==
  LET sold == {o \in OrdersOf("CUSTOMER") : order[o].day \in D}
      other(p) == p.party = "CUSTOMER" /\ p.st = "PAID" /\ p.day \in D /\ p.of \notin sold
  IN IF \E i \in DOMAIN ledger : ledger[i].day \in D THEN DebtorNet(D)
     ELSE MapThenSumSet(Due, sold) - PaidSum(other)

\* Without a party: every bill, order and payment, a vendor's payments as debits.
AllPartiesStatement(D) ==
  MapThenSumSet(Gross, Ordered(D)) - MapThenSumSet(BillTotal, {b \in Bill : bill[b].st = "billed" /\ bill[b].date \in D})
    + PaidSum(LAMBDA p : p.st = "PAID" /\ p.day \in D /\ p.party = "VENDOR")
    - PaidSum(LAMBDA p : p.st = "PAID" /\ p.day \in D /\ p.party # "VENDOR")

\* Final sales to a party; its returns count only beside a sale in D.
PartySales(p, D)   == {o \in FinalSales(D) : order[o].party = p}
PartyReturns(p, D) == IF PartySales(p, D) = {} THEN {} ELSE {r \in CreditNotes(D) : order[ret[r].of].party = p}

getPartyProfitLoss(p, D) ==
  [sales |-> After(PartySales(p, D), Net, PartyReturns(p, D), Noted),
   cost  |-> After(PartySales(p, D), Cost, PartyReturns(p, D), LAMBDA r : ret[r].cost)]

getSalePurchaseByParty(p, D) ==
  IF p = "VENDOR" THEN PurchasesOf(D) ELSE After(PartySales(p, D), Net, PartyReturns(p, D), Noted)

getSalePurchaseByPartyGroupData(D) ==
  [sale |-> MapThenSumSet(LAMBDA p : getSalePurchaseByParty(p, D), Party), purchase |-> getSalePurchaseByParty("VENDOR", D)]

-----------------------------------------------------------------------------
(* A loan. *)

\* The account as it is, beside the balance each of its entries ended with.
getLoanStatement ==
  [openingBalance |-> Principal, balanceDue |-> loan.due, totalPrincipalPaid |-> loan.paid,
   endingBalance |-> IF txns = <<>> THEN 0 ELSE txns[Len(txns)].due]
=============================================================================
