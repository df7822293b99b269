----------------------------- MODULE BackOffice -----------------------------
(***************************************************************************)
(* The counter, the cash book and the reports over the same tables: what    *)
(* the books show while requests are in flight, and what they show later.  *)
(***************************************************************************)
EXTENDS ItemReports

Step(w)   == CounterStep(w) \/ CashStep(w) \/ Abandon(w)
Arrive(w) == CounterArrive(w) \/ CashArrive(w)

Next ==
  \/ \E w \in Worker : Arrive(w) \/ Step(w)
  \/ NextDay

Spec == Init /\ [][Next]_vars

\* The ranges of days that a report may be asked for.
Months == {f..t : f \in Day, t \in Day} \ {{}}

Categories == {CategoryOf[i] : i \in Item}

-----------------------------------------------------------------------------
(* Properties. *)

\* Payments recorded for a row of another table, cancelled since or not.
PaidFor(r) == PaidSum(LAMBDA p : p.of = r)

\* Nothing is shown as paid, cleared or handed over that was not: an expense shows no
\* more than its payments (and what was paid without an account), a salary is PAID and
\* a cheque newly CLEARED after its payment, a step-by-step order is READY or COMPLETED
\* after its goods left - whatever is in flight, and wherever a request was abandoned.
MoneyBehindStatus ==
  /\ \A e \in Expense : expense[e].paid <= expense[e].unbacked + PaidFor(e)
  /\ \A s \in Slip : slip[s] = "PAID" => PaidFor(s) > 0
  /\ \A c \in Cheque : (cheque[c].st = "CLEARED" /\ mix.cheque[c].st # "CLEARED") => PaidFor(c) > 0
  /\ \A o \in Order :
       (mix.order[o].st \in {"none", "PENDING"} /\ order[o].type = "TAX_INVOICE" /\ order[o].st \in {"READY", "COMPLETED"})
         => deducted[o]

\* The day's sales count as received what its receipts do not show - a Payment-In on one
\* of them - or do not count what they show: a paid order whose status was changed.
OffTheCounter(d) ==
  \/ \E i \in DOMAIN pay : pay[i].src = "MANUAL" /\ pay[i].of \in Order /\ order[pay[i].of].day = d
  \/ \E o \in Order : order[o].day = d /\ order[o].st \notin {"none", "COMPLETED"} /\ PaidOn(o) > 0

\* A day is closed on figures of one moment: when its receipts reconcile with the sales
\* read before them, the sales still expect the same - a counter sale, a payment at the
\* counter or its cancellation that committed in between has the closing refused. It is
\* not so of what happens off the counter.
SettledAtOneMoment ==
  [][\A w \in Worker :
       (pc[w] = "closeReceipts" /\ pc'[w] = "closeWrite")
         => LET now == DayOrders(on[w])
            IN OffTheCounter(on[w]) \/ seen[w].grand - seen[w].credit = now.grand - now.credit]_vars

\* The step cancels no payment, and pays none but a vendor or the other account.
PaysVendorsOnly ==
  /\ \A i \in DOMAIN pay : pay'[i].st = pay[i].st
  /\ \A i \in DOMAIN pay' \ DOMAIN pay : pay'[i].flow = "OUT" => pay'[i].party \in {"VENDOR", "ACCOUNT"}

\* What the bank statement shows of a day that is over stays as it is when money is
\* received, paid to a vendor, spent or moved between accounts later. It is not so of a
\* salary, of money paid to a customer, or of a cancelled payment.
PastStatementStands ==
  [][PaysVendorsOnly
       => \A d \in 1..(today - 1) : getBankStatementData({d})' = getBankStatementData({d})]_vars

\* The tax on the lines, of goods by HSN and of services by SAC.
CodesTax(D) == Heads(getHsnSummaryData(D).tax) + Heads(getSacReportData(D).tax)

\* The returns of a period agree with each other and with the rate report: the sales
\* and their tax (but for refunded sales, which GSTR-1 leaves out of its total), the
\* input tax, the year's return; where no items are added to an order, the tax on the
\* lines by code; and, while every returned sale is a final one, the parties' report.
TaxReturnsAgree ==
  /\ \A D \in Months :
       LET gstr1 == getGSTR1Data(D)  gstr2 == getGSTR2Data(D)  gstr3 == getGSTR3BData(D)  rate == getGstRateReportData(D)
           refunded == {o \in FinalSales(D) : order[o].st = "REFUNDED"}
           notes    == MapThenSumSet(Noted, CreditNotes(D))
           noteTax  == MapThenSumSet(LAMBDA r : Tax(Noted(r)), CreditNotes(D))
       IN /\ gstr3.taxable = gstr1.taxable + MapThenSumSet(Net, refunded)
          /\ gstr3.tax = gstr1.tax + MapThenSumSet(TaxOf, refunded)
          /\ gstr3.taxable = rate.sale - notes /\ gstr3.tax = rate.in - noteTax
          /\ gstr3.input = gstr2.tax
          /\ "addItems" \notin mix.ops => CodesTax(D) = rate.in
  /\ LET gstr3 == getGSTR3BData(Day)  gstr9 == getGSTR9Data
     IN /\ gstr9.taxable = gstr3.taxable /\ gstr9.tax = gstr3.tax /\ gstr9.input = gstr3.input /\ gstr9.payable = gstr3.payable
        /\ gstr9.itc = getGSTR2Data(Day).taxable
        /\ (\A r \in CreditNotes(Day) : FinalSale(ret[r].of)) => gstr9.taxable = getSalePurchaseByPartyGroupData(Day).sale

\* "This report now agrees with GST reporting", "can no longer disagree" (finance.service.ts
\* 495 and 3609): profit and loss, the trial balance and the reports by party, item and
\* category show the same purchases, expenses, units and completed sales.
PurchasesAgree ==
  \A D \in Months :
    LET pl == getProfitAndLoss(D)
        tb == getTrialBalanceReport(D)
        ByItem(val(_)) == MapThenSumSet(LAMBDA i : val(getSalePurchaseByItemData(i, D)), Item)
        ByCategory(val(_)) == MapThenSumSet(LAMBDA c : val(getSalePurchaseByCategoryData(c, D)), Categories)
    IN /\ pl.purchase = tb.purchases /\ pl.purchase = getSalePurchaseByParty("VENDOR", D)
       /\ pl.purchase = getAccountTransactionSummary(D).purchases
       /\ pl.expenses = tb.expenses /\ pl.expenses = getExpensesReportData(D).total
       /\ ByItem(LAMBDA r : r.saleQty) = ByCategory(LAMBDA r : r.saleQty)
       /\ ByItem(LAMBDA r : r.purchase) = ByCategory(LAMBDA r : r.purchase)
       /\ getTcsReceivableData(D).value = getBillWiseProfitReport(D).total
       /\ getForm27eqData(D).value = getBillWiseProfitReport(D).total

\* What a party owes is what its invoices show, each as much as a receipt may still be
\* put on it, and a dealer's statement comes to the same, unless it paid too much. Where
\* no order grows after its invoice and nothing is cancelled.
ReceivablesAgree ==
  {"addItems", "cancelPayment"} \cap mix.ops = {} =>
  \A p \in {"CUSTOMER", "DEALER"} :
    LET shown == getPartyInvoices(p)
    IN /\ getPartyReceivables(p, Day) = MapThenSumSet(LAMBDA o : shown[o], OrdersOf(p))
       /\ \A o \in getOutstandingInvoicesForParty(p) : Final(o) - PaidOn(o) = shown[o]
       /\ (p = "DEALER" /\ \A o \in OrdersOf(p) : Due(o) >= 0) => DealerStatement(Day) = getPartyReceivables(p, Day)

\* The stock's reports agree at the end of every day: the detail by direction, the
\* detail by type and the ledger of movements close with what the movements come to;
\* the stock's own ledger ends with what is on hand, and what left by it is what was
\* used, sold and sent back - where no goods are in quarantine. Those that read the items'
\* rows (by item, by category, the valuation that the balance sheet has for an asset)
\* show what those that sum the movements do.
StockAgrees ==
  (\A k \in DOMAIN moves : moves[k].type # "RETURN_QUARANTINE_IN") =>
  LET inStock(I) == MapThenSumSet(LAMBDA i : getStockSummaryData(MaxDay)[i].qty, I)
  IN
  /\ getInventoryValuationReport = UnitCost * inStock(Item)
  /\ \A c \in Categories : getStockByCategoryData(c).qty = inStock(Category(c))
  /\ \A i \in Item :
    /\ \A D \in Months :
         LET ledgerOf == getInventoryLedgerReportData(i, D)
             detail   == getStockDetailData(i, D)
         IN /\ getItemDetailData(i, D).closing = StockAt(i, Max(D))
            /\ detail.closing = StockAt(i, Max(D) - 1)
            /\ ledgerOf.in - ledgerOf.out = detail.in - detail.out
    /\ LET rows == getInventoryLedger(i) IN
         rows # <<>> =>
           /\ Last(rows).balance = OnHand(i)
           /\ FoldLeft(LAMBDA n, r : n + r.out, 0, rows) =
                getRawMaterialConsumption(i, Day) + Total({k \in MovesOf(i) : moves[k].type \in {"SALES_OUT", "RETURN_OUT"}}, LAMBDA m : -m.qty)
    /\ getStockSummaryData(MaxDay)[i].qty = getStockSummaryByItemData[i].qty
    /\ getItemWiseProfitLoss(i, Day).closing = getStockSummaryData(MaxDay)[i].value

\* Reports of the same thing, each with a query of its own, do not contradict each other.
BooksAgree == PurchasesAgree /\ ReceivablesAgree /\ StockAgrees

\* The credit of one head pays another's liability only as the law has it: as much
\* credit is used as tax is paid, none is left that may pay what is left, and neither
\* the state's nor the union's credit pays the other's tax.
UtilizationSound ==
  \A D \in Months :
    LET out   == [h \in TaxHead |-> Larger(0, Output(D)[h])]
        in    == [h \in TaxHead |-> Larger(0, Input(D)[h])]
        left  == computeGstUtilization(out, in)
        Pays(h, k) == h = "igst" \/ k \in {h, "igst"}
    IN /\ Heads(out) - Heads(left.liab) = Heads(in) - Heads(left.itc)
       /\ \A h, k \in TaxHead : Pays(h, k) => left.itc[h] = 0 \/ left.liab[k] = 0
       /\ \A k \in {"cgst", "sgst"} : left.liab[k] >= out[k] - in[k] - in["igst"]

-----------------------------------------------------------------------------
(* What the code's comments and messages say, or two reports of one thing *)
(* lead their reader to expect, and the model refutes.                     *)

\* pos.service.ts:272, "Prevent Double Deduction": two status changes both read the
\* flag before either sets it.
DeductedOnce ==
  \A o \in Order : Cardinality({k \in DOMAIN moves : moves[k].of = o /\ moves[k].type = "SALES_OUT"}) <= 1

\* pos.service.ts:177, "Recalculate totals": two requests sum over the lines they see.
TotalIsLines == \A o \in Order : lines[o] > 0 => order[o].net + order[o].disc = Price * lines[o]

\* pos.service.ts:568, a closed day "must not silently drift": a sale that asked before
\* the closing commits after it.
SettledDayStands ==
  [][\A d \in Day : settled[d] # None => DayOrders(d)' = DayOrders(d)]_vars

\* pos.service.ts:991, "CANCELLED/REFUNDED orders never contributed a settled receipt":
\* the status of a paid order may be set to either.
NeverContributed ==
  \A o \in Order : order[o].st \in {"CANCELLED", "REFUNDED"}
                  => ~\E i \in DOMAIN pay : pay[i].of = o /\ Receipt(pay[i], order[o].day)

\* pos.service.ts:1075, "Expected receipts = today's gross sales": not after a Payment-In
\* on one of them, while a paid order is not completed, or when one was paid twice.
DayReconciles ==
  (\A w \in Worker : pc[w] = "idle") => Reconciled(DayOrders(today), DayReceipts(today))

\* The day's closing on figures of one moment, whatever commits between its two reads.
SettledWhatever ==
  [][\A w \in Worker :
       (pc[w] = "closeReceipts" /\ pc'[w] = "closeWrite")
         => LET now == DayOrders(on[w]) IN seen[w].grand - seen[w].credit = now.grand - now.credit]_vars

\* pos.service.ts:737, "double-counted the payment": mended at the counter, and still
\* done by payOrder and by an invoice with a receipt.
CreditedIsPaid == -LedgerSum(LAMBDA r : r.amt < 0) <= PaidSum(LAMBDA p : p.party = "CUSTOMER")

\* An order completed on credit has a PAID invoice.
PaidIsPaid == \A o \in Order : invoice[o].st = "PAID" => PaidOn(o) >= Final(o)

\* finance.service.ts:7450, overpaid, "which the createPayment guard should prevent".
NeverOverpaid == \A o \in Order : PaidOn(o) <= Larger(Gross(o), Final(o))

\* An expense's paid column is its payments: lost between two payments.
ExpenseIsPaid == \A e \in Expense : expense[e].paid = expense[e].unbacked + PaidFor(e)

\* One payslip for a month, paid once; a cheque paid once.
PaidOnce ==
  /\ \A s \in Slip : PaidFor(s) <= NetSalary
  /\ \A c \in Cheque : PaidFor(c) <= Drawn
OneSlip == Cardinality({s \in Slip : slip[s] # "none"}) <= 1

\* A loan's statement ends with what is due, and a count ends at what was counted.
LoanIsEntries ==
  (loan.st # "none" /\ txns # <<>> /\ \A w \in Worker : pc[w] = "idle")
    => getLoanStatement.balanceDue = getLoanStatement.endingBalance
NothingBelowZero == \A i \in Item : OnHand(i) >= 0

\* finance.service.ts:6761, "The persisted per-line taxAmount is trustworthy in every
\* creation path": a line added to an order carries the tax of one of its units.
CodesAreTaxed == \A D \in Months : CodesTax(D) = getGstRateReportData(D).in
CodesAreSales ==
  \A D \in Months : getHsnSummaryData(D).taxable + getSacReportData(D).taxable = getGstRateReportData(D).sale

\* The counter's sales and their tax in two reports of GST: pending and refunded orders.
GstReportIsReturn ==
  \A D \in Months : getGstReportData(D).in - MapThenSumSet(LAMBDA r : Tax(Noted(r)), CreditNotes(D)) = getGSTR3BData(D).tax
GstReturnsAgree == \A D \in Months : getGSTR1Data(D).taxable = getGSTR3BData(D).taxable

\* A return counts for its party only beside a sale of the period.
PartiesAreReturn ==
  \A D \in Months : getSalePurchaseByPartyGroupData(D).sale = getGSTR3BData(D).taxable

\* finance.service.ts:495, purchases "agree with GST reporting": what was sent back is
\* taken off there, and the bills of purchase orders cancelled or unbilled are in others.
PurchasesAsFiled ==
  \A D \in Months : getProfitAndLoss(D).purchase = getGSTR2Data(D).taxable + getGSTR2Data(D).tax
PurchasesListed == \A D \in Months : getPurchasesReportDetails(D) = getTrialBalanceReport(D).purchases
ByPartyIsByItem ==
  \A D \in Months, i \in Item : getPartyReportByItem(i, D).purchaseQty = getSalePurchaseByItemData(i, D).purchaseQty

\* Sales: with tax or without, paid or final, before or after the discount.
SalesAgree == \A D \in Months : getTrialBalanceReport(D).sales = MapThenSumSet(Gross, FinalSales(D))
ItemSalesAgree ==
  \A D \in Months : MapThenSumSet(LAMBDA i : getSalePurchaseByItemData(i, D).sale, Item) = MapThenSumSet(Gross, FinalSales(D))
RevenueIsSales ==
  getProfitAndLoss(Day).revenue = MapThenSumSet(LAMBDA p : getPartyProfitLoss(p, Day).sales, Party)
ProfitsAgree ==
  MapThenSumSet(LAMBDA c : getItemCategoryWiseProfitLoss(c, Day).profit, Categories) = getBillWiseProfitReport(Day).profit
ItemProfitsAgree ==
  MapThenSumSet(LAMBDA i : getItemWiseProfitLoss(i, Day).revenue, Item) = getFranchiseReportData.sales
DiscountsAgree ==
  getDiscountReportData(Day).discount = MapThenSumSet(LAMBDA i : getItemDiscountReportData(i, Day).discount, Item)

\* A range's last day: to its midnight or to its end.
DebtorsAgree ==
  \A D \in Months : getBalanceSheetReport(D).debtors = Larger(0, getTrialBalanceReport(D).debtors)
ExpensesAgree == \A D \in Months : getExpenses(D) = getTrialBalanceReport(D).expenses
SheetBalances == getBalanceSheetReport(Day).isBalanced

\* Money: a salary, money paid to a customer and a reversal are taken for receipts, a transfer's leg into an account
\* for an outflow, and some lists count cancelled payments.
DayBookIsCash == getDayBookReport(Day).closing = getCashFlow - mix.cash
PastDaysStand ==
  [][\A d \in 1..(today - 1) : getBankStatementData({d})' = getBankStatementData({d})]_vars
MoneyListsAgree ==
  /\ getPayments(Day).inflow - getPayments(Day).outflow = getFinancialTransactionsReport(Day).debit - getFinancialTransactionsReport(Day).credit
  /\ AccountSummaryCash(Day).debit <= getFinancialTransactionsReport(Day).debit
TcsWasReceived == getTcsReceivableData(Day).paid <= MoneyIn(Day)
SummaryIsDue == getLedgerSummary(Day).due <= getPartyReceivables("CUSTOMER", Day) + getPartyReceivables("DEALER", Day)

\* Parties: a reversal is a receipt of the dealer's, an order flagged PAID has nothing
\* left to pay, and the statement of all parties is of bills and orders, not of ledgers.
DealerStatementIsDue == DealerStatement(Day) = MapThenSumSet(Due, OrdersOf("DEALER"))
SalesReportIsDue ==
  \A o \in OrdersOf("DEALER") : getSalesReportDetails(Day)[o] = getPartyInvoices("DEALER")[o]
EveryPartyAddsUp ==
  AllPartiesStatement(Day) = CustomerStatement(Day) + DealerStatement(Day) - getTrialBalanceReport(Day).creditors

\* Stock: goods in quarantine are in stock, and not.
QuarantineIsNotStock == \A i \in Item : getStockDetailData(i, Day).closing = StockAt(i, MaxDay - 1)
LowIsLow == {r.item : r \in getLowStockSummaryData} = {i \in Item : getStockSummaryByItemData[i].status = "LOW_STOCK"}
=============================================================================
