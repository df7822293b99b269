----------------------------- MODULE VendorViews -----------------------------
(***************************************************************************)
(* What is shown of a vendor: ProcurementService's list and page of        *)
(* vendors, its ledger with running balances, its ageing, its orders, and  *)
(* the vendor's statement of FinanceService.  Each figure is computed from *)
(* the ledger's rows, or the order's, in its own way.                      *)
(***************************************************************************)
EXTENDS VendorLedger

\* The entries a page of the vendor counts, with the opening one it is about to add.
Entries == IF opening # 0 /\ ~HasRow("OPENING_BALANCE") THEN <<OpeningRow(opening)>> \o rows ELSE rows

\* What the vendor supplied: the goods of completed receipts, each of which has its bill.
aggregateMaterialHistory == SumOf(Total, {p \in Po : bill[p] # "none"})

\* Owed by bills and by hand; paid by payments, returns and by hand.
Owed(es) == TotalOf(es, "CREDIT", {"PURCHASE", "ADJUSTMENT", "OPENING_BALANCE"})
PaidTo(es) == TotalOf(es, "DEBIT", {"PAYMENT", "RETURN", "ADJUSTMENT", "ADVANCE", "OPENING_BALANCE"})

\* A line of the list, and its part of a vendor's page.
getVendors ==
  LET balance == BalanceOf(Entries) IN
  [totalPurchased |-> Owed(Entries), totalPaid |-> PaidTo(Entries), balance |-> balance,
   due |-> Positive(balance), advance |-> Positive(Positive(-balance) - SumOf(applied, Reserving)),
   supplied |-> aggregateMaterialHistory]

\* The page says besides what was returned, and the credit before reservations.
getVendorById ==
  [list |-> getVendors, totalReturns |-> TotalOf(Entries, "DEBIT", {"RETURN"}),
   advanceCredit |-> Positive(-BalanceOf(Entries))]

getVendorFinancials ==
  [totalPaid |-> TotalOf(rows, "DEBIT", Kind), totalLiability |-> TotalOf(rows, "CREDIT", Kind)]

\* The credits, entry by entry.
Credits == [i \in DOMAIN rows |-> IF rows[i].type = "CREDIT" THEN rows[i].amount ELSE 0]

\* Mutant of getVendorAging: every credit is settled against all that was paid.
getVendorAgingAgainstAll ==
  SumOf([i \in DOMAIN rows |-> Positive(Credits[i] - Debits(rows))], DOMAIN rows)

\* What is left of the credits, oldest first, after the debits; its buckets by age
\* are one here.
getVendorAging ==
  LET settled == InTurn([i \in DOMAIN rows |-> i], Credits, Debits(rows)) IN
  SumOf([i \in DOMAIN rows |-> Credits[i] - settled[i]], DOMAIN rows)

\* The running balance of the newest entry: a balance of zero is taken for a missing
\* one, and the entry is added to the balance before it.
Running[i \in 0..Len(rows)] ==
  IF i = 0 THEN 0 ELSE IF rows[i].bal # 0 THEN rows[i].bal ELSE Running[i - 1] + Signed(rows[i])

getVendorLedger == Running[Len(rows)]

\* getPartyStatement of a vendor: begins with the vendor's opening balance, lists it,
\* and lists the ledger; without a ledger, bills, orders not billed and payments.
VendorStatement ==
  LET orders  == {p \in Po : poStatus[p] \notin {"none", "CANCELLED"} \/ bill[p] # "none"}
      entries == IF rows # << >> THEN BalanceOf(rows) ELSE SumOf(Total, orders) - SumOf(pay, Key)
  IN opening + opening + entries

\* getVendorsSummary of the vendors' list, of one vendor.
getVendorsSummary(v) ==
  [totalOwed |-> v.due, totalAdvance |-> v.advance, totalPurchased |-> v.totalPurchased]

\* filterVendors: whether the vendor is left by a filter on its balance.
filterVendors(balanceType) ==
  CASE balanceType = "ADVANCE" -> getVendors.balance > 0
    [] balanceType = "OWED"    -> getVendors.balance < 0

\* getAllPartiesData of FinanceService: the vendor among the parties, what it owes us.
PartyBalance == SumOf([i \in DOMAIN rows |-> -Signed(rows[i])], DOMAIN rows)

\* withActualCommercials: what is due is the bill's outstanding amount, by its own
\* payments, and the order's as long as it has no bill.
withActualCommercials(p) ==
  [actualTotalAmount |-> Total[p],
   actualBalanceDue |-> IF bill[p] # "none" THEN Positive(Total[p] - billAdvance[p] - BillPayments(p))
                        ELSE Positive(Total[p] - paid[p])]

\* An order in the list and on its page.
getPurchaseOrderById(p) ==
  [paid |-> paid[p], balanceDue |-> Positive(Total[p] - paid[p]), actual |-> withActualCommercials(p)]

-----------------------------------------------------------------------------
(* Properties. *)

\* A bill that is PAID has nothing left to pay on its order's page.
PaidIsSettled ==
  \A p \in Po : bill[p] = "PAID" => withActualCommercials(p).actualBalanceDue = 0

\* The pages agree on a vendor whatever was paid, billed, cancelled, returned or
\* adjusted: the list's and the account's totals leave the balance of the ledger, the
\* ageing adds up to what is due, the advance shown is the one orders are offered, among
\* the parties it stands with what it was advanced less what is due, credit beyond
\* returns was paid, and the material history is worth the bills; once the opening entry
\* is there.
ViewsAgree ==
  LET page == getVendorById list == page.list account == getVendorFinancials IN
  /\ PaidIsSettled
  /\ Entries = rows =>
      /\ list.totalPurchased - list.totalPaid = list.balance
      /\ account.totalLiability - account.totalPaid = list.balance
      /\ getVendorAging = list.due
      /\ list.advance = AvailableAdvance
      /\ page.advanceCredit - page.totalReturns <= account.totalPaid
      /\ list.supplied = TotalOf(rows, "CREDIT", {"PURCHASE"})
      /\ PartyBalance = page.advanceCredit - getVendorsSummary(list).totalOwed

\* The running balance shown is the stored one wherever that is right.
RunningShown ==
  (\A i \in DOMAIN rows : rows[i].kind \in {"PAYMENT", "ADVANCE"}) => getVendorLedger = VendorBalance

\* The ledger says what the vendor is owed: every bill in it once, its newest
\* balance right, stored and as shown.
LedgerSound == RunningBalance /\ RunningShown /\ LiabilityOnce

(* What the code's comments say and the model refutes. *)

\* "Single source of truth for balance/due/advance": the statement closes at what the
\* list says is due.
StatementIsDue == VendorStatement = getVendors.balance

\* procurement.service.ts:1400, an order's paid "silently understates": what is due on the
\* order is not what is due on its bill, for any total.
OrderShowsBill ==
  \A p \in Po : LET shown == getPurchaseOrderById(p) IN shown.balanceDue = shown.actual.actualBalanceDue

\* A filter for the vendors that are owed something leaves those.
OwedIsDue == filterVendors("OWED") <=> getVendorsSummary(getVendors).totalOwed > 0

\* The last line of the ledger page is the balance.
RunningIsBalance == getVendorLedger = VendorBalance

=============================================================================
