-------------------------------- MODULE Sales -------------------------------
(***************************************************************************)
(* The sales service: the document chain, the dispatch of its invoices and *)
(* the returns of what they sold, over the same rows.                      *)
(***************************************************************************)
EXTENDS SalesReports, Dispatch, CustomerReturns

Step(w)   == ChainStep(w) \/ DispatchStep(w) \/ ReturnStep(w)
Arrive(w) == ChainArrive(w) \/ DispatchArrive(w) \/ ReturnArrive(w)

Next == \E w \in Worker : Arrive(w) \/ Step(w) \/ Timeout(w)

Spec == Init /\ [][Next]_vars

-----------------------------------------------------------------------------
(* Properties of the document chain. *)

\* A document is converted once into each kind that a unique column guards: one
\* order per estimate, per proforma and per submission, one proforma and one sale
\* per order, and an order and the proforma made from it name each other.
OnePerSource ==
  /\ \A so, to \in SO : source[so] = source[to] /\ source[so] # None => so = to
  /\ \A p, q \in PI : source[p] = source[q] /\ source[p] # None => p = q
  /\ \A i, j \in INV : source[i] = source[j] /\ source[i] \in SO => i = j
  /\ \A p \in PI, so \in SO : source[p] = so => proforma[so] = p

\* The two reports of sales orders count the same: through conversions and edits that
\* overlap every order has its lines, once.  Where no estimate is edited: see
\* OrderReportsAgree.
LinesCounted ==
  "updateQuotation" \notin mix.ops =>
    LET orders == getSaleOrdersReportData
        items  == getSaleOrderItemsReportData IN
    /\ items.lines = orders.orders
    /\ items.quantity = Units * (orders.orders - orders.cancelled)

\* Every source becomes one order, and every order's lines are counted once.
OrdersSound == OnePerSource /\ LinesCounted

\* However edits of an order or a proforma overlap, saving one leaves its lines and
\* no others, and no edit is saved once the document is final.
EditIsWhole ==
  [][\A d \in SO \cup PI : (Exists(d) /\ lines'[d] # lines[d]) =>
        /\ Cardinality(lines'[d]) = 1
        /\ status[d] \notin SALES_ORDER_LOCKED_STATUSES
        /\ d \in PI => status[d] = "DRAFT"]_vars

-----------------------------------------------------------------------------
(* Properties of dispatch. *)

\* A challan's goods leave stock once, and come back by its reversal at most once,
\* whatever requests repeat, overlap or revive it.
PostedOnce ==
  [][\A c \in Challan :
        /\ out[c] > 0 => out'[c] = out[c]
        /\ back[c] > 0 => back'[c] = back[c]
        /\ back'[c] <= out'[c]]_vars

\* Challans that were never cancelled or deleted do not ship more of an invoice
\* than it sold, and none ships goods that were issued with the invoice.
DispatchedWithinInvoice ==
  \A i \in INV :
    PostedBy(ChallansOf(i) \ voided) <= (IF Deferred(i) THEN Units ELSE 0)

\* No more is returned of a challan than it carries, and each return goes back
\* into stock once at most.
ChallanReturnsBounded ==
  /\ \A c \in Challan : Returned(c) <= challan[c].qty
  /\ \A d \in DCReturn : received[d] <= dcReturn[d].qty

\* The list of invoices, which trusts a mark, and the page, which counts movements, show
\* the same fulfilment, however dispatches overlap.  Where no challan was cancelled.
FulfilmentShown ==
  \A i \in INV : (Exists(i) /\ ChallansOf(i) \cap voided = {}) => getInvoices(i) = getInvoiceById(i)

\* Neither dispatches nor their returns exceed what they are made from, and the
\* invoice shows them.
ChallansWithinInvoice == DispatchedWithinInvoice /\ ChallanReturnsBounded /\ FulfilmentShown

-----------------------------------------------------------------------------
(* Properties of customers' returns. *)

\* Returns that were never rejected do not exceed what the invoice sold, however
\* many are raised at once.
ReturnsWithinSold ==
  \A i \in INV :
    SumOf(Brought, ReturnsAgainst(i) \ rejected) <= Units

\* A return is set off and paid out at most once each, never for more than its
\* value, even when it is approved again after its refund.
RefundedOnce == \A r \in Return : applied[r] <= ret[r].qty /\ cash[r] <= ret[r].qty

\* Neither returns nor their refunds exceed what they are made from.
ReturnsWithinSale == ReturnsWithinSold /\ RefundedOnce

-----------------------------------------------------------------------------
(* What the code's comments and messages say and the model refutes. *)

\* "the loser hits P2002 here instead of creating a second Tax Invoice".
OneInvoicePerProforma ==
  \A i, j \in INV : source[i] = source[j] /\ source[i] \in PI => i = j

\* "rejects a repeat conversion via a real DB-unique marker": not an estimate's sale.
OneSalePerEstimate ==
  \A i, j \in INV : source[i] = source[j] /\ source[i] = Estimate => i = j

\* "a cancelled order can never become a sale".
CancelledNeverSold ==
  [][\A so \in SO : status[so] = "CANCELLED" => status'[so] = "CANCELLED"]_vars

\* "CONVERTED and CANCELLED are final": of proformas.
ProformaFinal ==
  [][\A p \in PI : status[p] = "CANCELLED" => status'[p] = "CANCELLED"]_vars

\* "leaving every line item duplicated": what a serializable edit avoids for
\* proformas happens to estimates.
EstimateLinesOnce == Cardinality(lines[Estimate]) <= 1

\* The same for the orders that were made of estimates.
OrderReportsAgree == getSaleOrderItemsReportData.lines = getSaleOrdersReportData.orders

\* "copies every field forward": the sale has the lines of the order it was made of.
SaleCopiesOrder ==
  \A i \in INV : source[i] \in SO => lines[i] = lines[source[i]]

\* The same after a cancellation: a challan revived counts on the page and not in the list.
FulfilmentAgrees == \A i \in INV : Exists(i) => getInvoices(i) = getInvoiceById(i)

\* "guarantee no duplicate conversions occur": of a challan into a sale.
ChallanSoldOnce ==
  \A i, j \in INV : source[i] = source[j] /\ source[i] \in Challan => i = j

\* "Cancel or reverse linked dispatches before cancelling this invoice."
CancelledHasNothingOut ==
  \A i \in INV : status[i] = "CANCELLED" => \A c \in ChallansOf(i) : out[c] = back[c]

\* A cancelled dispatch puts its goods back into stock.
CancelledCameBack ==
  \A c \in Challan : challan[c].status = "CANCELLED" => out[c] = back[c]

\* Only goods that left come back.
OnlyWhatLeftComesBack == unbacked = {}

\* "anything dispatched or beyond is a real dispatch record and must stay".
DispatchedStays == \A c \in Challan : challan[c].status = "deleted" => out[c] = 0

\* "a second/third partial dispatch can never push the cumulative total past what
\* was invoiced": by documents, of an invoice issued when it was made.
DocumentsWithinInvoice ==
  \A i \in INV : ~Deferred(i) => SumOf(Planned, Active(i)) <= Units

\* "restore stock/reverse cost exactly ONCE per ReturnOrder".
RestoredOnce == \A r \in Return : restocked[r] <= ret[r].qty

\* Returns that stand do not exceed what was sold.
StandingWithinSold == \A i \in INV : AlreadyReturned(i) <= Units

\* "never paid out blindly in cash": a return is worth its value once.
RefundedWithinValue == \A r \in Return : applied[r] + cash[r] <= ret[r].qty

\* A return puts back into stock what the invoice's dispatches took out of it.
ReturnedHadLeft ==
  \A i \in INV : Deferred(i) =>
    SumOf(restocked, ReturnsAgainst(i)) <= PostedBy(ChallansOf(i))
=============================================================================
