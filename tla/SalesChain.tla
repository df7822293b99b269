----------------------------- MODULE SalesChain -----------------------------
(***************************************************************************)
(* From the estimate to the invoice: creating, editing and converting      *)
(* estimates, sales orders and proforma invoices.  An order made a sale    *)
(* issues its stock at once; a proforma's invoice leaves it to challans.   *)
(***************************************************************************)
EXTENDS SalesDocuments

SALES_ORDER_TRANSITIONS ==
  [DRAFT      |-> {"PENDING", "CONFIRMED", "CANCELLED"},
   PENDING    |-> {"CONFIRMED", "CANCELLED"},
   CONFIRMED  |-> {"PROCESSING", "SHIPPED", "DELIVERED", "CANCELLED"},
   PROCESSING |-> {"SHIPPED", "DELIVERED", "CANCELLED"},
   SHIPPED    |-> {"DELIVERED"},
   DELIVERED  |-> {}, CANCELLED |-> {}]

SALES_ORDER_LOCKED_STATUSES == {"DELIVERED", "CANCELLED"}

PROFORMA_TRANSITIONS ==
  [DRAFT |-> {"SENT", "CANCELLED"}, SENT |-> {"CANCELLED"}, CONVERTED |-> {}, CANCELLED |-> {}]

Exists(d) == status[d] \notin {"none", "deleted"}

\* Rows not used yet: which of them is taken makes no difference.
Free(S) == {d \in S : status[d] = "none"}

\* What a request reads of a document.
Shown(d) == [NothingSeen EXCEPT !.status = status[d], !.lines = lines[d]]

\* Mutant of Unique: the column has no unique index.
UniqueNot(S, d) == TRUE

\* The documents of S have a unique column naming what they were made from.
Unique(S, d) == \A e \in S : source[e] # d

\* d is made from s: its lines are the ones that were read; s takes status t.
Make(w, d, st, s, t) ==
  /\ status' = [status EXCEPT ![d] = st, ![s] = t]
  /\ source' = [source EXCEPT ![d] = s]
  /\ lines' = [lines EXCEPT ![d] = seen[w].lines]

\* Mutant of Replaced: the lines that are there now are not deleted.
Added(w, d) == [lines EXCEPT ![d] = @ \cup {edits + 1}]

\* deleteMany deletes the lines it saw; the new ones are a version of their own.
Replaced(w, d) == [lines EXCEPT ![d] = (@ \ seen[w].lines) \cup {edits + 1}]

UnchangedElse == UNCHANGED <<mix, dispatchVars, returnVars>>

-----------------------------------------------------------------------------
(* Estimates. *)

CreateQuotation(w) ==
  /\ Idle(w, "createQuotation") /\ status[Estimate] = "none"
  /\ status' = [status EXCEPT ![Estimate] = "DRAFT"] /\ lines' = [lines EXCEPT ![Estimate] = {0}]
  /\ UNCHANGED <<source, converted, proforma, edits, lock, pc, on, seen>> /\ UnchangedElse

UpdateQuotationRead(w) ==
  /\ status[Estimate] \in {"DRAFT", "SENT"} /\ edits < MaxEdits
  /\ Read(w, "updateQuotation", Estimate, Shown(Estimate))

\* The status may be sent along, and is written whatever it has become.
UpdateQuotationWrite(w) ==
  /\ pc[w] = "updateQuotation"
  /\ IF ~Exists(Estimate) \/ edits = MaxEdits THEN Abort(w)
     ELSE /\ \E st \in {status[Estimate], "SENT"} : status' = [status EXCEPT ![Estimate] = st]
          /\ lines' = Replaced(w, Estimate) /\ edits' = edits + 1
          /\ End(w) /\ UNCHANGED <<source, converted, proforma>> /\ UnchangedElse

DeleteQuotation(w) ==
  /\ Idle(w, "deleteQuotation") /\ Exists(Estimate)
  /\ status' = [status EXCEPT ![Estimate] = "deleted"] /\ lines' = [lines EXCEPT ![Estimate] = {}]
  /\ UNCHANGED <<source, converted, proforma, edits, lock, pc, on, seen>> /\ UnchangedElse

Convertible == status[Estimate] \in {"DRAFT", "SENT"} /\ converted[Estimate] = None

QuotationToOrderRead(w) ==
  Convertible /\ Read(w, "quotationToOrder", Estimate, Shown(Estimate))

\* convertQuotationToSalesOrder: the loser of a race gets the winner's order.
QuotationToOrderWrite(w) ==
  /\ pc[w] = "quotationToOrder"
  /\ IF ~Exists(Estimate) \/ ~Unique(SO, Estimate) \/ Free(SO) = {} THEN Abort(w)
     ELSE LET so == First(Free(SO)) IN
          /\ Make(w, so, "DRAFT", Estimate, "CONVERTED")
          /\ converted' = [converted EXCEPT ![Estimate] = so]
          /\ End(w) /\ UNCHANGED <<proforma, edits>> /\ UnchangedElse

QuotationToSaleRead(w) ==
  Convertible /\ Read(w, "quotationToSale", Estimate, Shown(Estimate))

\* convertQuotationToSale: Order.sourceQuotationId is not unique.
QuotationToSaleWrite(w) ==
  /\ pc[w] = "quotationToSale"
  /\ IF ~Exists(Estimate) \/ Free(INV) = {} THEN Abort(w)
     ELSE LET i == First(Free(INV)) IN
          /\ Make(w, i, "PENDING", Estimate, "CONVERTED")
          /\ converted' = [converted EXCEPT ![Estimate] = i]
          /\ End(w) /\ UNCHANGED <<proforma, edits>> /\ UnchangedElse

-----------------------------------------------------------------------------
(* Sales orders. *)

CreateOrderRead(w) ==
  Unique(SO, Key) /\ Read(w, "createOrder", None, [NothingSeen EXCEPT !.lines = {0}])

\* createSalesOrder: two submissions with one idempotency key make one order.
CreateOrderWrite(w) ==
  /\ pc[w] = "createOrder"
  /\ IF ~Unique(SO, Key) \/ Free(SO) = {} THEN Abort(w)
     ELSE LET so == First(Free(SO)) IN
          /\ status' = [status EXCEPT ![so] = "DRAFT"] /\ source' = [source EXCEPT ![so] = Key]
          /\ lines' = [lines EXCEPT ![so] = seen[w].lines]
          /\ End(w) /\ UNCHANGED <<converted, proforma, edits>> /\ UnchangedElse

\* Mutant of OrderRows: updateSalesOrder does not lock the order.
NoRows(so) == {}

OrderRows(so) == {so}

\* updateSalesOrder locks the order, then reads its status and deletes its lines.
UpdateOrderLock(w, so) ==
  /\ Idle(w, "updateOrder") /\ Exists(so) /\ status[so] \notin SALES_ORDER_LOCKED_STATUSES
  /\ Lock(w, OrderRows(so)) /\ Go(w, "updateOrder", so, Shown(so)) /\ UNCHANGED data

UpdateOrderWrite(w) ==
  /\ pc[w] = "updateOrder"
  /\ LET so == on[w] IN
     /\ AtRow(w, so)
     /\ \/ /\ \E st \in SALES_ORDER_TRANSITIONS[seen[w].status] : status' = [status EXCEPT ![so] = st]
           /\ UNCHANGED <<lines, edits>>
        \/ /\ edits < MaxEdits /\ lines' = Replaced(w, so) /\ edits' = edits + 1
           /\ \E st \in SALES_ORDER_TRANSITIONS[seen[w].status] \cup {status[so]} :
                status' = [status EXCEPT ![so] = st]
     /\ End(w) /\ UNCHANGED <<source, converted, proforma>> /\ UnchangedElse

OrderToSaleRead(w, so) ==
  /\ Exists(so) /\ "DELIVERED" \in SALES_ORDER_TRANSITIONS[status[so]]
  /\ Read(w, "orderToSale", so, Shown(so))

\* convertSalesOrderToSale: Order.sourceSalesOrderId is unique; the status is
\* not looked at again.
OrderToSaleWrite(w) ==
  /\ pc[w] = "orderToSale" /\ AtRow(w, on[w])
  /\ IF ~Unique(INV, on[w]) \/ Free(INV) = {} THEN Abort(w)
     ELSE LET i == First(Free(INV)) IN
          /\ Make(w, i, "PENDING", on[w], "DELIVERED")
          /\ converted' = [converted EXCEPT ![on[w]] = i]
          /\ End(w) /\ UNCHANGED <<proforma, edits>> /\ UnchangedElse

\* A second request gets the proforma there is.
OrderToProformaRead(w, so) ==
  /\ status[so] = "CONFIRMED" /\ proforma[so] = None
  /\ Read(w, "orderToProforma", so, Shown(so))

OrderToProformaWrite(w) ==
  /\ pc[w] = "orderToProforma" /\ AtRow(w, on[w])
  /\ IF ~Unique(PI, on[w]) \/ Free(PI) = {} THEN Abort(w)
     ELSE LET p == First(Free(PI)) IN
          /\ Make(w, p, "DRAFT", on[w], "PROCESSING")
          /\ proforma' = [proforma EXCEPT ![on[w]] = p]
          /\ End(w) /\ UNCHANGED <<converted, edits>> /\ UnchangedElse

-----------------------------------------------------------------------------
(* Proforma invoices. *)

CreateProforma(w) ==
  /\ Idle(w, "createProforma") /\ Free(PI) # {}
  /\ \E st \in {"DRAFT", "SENT"} : status' = [status EXCEPT ![First(Free(PI))] = st]
  /\ lines' = [lines EXCEPT ![First(Free(PI))] = {0}]
  /\ UNCHANGED <<source, converted, proforma, edits, lock, pc, on, seen>> /\ UnchangedElse

\* updateProformaInvoice: a serializable transaction, its snapshot taken here.
UpdateProformaRead(w, p) ==
  /\ status[p] = "DRAFT" /\ edits < MaxEdits
  /\ Read(w, "updateProforma", p, Shown(p))

\* Mutant of Serializable: READ COMMITTED, the default.
ReadCommitted(w, p) == TRUE

\* PostgreSQL aborts it if the row, or its lines, changed since the snapshot.
Serializable(w, p) == Shown(p) = seen[w]

UpdateProformaWrite(w) ==
  /\ pc[w] = "updateProforma" /\ AtRow(w, on[w])
  /\ IF ~Serializable(w, on[w]) \/ edits = MaxEdits THEN Abort(w)
     ELSE /\ \E st \in PROFORMA_TRANSITIONS["DRAFT"] \cup {"DRAFT"} : status' = [status EXCEPT ![on[w]] = st]
          /\ lines' = Replaced(w, on[w]) /\ edits' = edits + 1
          /\ End(w) /\ UNCHANGED <<source, converted, proforma>> /\ UnchangedElse

ProformaStatusLock(w, p) ==
  /\ Idle(w, "proformaStatus") /\ Exists(p)
  /\ Lock(w, {p}) /\ Go(w, "proformaStatus", p, Shown(p)) /\ UNCHANGED data

ProformaStatusWrite(w) ==
  /\ pc[w] = "proformaStatus"
  /\ \E st \in PROFORMA_TRANSITIONS[status[on[w]]] : status' = [status EXCEPT ![on[w]] = st]
  /\ End(w) /\ UNCHANGED <<source, lines, converted, proforma, edits>> /\ UnchangedElse

\* Everything is read before the transaction begins.
ProformaToInvoiceRead(w, p) ==
  /\ Exists(p) /\ status[p] # "CANCELLED" /\ converted[p] = None
  /\ Read(w, "proformaToInvoice", p, Shown(p))

\* convertProformaToInvoice: ProformaInvoice.convertedInvoiceId is unique, but
\* every request writes the id of an invoice of its own into it.
ProformaToInvoiceWrite(w) ==
  /\ pc[w] = "proformaToInvoice" /\ AtRow(w, on[w])
  /\ IF Free(INV) = {} THEN Abort(w)
     ELSE LET i == First(Free(INV)) IN
          /\ Make(w, i, "PENDING", on[w], "CONVERTED")
          /\ converted' = [converted EXCEPT ![on[w]] = i]
          /\ End(w) /\ UNCHANGED <<proforma, edits>> /\ UnchangedElse

OrderOf(p) == {so \in SO : proforma[so] = p}

ProformaToOrderRead(w, p) ==
  /\ Exists(p) /\ status[p] # "CANCELLED" /\ OrderOf(p) = {}
  /\ Read(w, "proformaToOrder", p, Shown(p))

\* convertProformaToSalesOrder: SalesOrder.proformaInvoiceId is unique.
ProformaToOrderWrite(w) ==
  /\ pc[w] = "proformaToOrder" /\ AtRow(w, on[w])
  /\ IF ~Unique(SO, on[w]) \/ OrderOf(on[w]) # {} \/ Free(SO) = {} THEN Abort(w)
     ELSE LET so == First(Free(SO)) IN
          /\ Make(w, so, "CONFIRMED", on[w], "CONVERTED")
          /\ proforma' = [proforma EXCEPT ![so] = on[w]]
          /\ End(w) /\ UNCHANGED <<converted, edits>> /\ UnchangedElse

-----------------------------------------------------------------------------

ChainStep(w) ==
  \/ UpdateQuotationWrite(w) \/ QuotationToOrderWrite(w) \/ QuotationToSaleWrite(w)
  \/ CreateOrderWrite(w) \/ UpdateOrderWrite(w) \/ OrderToSaleWrite(w) \/ OrderToProformaWrite(w)
  \/ UpdateProformaWrite(w) \/ ProformaStatusWrite(w) \/ ProformaToInvoiceWrite(w) \/ ProformaToOrderWrite(w)

ChainArrive(w) ==
  \/ CreateQuotation(w) \/ UpdateQuotationRead(w) \/ DeleteQuotation(w)
  \/ QuotationToOrderRead(w) \/ QuotationToSaleRead(w) \/ CreateOrderRead(w) \/ CreateProforma(w)
  \/ \E so \in SO : UpdateOrderLock(w, so) \/ OrderToSaleRead(w, so) \/ OrderToProformaRead(w, so)
  \/ \E p \in PI : \/ UpdateProformaRead(w, p) \/ ProformaStatusLock(w, p)
                   \/ ProformaToInvoiceRead(w, p) \/ ProformaToOrderRead(w, p)
=============================================================================
