------------------------------ MODULE Dispatch ------------------------------
(***************************************************************************)
(* Delivery challans: planned, dispatched, delivered, cancelled, returned  *)
(* in part, made a sale.  A challan of a deferred invoice takes its goods  *)
(* out of stock when it is dispatched (InvoiceFulfilmentService); a direct *)
(* one when it is made a sale; one of an invoice already issued, never.    *)
(***************************************************************************)
EXTENDS SalesDocuments

ACTIVE == {"IN_TRANSIT", "CLOSED", "CONVERTED"}

ChallansOf(i) == {c \in Challan : challan[c].of = i}
Active(i)     == {c \in ChallansOf(i) : challan[c].status \in ACTIVE}
ReturnsOf(c)  == {d \in DCReturn : dcReturn[d].of = c}

Returned(c) == SumOf([d \in DCReturn |-> dcReturn[d].qty], ReturnsOf(c))

\* Order.inventory_deducted: all but a proforma's invoice are issued as they are made.
inventory_deducted(i) == source[i] \notin PI \/ fulfilled[i]

\* isDeferred: not all of it was issued, or a challan of it has posted.
Deferred(i) ==
  ~inventory_deducted(i) \/ \E c \in ChallansOf(i) : challan[c].status # "deleted" /\ out[c] > 0

\* Units of the invoice that challans in the set C have posted.
PostedBy(C) == SumOf(out, C)

\* state: what challans with postings have not fulfilled, c left out; an invoice marked
\* deducted that none has posted counts as fulfilled.
Pending(i, c) ==
  LET posted == PostedBy(Active(i) \ {c})
  IN IF inventory_deducted(i) /\ posted = 0 THEN 0 ELSE Units - posted

Planned == [c \in Challan |-> challan[c].qty]

\* getRemainingInvoiceQty, for invoices whose stock was issued: by documents.
Remaining(i, c) == Units - SumOf(Planned, Active(i) \ {c})

Unplanned == {c \in Challan : challan[c].status = "none"}

IsDeferred(c) == challan[c].of # None /\ Deferred(challan[c].of)

\* Of an issued invoice's challan: also whether the invoice has that much left.
ShownChallan(c) ==
  [NothingSeen EXCEPT !.status = challan[c].status,
     !.fits = challan[c].of = None \/ IsDeferred(c) \/ challan[c].qty <= Remaining(challan[c].of, c)]

SetStatus(c, st) == challan' = [challan EXCEPT ![c].status = st]

UnchangedElsewhere == UNCHANGED <<mix, docVars, returnVars>>

-----------------------------------------------------------------------------
(* Dispatch of a challan against its invoice, and its reversal. *)

\* Mutant of DispatchRows: dispatch does not lock the invoice's order.
ChallanOnly(c) == {c}

\* The challan's row is written before the order's is locked.
DispatchRows(c) == {c, challan[c].of}

\* Mutant of Posted: dispatch does not count the challan's movements.
PostedNever(c) == FALSE

Posted(c) == out[c] > 0

\* dispatch: under the order's lock the invoice's state is worked out.
MayDispatch(c) ==
  LET i == challan[c].of IN
  status[i] # "CANCELLED" /\ (Posted(c) \/ challan[c].qty <= Pending(i, c))

\* The goods leave stock, and the invoice is marked when nothing is pending any more,
\* unless this challan's movements are there already.
Issue(c) ==
  LET i == challan'[c].of IN
  IF Posted(c) THEN UNCHANGED <<out, fulfilled>>
  ELSE /\ out' = [out EXCEPT ![c] = @ + challan'[c].qty]
       /\ fulfilled' = [fulfilled EXCEPT ![i] = PostedBy(Active(i) \ {c}) + challan'[c].qty >= Units]

\* reverse puts back, once, what the challan's movements took.  For a challan that
\* never posted, reverseChallanStock falls through and puts its lines into stock.
Reverse(c) ==
  IF Posted(c)
  THEN /\ back' = [back EXCEPT ![c] = out[c]] /\ UNCHANGED unbacked
       /\ fulfilled' = [fulfilled EXCEPT ![challan[c].of] = @ /\ back[c] > 0]
  ELSE unbacked' = unbacked \cup {c} /\ UNCHANGED <<back, fulfilled>>

-----------------------------------------------------------------------------
(* Creating, editing, deleting challans. *)

\* createDeliveryChallan: of an invoice as a draft, or direct, sent at once or not.
CreateChallan(w, i, q) ==
  /\ Idle(w, "createChallan") /\ Unplanned # {}
  /\ i # None => status[i] # "none"
  /\ \E st \in {"DRAFT"} \cup (IF i = None THEN {"IN_TRANSIT"} ELSE {}) :
       challan' = [challan EXCEPT ![First(Unplanned)] = [status |-> st, of |-> i, qty |-> q, key |-> None]]
  /\ UNCHANGED <<voided, out, back, unbacked, fulfilled, dcReturn, received, lock, pc, on, seen>> /\ UnchangedElsewhere

\* The same, of a deferred invoice and sent at once: dispatched as it is created.
CreateDispatched(w, i, q) ==
  /\ Idle(w, "createChallan") /\ Unplanned # {} /\ AtRow(w, i)
  /\ status[i] = "PENDING" /\ Deferred(i) /\ q <= Pending(i, None)
  /\ LET c == First(Unplanned) IN
     /\ challan' = [challan EXCEPT ![c] = [status |-> "IN_TRANSIT", of |-> i, qty |-> q, key |-> None]]
     /\ Issue(c)
  /\ UNCHANGED <<voided, back, unbacked, dcReturn, received, lock, pc, on, seen>> /\ UnchangedElsewhere

\* InvoiceDispatchService.post: what is pending goes out in one challan, created
\* IN_TRANSIT under the invoice's own key; review refuses it beside another.
ReconcileRead(w, i) ==
  /\ status[i] = "PENDING" /\ Deferred(i)
  /\ \A c \in Challan : challan[c].key # i
  /\ \A c \in ChallansOf(i) : challan[c].status \notin {"DRAFT", "IN_TRANSIT"}
  /\ Pending(i, None) > 0
  /\ Read(w, "reconcile", i, [NothingSeen EXCEPT !.n = Pending(i, None)])

KeyFree(i) == \A c \in Challan : challan[c].key # i

ReconcileWrite(w) ==
  /\ pc[w] = "reconcile" /\ AtRow(w, on[w])
  /\ LET i == on[w] IN
     IF ~KeyFree(i) \/ Unplanned = {} \/ status[i] = "CANCELLED" \/ seen[w].n > Pending(i, None) THEN Abort(w)
     ELSE LET c == First(Unplanned) IN
          /\ challan' = [challan EXCEPT ![c] = [status |-> "IN_TRANSIT", of |-> i, qty |-> seen[w].n, key |-> i]]
          /\ Issue(c)
          /\ End(w) /\ UNCHANGED <<voided, back, unbacked, dcReturn, received>> /\ UnchangedElsewhere

\* updateDeliveryChallan, new lines: those of a draft are replaced, unless a
\* return names them (a foreign key).
EditRead(w, c) == challan[c].status = "DRAFT" /\ Read(w, "editChallan", c, NothingSeen)

EditWrite(w) ==
  /\ pc[w] = "editChallan" /\ AtRow(w, on[w])
  /\ IF challan[on[w]].status = "deleted" \/ ReturnsOf(on[w]) # {} THEN Abort(w)
     ELSE /\ \E q \in Quantity : challan' = [challan EXCEPT ![on[w]].qty = q]
          /\ End(w) /\ UNCHANGED <<voided, out, back, unbacked, fulfilled, dcReturn, received>> /\ UnchangedElsewhere

\* deleteDeliveryChallan: drafts only, by an unlocked read.
DeleteRead(w, c) ==
  /\ challan[c].status = "DRAFT" /\ ReturnsOf(c) = {}
  /\ Read(w, "deleteChallan", c, NothingSeen)

DeleteWrite(w) ==
  /\ pc[w] = "deleteChallan" /\ AtRow(w, on[w])
  /\ IF challan[on[w]].status = "deleted" \/ ReturnsOf(on[w]) # {} THEN Abort(w)
     ELSE /\ SetStatus(on[w], "deleted") /\ voided' = voided \cup {on[w]}
          /\ End(w) /\ UNCHANGED <<out, back, unbacked, fulfilled, dcReturn, received>> /\ UnchangedElsewhere

-----------------------------------------------------------------------------
(* updateDeliveryChallan, a status: read unlocked, written whatever it is then. *)

StatusRead(w, c) ==
  /\ challan[c].status \in {"DRAFT", "IN_TRANSIT", "CANCELLED"}
  /\ Read(w, "challanStatus", c, ShownChallan(c))

Gone(c) == challan[c].status \in {"none", "deleted"}

\* A draft goes out; with a deferred invoice its row is written first, then locked
\* rows are waited for, and what is left of the invoice is worked out.
DispatchLock(w) ==
  /\ pc[w] = "challanStatus" /\ seen[w].status = "DRAFT"
  /\ IsDeferred(on[w]) /\ UNCHANGED data
  /\ IF Gone(on[w]) \/ ~MayDispatch(on[w]) THEN AtRow(w, on[w]) /\ End(w)
     ELSE Lock(w, DispatchRows(on[w])) /\ Go(w, "dispatch", on[w], NothingSeen)

DispatchWrite(w) ==
  /\ pc[w] = "dispatch"
  /\ SetStatus(on[w], "IN_TRANSIT") /\ Issue(on[w])
  /\ End(w) /\ UNCHANGED <<voided, back, unbacked, dcReturn, received>> /\ UnchangedElsewhere

\* Every other change of status: no stock moves but by a cancelled dispatch.
StatusWrite(w, st) ==
  /\ pc[w] = "challanStatus" /\ AtRow(w, on[w]) /\ st # seen[w].status
  /\ LET c == on[w] IN
     /\ seen[w].status = "DRAFT" /\ st = "IN_TRANSIT" => ~IsDeferred(c)
     /\ IF Gone(c) \/ (seen[w].status = "DRAFT" /\ st = "IN_TRANSIT" /\ ~seen[w].fits) THEN Abort(w)
        ELSE /\ SetStatus(c, st)
             /\ voided' = IF st = "CANCELLED" THEN voided \cup {c} ELSE voided
             /\ IF seen[w].status = "IN_TRANSIT" /\ st = "CANCELLED" /\ IsDeferred(c)
                THEN AtRow(w, challan[c].of) /\ Reverse(c)
                ELSE UNCHANGED <<back, unbacked, fulfilled>>
             /\ End(w) /\ UNCHANGED <<out, dcReturn, received>> /\ UnchangedElsewhere

\* markChallanDelivered.
DeliverRead(w, c) == challan[c].status = "IN_TRANSIT" /\ Read(w, "deliver", c, NothingSeen)

DeliverWrite(w) ==
  /\ pc[w] = "deliver" /\ AtRow(w, on[w])
  /\ IF Gone(on[w]) THEN Abort(w)
     ELSE /\ SetStatus(on[w], "CLOSED")
          /\ End(w) /\ UNCHANGED <<voided, out, back, unbacked, fulfilled, dcReturn, received>> /\ UnchangedElsewhere

-----------------------------------------------------------------------------
(* Returns of challans, and challans made sales. *)

ReturnRows(c) == {c}

\* createDeliveryChallanReturn: under the challan's lock, what may come back.
RaiseLock(w, c, q) ==
  /\ Idle(w, "raiseReturn") /\ challan[c].status \in {"IN_TRANSIT", "CLOSED"}
  /\ q <= challan[c].qty - Returned(c)
  /\ Lock(w, ReturnRows(c)) /\ Go(w, "raiseReturn", c, [NothingSeen EXCEPT !.n = q]) /\ UNCHANGED data

RaiseWrite(w) ==
  /\ pc[w] = "raiseReturn" /\ AtRow(w, on[w])
  /\ \E d \in DCReturn :
       /\ dcReturn[d].status = "none"
       /\ dcReturn' = [dcReturn EXCEPT ![d] = [status |-> "PENDING", of |-> on[w], qty |-> seen[w].n]]
  /\ End(w) /\ UNCHANGED <<challan, voided, out, back, unbacked, fulfilled, received>> /\ UnchangedElsewhere

ReceiveRows(d) == {d}

ReceiveLock(w, d) ==
  /\ Idle(w, "receive") /\ dcReturn[d].status = "PENDING"
  /\ Lock(w, ReceiveRows(d)) /\ Go(w, "receive", d, NothingSeen) /\ UNCHANGED data

\* receiveDeliveryChallanReturn: GOOD units go back into stock, whatever left it.
ReceiveWrite(w) ==
  /\ pc[w] = "receive" /\ AtRow(w, on[w])
  /\ dcReturn' = [dcReturn EXCEPT ![on[w]].status = "RECEIVED"]
  /\ \E good \in BOOLEAN :
       received' = [received EXCEPT ![on[w]] = IF good THEN @ + dcReturn[on[w]].qty ELSE @]
  /\ End(w) /\ UNCHANGED <<challan, voided, out, back, unbacked, fulfilled>> /\ UnchangedElsewhere

\* convertDeliveryChallanToSale: the claim (CLOSED to CONVERTED) holds the row to
\* the commit, so that no step comes in between.
ConvertChallan(w, c) ==
  /\ Idle(w, "convertChallan") /\ AtRow(w, c)
  /\ challan[c].status = "CLOSED" /\ challan[c].of = None
  /\ challan[c].qty > Returned(c)
  /\ \E i \in INV :
       /\ status[i] = "none" /\ i = First({j \in INV : status[j] = "none"})
       /\ status' = [status EXCEPT ![i] = "PENDING"] /\ source' = [source EXCEPT ![i] = c]
       /\ lines' = [lines EXCEPT ![i] = {0}]
  /\ SetStatus(c, "CONVERTED")
  /\ UNCHANGED <<mix, converted, proforma, edits, voided, out, back, unbacked, fulfilled, dcReturn, received,
                 returnVars, lock, pc, on, seen>>

\* cancelInvoice: nothing dispatched and nothing paid, by an unlocked read.
CancelInvoiceRead(w, i) ==
  /\ status[i] = "PENDING" /\ paid[i] = 0 /\ \A c \in Active(i) : out[c] = 0
  /\ Read(w, "cancelInvoice", i, NothingSeen)

CancelInvoiceWrite(w) ==
  /\ pc[w] = "cancelInvoice" /\ AtRow(w, on[w])
  /\ status' = [status EXCEPT ![on[w]] = "CANCELLED"]
  /\ End(w) /\ UNCHANGED <<mix, source, lines, converted, proforma, edits, dispatchVars, returnVars>>

-----------------------------------------------------------------------------

DispatchStep(w) ==
  \/ ReconcileWrite(w) \/ EditWrite(w) \/ DeleteWrite(w) \/ DispatchLock(w) \/ DispatchWrite(w)
  \/ \E st \in {"IN_TRANSIT", "CLOSED", "CANCELLED"} : StatusWrite(w, st)
  \/ DeliverWrite(w) \/ RaiseWrite(w) \/ ReceiveWrite(w) \/ CancelInvoiceWrite(w)

DispatchArrive(w) ==
  \/ \E q \in Quantity : CreateChallan(w, None, q) \/ \E i \in INV : CreateChallan(w, i, q) \/ CreateDispatched(w, i, q)
  \/ \E i \in INV : ReconcileRead(w, i) \/ CancelInvoiceRead(w, i)
  \/ \E c \in Challan :
       \/ EditRead(w, c) \/ DeleteRead(w, c) \/ StatusRead(w, c) \/ DeliverRead(w, c) \/ ConvertChallan(w, c)
       \/ \E q \in Quantity : RaiseLock(w, c, q)
  \/ \E d \in DCReturn : ReceiveLock(w, d)
=============================================================================
