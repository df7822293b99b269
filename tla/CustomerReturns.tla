--------------------------- MODULE CustomerReturns --------------------------
(***************************************************************************)
(* What customers bring back of an invoice: the return is raised under the *)
(* lock of the sale, approved (which restores stock) without any lock, and *)
(* refunded under its own: in money first against what is still owed and   *)
(* the rest paid out, or as a credit to whoever bought.  Payments of the   *)
(* invoice are the Payments module's; here they only raise what was        *)
(* collected.                                                              *)
(***************************************************************************)
EXTENDS SalesDocuments

NonNegative(n) == IF n > 0 THEN n ELSE 0
Lesser(a, b) == IF a < b THEN a ELSE b

ReturnsAgainst(i) == {r \in Return : ret[r].of = i}

\* Units each return names.
Brought == [r \in Return |-> ret[r].qty]

\* Prior returns count unless they are REJECTED now.
AlreadyReturned(i) == SumOf(Brought, {r \in ReturnsAgainst(i) : ret[r].status # "REJECTED"})

\* _computeOrderDue, and the money collected that no other return has had back.
Due(i) == NonNegative(Units - paid[i] - SumOf(applied, ReturnsAgainst(i)))
Refundable(i, r) == NonNegative(paid[i] - SumOf(cash, ReturnsAgainst(i) \ {r}))

Settled == {"APPROVED", "COMPLETED"}

UnchangedOthers == UNCHANGED <<mix, docVars, dispatchVars>>

\* A customer pays one unit of what is due.
Collect(w, i) ==
  /\ Idle(w, "collect") /\ status[i] = "PENDING" /\ Due(i) > 0
  /\ paid' = [paid EXCEPT ![i] = @ + 1]
  /\ UNCHANGED <<ret, rejected, restocked, applied, cash, lock, pc, on, seen>> /\ UnchangedOthers

\* Mutant of SaleRows: _lockOriginalDocumentForReturn is not called.
NoSaleRows(i) == {}

SaleRows(i) == {i}

\* createReturnOrder: prior returns are read under the lock of the sale; whether
\* the goods ever left is not asked.
CreateReturnLock(w, i, q) ==
  /\ Idle(w, "createReturn") /\ status[i] # "none" /\ q <= Units - AlreadyReturned(i)
  /\ Lock(w, SaleRows(i)) /\ Go(w, "createReturn", i, [NothingSeen EXCEPT !.n = q]) /\ UNCHANGED data

\* The request names the status the return starts in, any of them.
CreateReturnWrite(w, st) ==
  /\ pc[w] = "createReturn"
  /\ LET new == {r \in mix.returns : ret[r].status = "none"}
         r   == First(new)
     IN IF new = {} THEN Abort(w)
        ELSE /\ ret' = [ret EXCEPT ![r] = [status |-> st, of |-> on[w], qty |-> seen[w].n]]
             /\ rejected' = IF st = "REJECTED" THEN rejected \cup {r} ELSE rejected
             /\ restocked' = [restocked EXCEPT ![r] = IF st \in Settled THEN seen[w].n ELSE 0]
             /\ End(w) /\ UNCHANGED <<paid, applied, cash>> /\ UnchangedOthers

\* updateReturnOrder: the return's status, and whether it was restocked, are read
\* without a lock; any status may be sent.
UpdateReturnRead(w, r) ==
  /\ ret[r].status # "none"
  /\ Read(w, "updateReturn", r, [NothingSeen EXCEPT !.status = ret[r].status, !.n = restocked[r]])

\* Restored when approved, unless the ledger showed a movement for this return.
MayRestock(w, st) == st \in Settled /\ seen[w].status \notin Settled /\ seen[w].n = 0

UpdateReturnWrite(w, st) ==
  /\ pc[w] = "updateReturn" /\ AtRow(w, on[w])
  /\ ret' = [ret EXCEPT ![on[w]].status = st]
  /\ rejected' = IF st = "REJECTED" THEN rejected \cup {on[w]} ELSE rejected
  /\ restocked' = [restocked EXCEPT ![on[w]] = IF MayRestock(w, st) THEN Lesser(@ + ret[on[w]].qty, 2 * ret[on[w]].qty) ELSE @]
  /\ End(w) /\ UNCHANGED <<paid, applied, cash>> /\ UnchangedOthers

RefundRows(r) == {r}

\* recordRefund locks the return, then reads what is due and what was collected.
RefundLock(w, r) ==
  /\ Idle(w, "refund") /\ ret[r].status = "APPROVED"
  /\ Lock(w, RefundRows(r))
  /\ Go(w, "refund", r, [NothingSeen EXCEPT !.n = Due(ret[r].of), !.m = Refundable(ret[r].of, r)])
  /\ UNCHANGED data

\* createPayment returns the payment its key has, and moves no money then.
PaidOnce(was, amount) == IF was > 0 THEN was ELSE amount

\* Paid out, or a Credit Ledger refund to a party of one of three kinds.
RefundMethod == {"money", "customer", "dealer", "franchise"}

\* The credit is set off against what is due; the rest is paid out in money, and only
\* from what was collected.  A Credit Ledger refund pays nothing out: a dealer's is
\* refused when nothing is due, a franchise's credits its ledger and not the invoice.
RefundWrite(w, method) ==
  /\ pc[w] = "refund" /\ AtRow(w, on[w])
  /\ LET r    == on[w]
         off  == IF method = "franchise" THEN 0 ELSE Lesser(ret[r].qty, seen[w].n)
         rest == IF method = "money" THEN ret[r].qty - off ELSE 0
     IN IF rest > seen[w].m \/ (method = "dealer" /\ off = 0) THEN Abort(w)
        ELSE /\ applied' = [applied EXCEPT ![r] = PaidOnce(@, off)]
             /\ cash' = [cash EXCEPT ![r] = PaidOnce(@, rest)]
             /\ ret' = [ret EXCEPT ![r].status = "COMPLETED"]
             /\ End(w) /\ UNCHANGED <<rejected, restocked, paid>> /\ UnchangedOthers

-----------------------------------------------------------------------------

ReturnStep(w) ==
  \/ \E st \in ReturnStatus : CreateReturnWrite(w, st) \/ UpdateReturnWrite(w, st)
  \/ \E method \in RefundMethod : RefundWrite(w, method)

ReturnArrive(w) ==
  \/ \E i \in INV : Collect(w, i) \/ \E q \in Quantity : CreateReturnLock(w, i, q)
  \/ \E r \in Return : UpdateReturnRead(w, r) \/ RefundLock(w, r)
=============================================================================
