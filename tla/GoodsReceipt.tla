---------------------------- MODULE GoodsReceipt ----------------------------
(***************************************************************************)
(* Receiving goods against one purchase order: the order (PO), its goods   *)
(* receipts (GRN) and its GRN-rejection purchase returns.                  *)
(*                                                                         *)
(* A Worker is one HTTP request in flight.  A handler that locks rows      *)
(* (SELECT ... FOR UPDATE) has a step per lock and commits in its last     *)
(* step; a handler that reads without a lock and writes later has a read   *)
(* step and a write step, and every write to a row waits for that row's    *)
(* lock.  That is PostgreSQL's READ COMMITTED, the isolation the program   *)
(* runs under.  Uncommitted writes are invisible, so a transaction's       *)
(* writes appear in the step that commits it.                              *)
(***************************************************************************)
EXTENDS Sums

CONSTANTS
  Worker,         \* requests that may be in flight together
  Grn,            \* identities of goods receipts
  Ret,            \* identities of GRN-rejection purchase returns
  Material,       \* materials on the order
  None,           \* no document, no lock holder
  FirstOrder,     \* ordered quantity of each material at creation
  EditedOrders,   \* quantities an edit of the order may set
  ReceiptInputs,  \* item lists the receipt form may submit
  ReturnInputs,   \* quantities a rejection return may be for
  Ops,            \* kinds of request issued
  ReturnStart,    \* initial statuses a new return may be submitted with
  ManualStatus,   \* statuses the status endpoint is asked to write
  MaxReversals    \* bound on the cancellation entries before a new cancel starts

\* enum POStatus of the schema
POStatus == {"DRAFT", "PENDING_APPROVAL", "APPROVED", "ORDERED", "SENT",
             "PARTIALLY_RECEIVED", "RECEIVED", "INVOICED", "PAID", "CLOSED", "CANCELLED"}

ReceiptReady == {"PENDING_APPROVAL", "APPROVED", "ORDERED", "SENT", "PARTIALLY_RECEIVED"}

\* "none" is a document not created yet
GrnStatus == {"none", "PENDING", "COMPLETED", "REJECTED", "CANCELLED"}
RetStatus == {"none", "PENDING", "COMPLETED", "CANCELLED"}

OrderQty  == [Material -> Nat \ {0}]
ReturnQty == [Material -> Nat]
Item      == [mat : Material, rcv : Nat, acc : Nat, rej : Nat]

ASSUME InputAssumption ==
  /\ None \notin Worker /\ None \notin Grn \cup Ret /\ Grn \cap Ret = {}
  /\ IsFiniteSet(Grn) /\ IsFiniteSet(Ret) /\ IsFiniteSet(Material)
  /\ FirstOrder \in OrderQty
  /\ EditedOrders \subseteq OrderQty
  /\ ReceiptInputs \subseteq Seq(Item)
  /\ ReturnInputs \subseteq ReturnQty
  /\ ReturnStart \subseteq {"PENDING", "COMPLETED"}
  /\ ManualStatus \subseteq POStatus
  /\ MaxReversals \in Nat

VARIABLES
  poStatus, ordered, reversals,       \* the order, its lines, its CANCEL ledger entries
  grnStatus, grnItems, lots, bills,   \* receipts; how often stock and bill were posted for each
  retStatus, retQty, debits,          \* returns; how many RETURN ledger entries each has
  poLock, grnLock, retLock,           \* row locks: holder or None
  pc, on, seen                        \* per request: control, document, values read

poVars  == <<poStatus, ordered, reversals>>
grnVars == <<grnStatus, grnItems, lots, bills>>
retVars == <<retStatus, retQty, debits>>
locks   == <<poLock, grnLock, retLock>>
reqVars == <<pc, on, seen>>
vars    == <<poVars, grnVars, retVars, locks, reqVars>>

PC == {"idle", "create", "approve", "post", "cancelGRN", "cancelPO", "status", "edit",
       "pay", "newReturn", "complete", "claimed", "debited", "returnPO",
       "recognize", "insertEntry", "cancelReturn"}

\* Values a request has read or was sent: an order status, line quantities, whether the
\* ledger has the entry of a return.
Snapshot   == [status : POStatus, qty : ReturnQty, posted : BOOLEAN]
NoSnapshot == [status |-> "DRAFT", qty |-> FirstOrder, posted |-> FALSE]

Init ==
  /\ poStatus \in {"DRAFT", "APPROVED"} /\ ordered = FirstOrder /\ reversals = 0
  /\ grnStatus = [g \in Grn |-> "none"] /\ grnItems = [g \in Grn |-> << >>]
  /\ lots = [g \in Grn |-> 0] /\ bills = [g \in Grn |-> 0]
  /\ retStatus = [r \in Ret |-> "none"] /\ debits = [r \in Ret |-> 0]
  /\ retQty = [r \in Ret |-> [m \in Material |-> 0]]
  /\ poLock = None /\ grnLock = [g \in Grn |-> None] /\ retLock = [r \in Ret |-> None]
  /\ pc = [w \in Worker |-> "idle"] /\ on = [w \in Worker |-> None]
  /\ seen = [w \in Worker |-> NoSnapshot]

-----------------------------------------------------------------------------
(* Quantities. *)

\* Sum of one field over the items of a receipt that are of material m.
ItemQty(items, field, m) ==
  SumOf([i \in DOMAIN items |-> IF items[i].mat = m THEN items[i][field] ELSE 0], DOMAIN items)

Completed == {g \in Grn : grnStatus[g] = "COMPLETED"}

\* Accepted quantity over the completed receipts in G.
Accepted(G, m) == SumOf([g \in Grn |-> ItemQty(grnItems[g], "acc", m)], G)

\* Returned quantity over the returns in R.
Returned(R, m) == SumOf([r \in Ret |-> retQty[r][m]], R)

CompletedReturns == {r \in Ret : retStatus[r] = "COMPLETED"}

Lesser(a, b) == IF a < b THEN a ELSE b
Minus(a, b)  == IF a > b THEN a - b ELSE 0

\* getCumulativeReceived: accepted in the completed receipts other than g, plus
\* what completed returns contribute, capped at what is still open on the line.
CumulativeReceived(m, g) ==
  LET acc == Accepted(Completed \ {g}, m)
  IN  acc + Lesser(Minus(ordered[m], acc), Returned(CompletedReturns, m))

AnyReceived(items)     == \E i \in DOMAIN items : items[i].rcv > 0
NothingAccepted(items) == \A i \in DOMAIN items : items[i].acc = 0

-----------------------------------------------------------------------------
(* Requests and row locks. *)

Start(w, op, p, d) ==
  /\ op \in Ops /\ pc[w] = "idle"
  /\ pc' = [pc EXCEPT ![w] = p] /\ on' = [on EXCEPT ![w] = d]

\* The request has read, or was sent, a status or quantities.
SeeStatus(w, s) == seen' = [seen EXCEPT ![w].status = s]
SeeQty(w, q)    == seen' = [seen EXCEPT ![w].qty = q]

Goto(w, p) == pc' = [pc EXCEPT ![w] = p] /\ UNCHANGED on

\* The lock once the transaction of w has ended.
Freed(lock, w) == IF lock = w THEN None ELSE lock

\* Commit or rollback: the locks of the transaction are released.
End(w) ==
  /\ poLock'  = Freed(poLock, w)
  /\ grnLock' = [g \in Grn |-> Freed(grnLock[g], w)]
  /\ retLock' = [r \in Ret |-> Freed(retLock[r], w)]
  /\ pc' = [pc EXCEPT ![w] = "idle"] /\ on' = [on EXCEPT ![w] = None]
  /\ seen' = [seen EXCEPT ![w] = NoSnapshot]

\* A transaction that exceeds its timeout, or whose process dies, is rolled back.
Timeout(w) == pc[w] # "idle" /\ End(w) /\ UNCHANGED <<poVars, grnVars, retVars>>

-----------------------------------------------------------------------------
(* GRNService.createFromPO: locks the order, validates, inserts a PENDING GRN. *)

CreateLock(w, g) ==
  /\ grnStatus[g] = "none" /\ \A v \in Worker : on[v] # g
  /\ Start(w, "create", "create", g)
  /\ poLock = None /\ poLock' = w
  /\ UNCHANGED <<poVars, grnVars, retVars, grnLock, retLock, seen>>

\* Every line on its own: received within what the line still has open.
FitsRemaining(items) ==
  \A i \in DOMAIN items :
    /\ items[i].rej <= items[i].rcv
    /\ items[i].rcv <= Minus(ordered[items[i].mat], CumulativeReceived(items[i].mat, None))

CreateInsert(w) ==
  /\ pc[w] = "create"
  /\ \E items \in ReceiptInputs :
       IF poStatus \in ReceiptReady /\ FitsRemaining(items)
       THEN /\ grnStatus' = [grnStatus EXCEPT ![on[w]] = "PENDING"]
            /\ grnItems' = [grnItems EXCEPT ![on[w]] = items]
       ELSE UNCHANGED <<grnStatus, grnItems>>
  /\ End(w)
  /\ UNCHANGED <<poVars, lots, bills, retVars>>

-----------------------------------------------------------------------------
(* GRNService.approve: locks the receipt, reads it and the order's lines,   *)
(* then locks the order and re-reads its status, then posts or rejects.    *)

ApproveLockGRN(w, g) ==
  /\ grnStatus[g] = "PENDING"
  /\ Start(w, "approve", "approve", g)
  /\ grnLock[g] = None /\ grnLock' = [grnLock EXCEPT ![g] = w]
  /\ SeeQty(w, ordered)
  /\ UNCHANGED <<poVars, grnVars, retVars, poLock, retLock>>

\* Mutant of ApproveLockPO: the status of the order is not read again.
ApproveLockPOUnchecked(w) ==
  /\ pc[w] = "approve" /\ poLock = None /\ poLock' = w
  /\ Goto(w, "post")
  /\ UNCHANGED <<grnLock, retLock, seen, poVars, grnVars, retVars>>

ApproveLockPO(w) ==
  /\ pc[w] = "approve" /\ poLock = None
  /\ IF poStatus \in ReceiptReady
     THEN poLock' = w /\ Goto(w, "post") /\ UNCHANGED <<grnLock, retLock, seen>>
     ELSE End(w)
  /\ UNCHANGED <<poVars, grnVars, retVars>>

\* Fully rejected: final, with a reason, and nothing is posted.
ApproveReject(w) ==
  LET items == grnItems[on[w]] IN
  /\ pc[w] = "post" /\ AnyReceived(items) /\ NothingAccepted(items)
  /\ grnStatus' = [grnStatus EXCEPT ![on[w]] = "REJECTED"]
  /\ End(w)
  /\ UNCHANGED <<poVars, grnItems, lots, bills, retVars>>

\* Mutant of WithinOrder: what other receipts already cover is left out.
WithinOrderAlone(items, g, lines) ==
  \A i \in DOMAIN items : items[i].rcv <= lines[items[i].mat]

\* Every line on its own: received, with what other completed receipts and
\* returns already cover, within the quantity read before the order was locked.
WithinOrder(items, g, lines) ==
  \A i \in DOMAIN items :
    CumulativeReceived(items[i].mat, g) + items[i].rcv <= lines[items[i].mat]

\* Order status after g is posted: accepted quantities only, completed returns
\* are not counted.  Settling the vendor may close a received order.
StatusAfterPost(g, lines) ==
  IF \A m \in Material : Accepted(Completed \cup {g}, m) >= lines[m]
  THEN {"RECEIVED", "CLOSED"} ELSE {"PARTIALLY_RECEIVED"}

\* Lots and PURCHASE_IN movements; the bill and its liability, if the receipt has none
\* yet; the status.
Post(g) ==
  /\ lots' = [lots EXCEPT ![g] = @ + 1]
  /\ bills' = [bills EXCEPT ![g] = IF @ = 0 THEN 1 ELSE @]
  /\ grnStatus' = [grnStatus EXCEPT ![g] = "COMPLETED"]

\* A lot is unique to its receipt item, so a second posting is refused.
ApprovePost(w) ==
  LET g == on[w] items == grnItems[g] lines == seen[w].qty IN
  /\ pc[w] = "post" /\ ~NothingAccepted(items)
  /\ IF WithinOrder(items, g, lines) /\ lots[g] = 0
     THEN Post(g) /\ poStatus' \in StatusAfterPost(g, lines)
     ELSE UNCHANGED <<lots, bills, grnStatus, poStatus>>
  /\ End(w)
  /\ UNCHANGED <<ordered, reversals, grnItems, retVars>>

\* Nothing was received at all: the approval is refused.
ApproveNothing(w) ==
  /\ pc[w] = "post" /\ ~AnyReceived(grnItems[on[w]]) /\ NothingAccepted(grnItems[on[w]])
  /\ End(w) /\ UNCHANGED <<poVars, grnVars, retVars>>

-----------------------------------------------------------------------------
(* GRNService.cancel: reads the status, then writes CANCELLED; no lock, no  *)
(* transaction and no condition on the write.                              *)

CancelGRNRead(w, g) ==
  /\ grnStatus[g] \in {"PENDING", "CANCELLED"}
  /\ Start(w, "cancelGRN", "cancelGRN", g)
  /\ UNCHANGED <<poVars, grnVars, retVars, locks, seen>>

CancelGRNWrite(w) ==
  /\ pc[w] = "cancelGRN" /\ grnLock[on[w]] = None
  /\ grnStatus' = [grnStatus EXCEPT ![on[w]] = "CANCELLED"]
  /\ End(w)
  /\ UNCHANGED <<poVars, grnItems, lots, bills, retVars>>

-----------------------------------------------------------------------------
(* ProcurementService on the order row: each reads it without a lock and    *)
(* writes it later, unconditionally.                                       *)

\* cancelPO: refuses RECEIVED and CANCELLED only; also writes a CREDIT entry
\* that reverses the order in the vendor ledger.
CancelPORead(w) ==
  /\ poStatus \notin {"RECEIVED", "CANCELLED"} /\ reversals < MaxReversals
  /\ Start(w, "cancelPO", "cancelPO", None)
  /\ UNCHANGED <<poVars, grnVars, retVars, locks, seen>>

CancelPOWrite(w) ==
  /\ pc[w] = "cancelPO" /\ poLock = None
  /\ reversals' = reversals + 1 /\ poStatus' = "CANCELLED"
  /\ End(w)
  /\ UNCHANGED <<ordered, grnVars, retVars>>

\* updatePOStatus: any status may be asked for; only APPROVED has a condition.
StatusRead(w, s) ==
  /\ s = "APPROVED" => poStatus \in {"PENDING_APPROVAL", "APPROVED"}
  /\ Start(w, "status", "status", None)
  /\ SeeStatus(w, s)
  /\ UNCHANGED <<poVars, grnVars, retVars, locks>>

StatusWrite(w) ==
  /\ pc[w] = "status" /\ poLock = None
  /\ poStatus' \in IF seen[w].status = "RECEIVED" THEN {"RECEIVED", "CLOSED"}
                                                  ELSE {seen[w].status}
  /\ End(w)
  /\ UNCHANGED <<ordered, reversals, grnVars, retVars>>

\* updatePO: only an unreceived order without receipts may be edited; the
\* lines are replaced, and the status may become DRAFT or APPROVED.
EditRead(w) ==
  /\ poStatus \in {"DRAFT", "PENDING_APPROVAL", "APPROVED"}
  /\ \A g \in Grn : grnStatus[g] = "none"
  /\ Start(w, "edit", "edit", None)
  /\ SeeStatus(w, poStatus)
  /\ UNCHANGED <<poVars, grnVars, retVars, locks>>

EditWrite(w) ==
  /\ pc[w] = "edit" /\ poLock = None
  /\ ordered' \in EditedOrders
  /\ poStatus' \in {poStatus, "APPROVED"} \cup ({seen[w].status} \cap {"DRAFT"})
  /\ End(w)
  /\ UNCHANGED <<reversals, grnVars, retVars>>

\* Money on the order (an advance, an applied advance, a payment, the vendor's
\* settlement): each writes back the status it read, or CLOSED if that was
\* RECEIVED and nothing is due any more.
PayRead(w) ==
  /\ Start(w, "pay", "pay", None)
  /\ SeeStatus(w, poStatus)
  /\ UNCHANGED <<poVars, grnVars, retVars, locks>>

PayWrite(w) ==
  /\ pc[w] = "pay" /\ poLock = None
  /\ poStatus' \in {seen[w].status} \cup (IF seen[w].status = "RECEIVED" THEN {"CLOSED"} ELSE {})
  /\ End(w)
  /\ UNCHANGED <<ordered, reversals, grnVars, retVars>>

-----------------------------------------------------------------------------
(* PurchaseService.createPurchaseReturn for a GRN rejection: locks the     *)
(* order and returns an equal uncancelled return instead of a second one.  *)

\* What the receipt page submits: the rejected quantities of a finalized receipt.
RejectedQty(g) == [m \in Material |-> ItemQty(grnItems[g], "rej", m)]

ReturnLock(w, r) ==
  /\ retStatus[r] = "none" /\ \A v \in Worker : on[v] # r
  /\ Start(w, "newReturn", "newReturn", r)
  /\ poLock = None /\ poLock' = w
  /\ \E g \in Grn, q \in ReturnInputs :
       /\ grnStatus[g] \in {"COMPLETED", "REJECTED"} /\ q = RejectedQty(g)
       /\ SeeQty(w, q)
  /\ UNCHANGED <<poVars, grnVars, retVars, grnLock, retLock>>

\* Mutant of HasReturn: completed returns are overlooked.
HasPendingReturn(q) == \E r \in Ret : retStatus[r] = "PENDING" /\ retQty[r] = q

HasReturn(q) == \E r \in Ret : retStatus[r] \in {"PENDING", "COMPLETED"} /\ retQty[r] = q

\* recognizeReturn inserts the DEBIT entry of the return unless it found it posted.
Recognize(r, posted) == debits' = [debits EXCEPT ![r] = IF posted THEN @ ELSE @ + 1]

ReturnInsert(w) ==
  /\ pc[w] = "newReturn"
  /\ \/ HasReturn(seen[w].qty) /\ UNCHANGED retVars
     \/ /\ ~HasReturn(seen[w].qty)
        /\ \E s \in ReturnStart :
             /\ retStatus' = [retStatus EXCEPT ![on[w]] = s]
             /\ IF s = "COMPLETED" THEN Recognize(on[w], debits[on[w]] > 0) ELSE UNCHANGED debits
        /\ retQty' = [retQty EXCEPT ![on[w]] = seen[w].qty]
  /\ End(w)
  /\ UNCHANGED <<poVars, grnVars>>

-----------------------------------------------------------------------------
(* PurchaseService.updatePurchaseReturn: reads the return without a lock.   *)

\* Completing what is complete looks for its entry again.
CompleteRead(w, r) ==
  /\ retStatus[r] \in {"PENDING", "COMPLETED"}
  /\ Start(w, "complete", IF retStatus[r] = "PENDING" THEN "complete" ELSE "recognize", r)
  /\ UNCHANGED <<poVars, grnVars, retVars, locks, seen>>

\* Who finds the return no longer pending: completed by another, or cancelled.
ClaimLost(w) ==
  /\ retStatus[on[w]] # "PENDING"
  /\ IF retStatus[on[w]] = "COMPLETED"
     THEN Goto(w, "recognize") /\ UNCHANGED <<locks, seen>>
     ELSE End(w)

\* Mutant of CompleteClaim: the status is only compared here, and written at the end.
CompleteCompare(w) ==
  /\ pc[w] = "complete" /\ retLock[on[w]] = None
  /\ \/ retStatus[on[w]] = "PENDING" /\ Goto(w, "claimed") /\ UNCHANGED <<locks, seen>>
     \/ ClaimLost(w)
  /\ UNCHANGED <<poVars, grnVars, retVars>>

\* updateMany ... WHERE status = PENDING takes the row lock and re-checks.
CompleteClaim(w) ==
  /\ pc[w] = "complete" /\ retLock[on[w]] = None
  /\ \/ /\ retStatus[on[w]] = "PENDING"
        /\ retLock' = [retLock EXCEPT ![on[w]] = w]
        /\ Goto(w, "claimed") /\ UNCHANGED <<poLock, grnLock, seen>>
     \/ ClaimLost(w)
  /\ UNCHANGED <<poVars, grnVars, retVars>>

\* recognizeReturn looks for the entry of the return, under the claim or without one.
RecognizeRead(w) ==
  /\ pc[w] \in {"claimed", "recognize"}
  /\ seen' = [seen EXCEPT ![w].posted = debits[on[w]] > 0]
  /\ Goto(w, IF pc[w] = "claimed" THEN "debited" ELSE "insertEntry")
  /\ UNCHANGED <<poVars, grnVars, retVars, locks>>

\* The repeated completion inserts the entry it did not find, and nothing else.
RecognizeAgain(w) ==
  /\ pc[w] = "insertEntry"
  /\ Recognize(on[w], seen[w].posted)
  /\ End(w)
  /\ UNCHANGED <<poVars, grnVars, retStatus, retQty>>

\* Mutant of Fulfilled: returns that are only pending count.
FulfilledByPending(r, m) ==
  Accepted(Completed, m) + Returned({s \in Ret : retStatus[s] \in {"PENDING", "COMPLETED"}}, m)

\* What the order's status should become: accepted and returned against ordered.
Fulfilled(r, m) == Accepted(Completed, m) + Returned(CompletedReturns \cup {r}, m)

StatusAfterReturn(r) ==
  IF \A m \in Material : Fulfilled(r, m) >= ordered[m] THEN "RECEIVED"
  ELSE IF \E m \in Material : Fulfilled(r, m) > 0 THEN "PARTIALLY_RECEIVED"
  ELSE poStatus

CompleteReadPO(w) ==
  /\ pc[w] = "debited"
  /\ SeeStatus(w, StatusAfterReturn(on[w]))
  /\ Goto(w, "returnPO")
  /\ UNCHANGED <<poVars, grnVars, retVars, locks>>

CompleteCommit(w) ==
  /\ pc[w] = "returnPO" /\ poLock = None
  /\ retStatus' = [retStatus EXCEPT ![on[w]] = "COMPLETED"]
  /\ Recognize(on[w], seen[w].posted)
  /\ poStatus' = seen[w].status
  /\ End(w)
  /\ UNCHANGED <<ordered, reversals, grnVars, retQty>>

CancelReturnRead(w, r) ==
  /\ retStatus[r] = "PENDING"
  /\ Start(w, "cancelReturn", "cancelReturn", r)
  /\ UNCHANGED <<poVars, grnVars, retVars, locks, seen>>

CancelReturnWrite(w) ==
  /\ pc[w] = "cancelReturn" /\ retLock[on[w]] = None
  /\ retStatus' = [retStatus EXCEPT ![on[w]] = "CANCELLED"]
  /\ End(w)
  /\ UNCHANGED <<poVars, grnVars, retQty, debits>>

-----------------------------------------------------------------------------
(* ProcurementService.getPurchaseOrders: the order as the list shows it. *)

\* What the list takes for received of a line: accepted or sent back, up to its quantity.
FulfilledQty(m) == Lesser(ordered[m], Accepted(Completed, m) + Returned(CompletedReturns, m))

AllFulfilled == \A m \in Material : FulfilledQty(m) >= ordered[m]

effectiveStatus == IF AllFulfilled /\ poStatus \in ReceiptReady THEN "RECEIVED" ELSE poStatus

canReceive ==
  /\ effectiveStatus \in ReceiptReady /\ ~AllFulfilled
  /\ SumOf(ordered, Material) > SumOf([m \in Material |-> FulfilledQty(m)], Material)

-----------------------------------------------------------------------------
\* A request that has started takes its next step.
Step(w) ==
  \/ CreateInsert(w)
  \/ ApproveLockPO(w) \/ ApproveReject(w) \/ ApprovePost(w) \/ ApproveNothing(w)
  \/ CancelGRNWrite(w)
  \/ CancelPOWrite(w) \/ StatusWrite(w) \/ EditWrite(w) \/ PayWrite(w)
  \/ ReturnInsert(w)
  \/ CompleteClaim(w) \/ RecognizeRead(w) \/ RecognizeAgain(w) \/ CompleteReadPO(w) \/ CompleteCommit(w)
  \/ CancelReturnWrite(w)

\* A new request arrives.
Arrive(w) ==
  \/ \E g \in Grn : CreateLock(w, g) \/ ApproveLockGRN(w, g) \/ CancelGRNRead(w, g)
  \/ \E r \in Ret : ReturnLock(w, r) \/ CompleteRead(w, r) \/ CancelReturnRead(w, r)
  \/ \E s \in ManualStatus : StatusRead(w, s)
  \/ CancelPORead(w) \/ EditRead(w) \/ PayRead(w)

Next == \E w \in Worker : Arrive(w) \/ Step(w) \/ Timeout(w)

Spec == Init /\ [][Next]_vars

-----------------------------------------------------------------------------
(* Properties. *)

\* Types: every document status is one of its enum's, quantities and counts are naturals.
TypeOK ==
  /\ poStatus \in POStatus /\ ordered \in OrderQty /\ reversals \in Nat
  /\ grnStatus \in [Grn -> GrnStatus] /\ grnItems \in [Grn -> Seq(Item)]
  /\ lots \in [Grn -> Nat] /\ bills \in [Grn -> Nat]
  /\ retStatus \in [Ret -> RetStatus] /\ retQty \in [Ret -> ReturnQty]
  /\ debits \in [Ret -> Nat]
  /\ poLock \in Worker \cup {None}
  /\ grnLock \in [Grn -> Worker \cup {None}] /\ retLock \in [Ret -> Worker \cup {None}]
  /\ pc \in [Worker -> PC] /\ on \in [Worker -> Grn \cup Ret \cup {None}]
  /\ seen \in [Worker -> Snapshot]

\* The requests that hold each row lock are exactly those whose transaction is
\* between taking it and its end, whatever was timed out in between.
LockOwnership ==
  /\ \A w \in Worker : poLock = w <=> pc[w] \in {"create", "post", "newReturn"}
  /\ \A w \in Worker, g \in Grn :
       grnLock[g] = w <=> (pc[w] \in {"approve", "post"} /\ on[w] = g)
  /\ \A w \in Worker, r \in Ret :
       retLock[r] = w <=> (pc[w] \in {"claimed", "debited", "returnPO"} /\ on[w] = r)

\* The vendor is debited for a return once, and exactly when it is completed: the entry is
\* looked for in one statement and inserted in a later one, by overlapping completions, by
\* completions repeated after the first and beside cancellations, and only the claim's row
\* lock keeps two of them from both finding none.
DebitMatchesReturn ==
  \A r \in Ret :
    /\ debits[r] <= 1
    /\ retStatus[r] = "COMPLETED" => debits[r] = 1
    /\ retStatus[r] \in {"none", "PENDING"} => debits[r] = 0

\* Stock is posted only while the order is receipt-ready: approve re-reads the
\* status under the order's row lock, so no cancellation can slip in between
\* the check and the posting.
PostOnlyForOpenOrder == [][lots' # lots => poStatus \in ReceiptReady]_vars

\* Completed receipts together never accept more of a material than was
\* ordered, although receipts are created against the same open quantity and
\* approved concurrently.
CompletedWithinOrder == \A m \in Material : Accepted(Completed, m) <= ordered[m]

\* The rejected goods of one order never have two live returns for the same
\* quantities, although the receipt page retries its request.
OneReturnPerRejection ==
  \A r, s \in Ret :
    /\ r # s
    /\ {retStatus[r], retStatus[s]} \subseteq {"PENDING", "COMPLETED"}
    => retQty[r] # retQty[s]

\* An order that is received, or shown as received, is covered by accepted and returned
\* quantities; and one shown as receivable is one of which a receipt can be created.
ReceivedIsFulfilled ==
  /\ effectiveStatus = "RECEIVED" =>
       \A m \in Material : Accepted(Completed, m) + Returned(CompletedReturns, m) >= ordered[m]
  /\ canReceive <=> poStatus \in ReceiptReady /\ \E m \in Material : CumulativeReceived(m, None) < ordered[m]

(* What the code's comments and messages say and the model refutes. *)

\* "Cannot cancel an approved GRN": an approved receipt stays approved.
ApprovedReceiptNotCancelled ==
  [][\A g \in Grn : grnStatus[g] = "COMPLETED" => grnStatus'[g] # "CANCELLED"]_vars

\* "finalized orders cannot be reopened": a cancelled or closed order does not
\* become receipt-ready again.
FinalOrderNotReopened ==
  [][(poStatus \in {"CANCELLED", "CLOSED"}) => poStatus' \notin ReceiptReady]_vars

\* "PO is already cancelled": an order is reversed in the ledger at most once.
ReversedOnce == reversals <= 1

\* "Cannot edit a PO that already has a Goods Receipt": the lines do not change
\* once a receipt exists.
EditOnlyUnreceived ==
  [][ordered' # ordered => \A g \in Grn : grnStatus[g] = "none"]_vars

\* "Cannot update a completed return": a completed return stays completed.
CompletedReturnFinal ==
  [][\A r \in Ret : retStatus[r] = "COMPLETED" => retStatus'[r] = "COMPLETED"]_vars

\* "rejected goods cannot keep reappearing on the GRN ready-to-receive screen":
\* an order covered by receipts and returns is not receipt-ready at rest.
FulfilledNotReceivable ==
  /\ \A w \in Worker : pc[w] = "idle"
  /\ \A m \in Material : CumulativeReceived(m, None) >= ordered[m]
  => poStatus \notin ReceiptReady

=============================================================================
