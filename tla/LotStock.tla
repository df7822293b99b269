------------------------------ MODULE LotStock ------------------------------
(***************************************************************************)
(* The lots of one finished product at headquarters: sales that take the   *)
(* oldest lots or a chosen one, franchise orders that reserve lots on      *)
(* approval and consume them on dispatch, and recalls that block lots.     *)
(*                                                                         *)
(* Sales and recalls lock the lots they touch; orders and reservations are *)
(* read unlocked.  A request reads in one step and writes in a later one;  *)
(* what its transaction wrote shows to others when it commits.             *)
(***************************************************************************)
EXTENDS Sums, FiniteSets

CONSTANTS
  Worker,     \* requests that may be in flight together
  LotOrder,   \* the product's lots, oldest first; a lot is one product batch
  Spare,      \* lots that do not exist yet: bounds the opening lots created
  Order, None,
  Opening,    \* opening quantity of each lot
  Qty,        \* quantity of each franchise order
  Sold,       \* quantities a sale may ask for
  Blended,    \* lots packed, in part, from the bulk of another lot
  Ops         \* kinds of request issued

Lot == Range(LotOrder)

ASSUME LotAssumption ==
  /\ LotOrder \in Seq(Lot) /\ IsInjective(LotOrder) /\ IsFiniteSet(Order)
  /\ None \notin Worker \cup Order \cup Lot /\ Spare \subseteq Lot
  /\ Opening \in [Lot -> Nat] /\ Qty \in [Order -> Nat \ {0}] /\ Sold \subseteq Nat \ {0}
  /\ Blended \in [Lot -> SUBSET (Lot \ Spare)] /\ \A l \in Lot : l \notin Blended[l]

LotStatus   == {"none", "APPROVED", "BLOCKED"}
OrderStatus == {"PENDING", "APPROVED", "IN_PRODUCTION", "DISPATCHED", "DELIVERED", "CANCELLED"}
ReservationStatus == {"none", "ACTIVE", "CONSUMED", "RELEASED"}
RecallStatus == {"none", "IN_PROGRESS", "CANCELLED"}

VARIABLES
  lotQty, lotStatus,              \* lots: current quantity, status
  stock, untracked,               \* the item's stock; what left it from no lot
  status, delivered,              \* orders: status, units received at the franchise
  reservation,                    \* status of each order's reservation
  reserved, consumed, released,   \* its allocations, per lot
  recall, reported, disposed,     \* recalls: status, quantity reported blocked; scrapped
  itemLock, lotLock, headerLock, recallLock, \* row locks: holder or None
  pc, on, seen                    \* per request: control, order or lot, values

stockVars  == <<lotQty, lotStatus, stock, untracked>>
orderVars  == <<status, delivered>>
allocVars  == <<reservation, reserved, consumed, released>>
recallVars == <<recall, reported, disposed>>
data       == <<stockVars, orderVars, allocVars, recallVars>>
locks      == <<itemLock, lotLock, headerLock, recallLock>>
vars       == <<data, locks, pc, on, seen>>

PC == {"idle", "saleItem", "saleLots", "saleWrite", "lotSale", "lotSaleWrite", "header", "snapshot",
       "reserve", "reserveWrite", "dispatch", "consume", "consumeWrite", "cancel", "deliver",
       "setStatus", "recall", "recallBlended", "recallWrite", "release", "dispose"}

Zero == [l \in Lot |-> 0]

\* What a request has read or decided: a quantity, a lot or status it was sent,
\* quantities per lot read and taken, lots found eligible, and whether the
\* reservation it consumes is its own.
NothingSeen == [qty |-> 0, lot |-> None, to |-> "PENDING", read |-> Zero, took |-> Zero,
                open |-> {}, fresh |-> FALSE]
Seen == [qty : Nat, lot : Lot \cup {None}, to : OrderStatus, read : [Lot -> Int],
         took : [Lot -> Nat], open : SUBSET Lot, fresh : BOOLEAN]

Init ==
  /\ lotQty = [l \in Lot |-> IF l \in Spare THEN 0 ELSE Opening[l]]
  /\ lotStatus = [l \in Lot |-> IF l \in Spare THEN "none" ELSE "APPROVED"]
  /\ stock = SumOf(Opening, Lot \ Spare) /\ untracked = 0
  /\ status = [o \in Order |-> "PENDING"] /\ delivered = [o \in Order |-> 0]
  /\ reservation = [o \in Order |-> "none"]
  /\ reserved = [o \in Order |-> Zero] /\ consumed = [o \in Order |-> Zero]
  /\ released = [o \in Order |-> Zero]
  /\ recall = [l \in Lot |-> "none"] /\ reported = Zero /\ disposed = Zero
  /\ itemLock = None /\ lotLock = [l \in Lot |-> None]
  /\ headerLock = [o \in Order |-> None] /\ recallLock = [l \in Lot |-> None]
  /\ pc = [w \in Worker |-> "idle"] /\ on = [w \in Worker |-> None]
  /\ seen = [w \in Worker |-> NothingSeen]

-----------------------------------------------------------------------------
(* Quantities. *)

Positive(n) == IF n > 0 THEN n ELSE 0

Plus(f, g)  == [l \in Lot |-> f[l] + g[l]]
Minus(f, g) == [l \in Lot |-> f[l] - g[l]]

InStatus(s) == {l \in Lot : lotStatus[l] = s}

\* q units from the oldest lots first, as far as what each has available goes.
Fifo(avail, q) ==
  LET has == [l \in Lot |-> Positive(avail[l])] IN
  [took |-> InTurn(LotOrder, has, q), left |-> Positive(q - SumOf(has, Lot))]

Only(f, S) == [l \in Lot |-> IF l \in S THEN f[l] ELSE 0]

\* What an allocation still holds.
Active(o) == [l \in Lot |-> reserved[o][l] - consumed[o][l] - released[o][l]]

\* reserveStock sums every allocation of a lot.
ReservedSum == [l \in Lot |-> SumOf([o \in Order |-> Active(o)[l]], Order)]

\* reservedQtyByLot: the allocations of active reservations only.
ReservedQty(l) ==
  Positive(SumOf([o \in Order |-> Active(o)[l]], {o \in Order : reservation[o] = "ACTIVE"}))

Recalled(l) == recall[l] = "IN_PROGRESS"

\* A recall reaches the batch's own lot and those packed from its bulk.
Scope(l) == {l} \cup Blended[l]

-----------------------------------------------------------------------------
(* Requests and row locks. *)

Start(w, op, p, d) ==
  /\ op \in Ops /\ pc[w] = "idle"
  /\ pc' = [pc EXCEPT ![w] = p] /\ on' = [on EXCEPT ![w] = d]

Goto(w, p) == pc' = [pc EXCEPT ![w] = p] /\ UNCHANGED on

See(w, r) == seen' = [seen EXCEPT ![w] = r]

Freed(lock, w) == [x \in DOMAIN lock |-> IF lock[x] = w THEN None ELSE lock[x]]

End(w) ==
  /\ itemLock' = (IF itemLock = w THEN None ELSE itemLock)
  /\ lotLock' = Freed(lotLock, w) /\ headerLock' = Freed(headerLock, w)
  /\ recallLock' = Freed(recallLock, w)
  /\ pc' = [pc EXCEPT ![w] = "idle"] /\ on' = [on EXCEPT ![w] = None]
  /\ See(w, NothingSeen)

\* An exception or a timeout rolls the transaction back.
Abort(w) == End(w) /\ UNCHANGED data

Timeout(w) == pc[w] # "idle" /\ Abort(w)

FreeFor(w, S) == \A l \in S : lotLock[l] \in {None, w}

\* Mutant of LockLots: the rows are read without FOR UPDATE.
LockLotsNot(w, S) == UNCHANGED lotLock

LockLots(w, S) ==
  /\ \A l \in S : lotLock[l] = None
  /\ lotLock' = [l \in Lot |-> IF l \in S THEN w ELSE lotLock[l]]

-----------------------------------------------------------------------------
(* Sales: POSService.checkoutLegacy through recordMovement. *)

\* The item's stock is checked unlocked; recordMovement then locks the item.
SaleCheck(w, q) ==
  /\ stock >= q
  /\ Start(w, "sale", "saleItem", None)
  /\ See(w, [NothingSeen EXCEPT !.qty = q])
  /\ UNCHANGED <<data, locks>>

SaleItem(w) ==
  /\ pc[w] = "saleItem" /\ itemLock = None /\ itemLock' = w
  /\ Goto(w, "saleLots")
  /\ UNCHANGED <<data, lotLock, headerLock, recallLock, seen>>

\* depleteBatchesFIFO: approved lots with stock, locked, oldest first.
Sellable == {l \in InStatus("APPROVED") : lotQty[l] > 0}

\* A shortfall is sold without a lot, unless blocked stock explains it.
SaleLots(w) ==
  LET f == Fifo(Only(lotQty, Sellable), seen[w].qty)
      refused == f.left > 0 /\ SumOf(lotQty, InStatus("BLOCKED")) > 0 IN
  /\ pc[w] = "saleLots"
  /\ IF refused
     THEN FreeFor(w, Sellable) /\ Abort(w)
     ELSE /\ LockLots(w, Sellable)
          /\ See(w, [seen[w] EXCEPT !.read = lotQty, !.took = f.took])
          /\ Goto(w, "saleWrite")
          /\ UNCHANGED <<data, itemLock, headerLock, recallLock>>

\* A lot is set to the quantity read less what was taken.
Deplete(r) == [l \in Lot |-> IF r.took[l] > 0 THEN r.read[l] - r.took[l] ELSE lotQty[l]]

SaleWrite(w) ==
  LET r == seen[w] IN
  /\ pc[w] = "saleWrite" /\ FreeFor(w, {l \in Lot : r.took[l] > 0})
  /\ lotQty' = Deplete(r)
  /\ stock' = stock - r.qty /\ untracked' = untracked + r.qty - SumOf(r.took, Lot)
  /\ End(w)
  /\ UNCHANGED <<lotStatus, orderVars, allocVars, recallVars>>

\* A line with a chosen lot: depleteLot locks it and nets off reservations.
LotSaleCheck(w, l, q) ==
  /\ stock >= q /\ lotStatus[l] # "none"
  /\ Start(w, "lotSale", "lotSale", None)
  /\ See(w, [NothingSeen EXCEPT !.qty = q, !.lot = l])
  /\ UNCHANGED <<data, locks>>

\* Mutant of LotAvailable: reservations are not netted off.
LotOnHand(l) == lotQty[l]

LotAvailable(l) == lotQty[l] - ReservedQty(l)

LotSaleLock(w) ==
  LET l == seen[w].lot q == seen[w].qty IN
  /\ pc[w] = "lotSale"
  /\ IF lotStatus[l] = "APPROVED" /\ LotAvailable(l) >= q
     THEN /\ LockLots(w, {l})
          /\ See(w, [seen[w] EXCEPT !.read = lotQty, !.took = [Zero EXCEPT ![l] = q]])
          /\ Goto(w, "lotSaleWrite")
          /\ UNCHANGED <<data, itemLock, headerLock, recallLock>>
     ELSE FreeFor(w, {l}) /\ Abort(w)

LotSaleWrite(w) ==
  /\ pc[w] = "lotSaleWrite" /\ itemLock = None /\ FreeFor(w, {seen[w].lot})
  /\ lotQty' = Deplete(seen[w]) /\ stock' = stock - seen[w].qty
  /\ End(w)
  /\ UNCHANGED <<lotStatus, untracked, orderVars, allocVars, recallVars>>

-----------------------------------------------------------------------------
(* FranchiseOrderService.updateStatus to APPROVED, and reserveStock. *)

ApproveRead(w, o) ==
  /\ status[o] = "PENDING"
  /\ Start(w, "approve", "header", o)
  /\ See(w, [NothingSeen EXCEPT !.to = "APPROVED"])
  /\ UNCHANGED <<data, locks>>

\* Mutant of HeaderFree: the order's reservation is not unique.
HeaderFreeAlways(o) == TRUE

\* InventoryReservation.franchiseOrderId is unique.
HeaderFree(o) == reservation[o] = "none"

Header(w) ==
  LET o == on[w] IN
  /\ pc[w] = "header" /\ headerLock[o] = None
  /\ IF HeaderFree(o)
     THEN /\ headerLock' = [headerLock EXCEPT ![o] = w]
          /\ Goto(w, "snapshot")
          /\ UNCHANGED <<data, itemLock, lotLock, recallLock, seen>>
     ELSE Abort(w)

\* The statement's snapshot fixes the reserved sums and the recalls; after
\* waiting for the row locks only the lots themselves are read again.
Snapshot(w) ==
  /\ pc[w] = "snapshot" /\ Goto(w, "reserve")
  /\ See(w, [seen[w] EXCEPT !.read = ReservedSum,
                            !.open = {l \in InStatus("APPROVED") : ~Recalled(l)}])
  /\ UNCHANGED <<data, locks>>

\* Stock that no approved lot accounts for becomes an opening lot.
Unbatched == Positive(stock - SumOf(lotQty, InStatus("APPROVED")))

\* What is taken from the lots found, then from an opening lot of the request's
\* own; short of that the request fails.
Reserve(w) ==
  LET r == seen[w]
      lots == {l \in r.open : lotStatus[l] = "APPROVED"}
      f == Fifo(Only(Minus(lotQty, r.read), lots), Qty[on[w]]) IN
  /\ pc[w] = "reserve"
  /\ IF f.left > Unbatched
     THEN FreeFor(w, lots) /\ Abort(w)
     ELSE /\ LockLots(w, lots)
          /\ IF f.left = 0
             THEN See(w, [r EXCEPT !.took = f.took])
             ELSE \E l \in InStatus("none") :
                    /\ \A v \in Worker : seen[v].lot # l
                    /\ See(w, [r EXCEPT !.took = [f.took EXCEPT ![l] = f.left],
                                        !.lot = l, !.qty = Unbatched])
          /\ Goto(w, IF r.to = "APPROVED" THEN "reserveWrite" ELSE "consume")
          /\ UNCHANGED <<data, itemLock, headerLock, recallLock>>

\* The lots with the opening lot that w creates, if any.
Created(w) ==
  IF seen[w].lot = None THEN lotQty ELSE [lotQty EXCEPT ![seen[w].lot] = seen[w].qty]

WithCreated(w) ==
  lotStatus' = IF seen[w].lot = None THEN lotStatus
               ELSE [lotStatus EXCEPT ![seen[w].lot] = "APPROVED"]

ReserveWrite(w) ==
  LET o == on[w] IN
  /\ pc[w] = "reserveWrite"
  /\ reservation' = [reservation EXCEPT ![o] = "ACTIVE"]
  /\ reserved' = [reserved EXCEPT ![o] = Plus(@, seen[w].took)]
  /\ lotQty' = Created(w) /\ WithCreated(w)
  /\ status' = [status EXCEPT ![o] = "APPROVED"]
  /\ End(w)
  /\ UNCHANGED <<stock, untracked, delivered, consumed, released, recallVars>>

-----------------------------------------------------------------------------
(* updateStatus to DISPATCHED, and consumeReservation. *)

DispatchRead(w, o) ==
  /\ status[o] \notin {"DISPATCHED", "DELIVERED", "CANCELLED"}
  /\ Start(w, "dispatch", "dispatch", o)
  /\ See(w, [NothingSeen EXCEPT !.to = "DISPATCHED"])
  /\ UNCHANGED <<data, locks>>

\* Without an active reservation the order is reserved first.
DispatchBegin(w) ==
  LET o == on[w] held == reservation[o] = "ACTIVE" IN
  /\ pc[w] = "dispatch"
  /\ IF status[o] = "DISPATCHED"
     THEN Abort(w)
     ELSE /\ Goto(w, IF held THEN "consume" ELSE "header")
          /\ See(w, [seen[w] EXCEPT !.fresh = ~held])
          /\ UNCHANGED <<data, locks>>

\* The allocations are read without a lock, and no batch may be recalled.
ConsumeRead(w) ==
  LET o == on[w] r == seen[w]
      took == IF r.fresh THEN r.took ELSE [l \in Lot |-> Positive(Active(o)[l])] IN
  /\ pc[w] = "consume"
  /\ IF (~r.fresh /\ reservation[o] # "ACTIVE")
        \/ \E l \in Lot \ Spare : took[l] > 0 /\ Recalled(l)
     THEN Abort(w)
     ELSE /\ See(w, [r EXCEPT !.took = took]) /\ Goto(w, "consumeWrite")
          /\ UNCHANGED <<data, locks>>

ConsumeWrite(w) ==
  LET o == on[w] r == seen[w] IN
  /\ pc[w] = "consumeWrite" /\ itemLock = None /\ FreeFor(w, {l \in Lot : r.took[l] > 0})
  /\ reserved' = IF r.fresh THEN [reserved EXCEPT ![o] = Plus(@, r.took)] ELSE reserved
  /\ consumed' = [consumed EXCEPT ![o] = Plus(@, r.took)]
  /\ reservation' = [reservation EXCEPT ![o] = "CONSUMED"]
  /\ lotQty' = Minus(Created(w), r.took) /\ WithCreated(w)
  /\ stock' = stock - Qty[o] /\ untracked' = untracked + Qty[o] - SumOf(r.took, Lot)
  /\ status' = [status EXCEPT ![o] = "DISPATCHED"]
  /\ End(w)
  /\ UNCHANGED <<delivered, released, recallVars>>

-----------------------------------------------------------------------------
(* The other transitions of updateStatus. *)

\* CANCELLED, from any status: releaseReservation reads the allocations first.
CancelRead(w, o) ==
  LET held == reservation[o] = "ACTIVE" IN
  /\ Start(w, "cancel", "cancel", o)
  /\ See(w, [NothingSeen EXCEPT !.fresh = held,
               !.took = IF held THEN [l \in Lot |-> Positive(Active(o)[l])] ELSE Zero])
  /\ UNCHANGED <<data, locks>>

CancelWrite(w) ==
  LET o == on[w] IN
  /\ pc[w] = "cancel"
  /\ released' = [released EXCEPT ![o] = Plus(@, seen[w].took)]
  /\ reservation' = IF seen[w].fresh THEN [reservation EXCEPT ![o] = "RELEASED"] ELSE reservation
  /\ status' = [status EXCEPT ![o] = "CANCELLED"]
  /\ End(w)
  /\ UNCHANGED <<stockVars, delivered, reserved, consumed, recallVars>>

\* Mutant of Receivable: an order in transit or still being prepared.
ReceivableEarly(o) == status[o] \in {"APPROVED", "DISPATCHED"}

Receivable(o) == status[o] = "DISPATCHED"

DeliverRead(w, o) ==
  /\ Receivable(o)
  /\ Start(w, "deliver", "deliver", o)
  /\ UNCHANGED <<data, locks, seen>>

DeliverWrite(w) ==
  /\ pc[w] = "deliver"
  /\ delivered' = [delivered EXCEPT ![on[w]] = @ + Qty[on[w]]]
  /\ status' = [status EXCEPT ![on[w]] = "DELIVERED"]
  /\ End(w)
  /\ UNCHANGED <<stockVars, allocVars, recallVars>>

\* PENDING, IN_PRODUCTION, and APPROVED for an order that is not pending.
StatusRead(w, o, s) ==
  /\ s = "APPROVED" => status[o] # "PENDING"
  /\ Start(w, "setStatus", "setStatus", o)
  /\ See(w, [NothingSeen EXCEPT !.to = s])
  /\ UNCHANGED <<data, locks>>

StatusWrite(w) ==
  /\ pc[w] = "setStatus"
  /\ status' = [status EXCEPT ![on[w]] = seen[w].to]
  /\ End(w)
  /\ UNCHANGED <<stockVars, delivered, allocVars, recallVars>>

-----------------------------------------------------------------------------
(* RecallService. *)

\* initiateRecall creates or reopens the batch's recall, holding its row.
RecallRead(w, l) ==
  /\ lotStatus[l] # "none" /\ l \notin Spare
  /\ recall[l] # "IN_PROGRESS" /\ recallLock[l] = None
  /\ Start(w, "recall", "recall", l)
  /\ recallLock' = [recallLock EXCEPT ![l] = w]
  /\ UNCHANGED <<data, itemLock, lotLock, headerLock, seen>>

\* Then it locks the batch's own lot, whatever its status, and reads it.
RecallOwn(w) ==
  LET l == on[w] IN
  /\ pc[w] = "recall" /\ LockLots(w, {l})
  /\ See(w, [NothingSeen EXCEPT !.read = Only(lotQty, {l}), !.open = {l} \cap InStatus("APPROVED")])
  /\ Goto(w, "recallBlended")
  /\ UNCHANGED <<data, itemLock, headerLock, recallLock>>

\* Mutant of RecallBlended: lots under other batches' labels are overlooked.
RecallOwnOnly(w) ==
  /\ pc[w] = "recallBlended" /\ Goto(w, "recallWrite")
  /\ UNCHANGED <<data, locks, seen>>

\* Then the approved lots packed from its bulk.
RecallBlended(w) ==
  LET lots == Blended[on[w]] \cap InStatus("APPROVED") r == seen[w] IN
  /\ pc[w] = "recallBlended" /\ LockLots(w, lots)
  /\ See(w, [r EXCEPT !.read = Plus(@, Only(lotQty, lots)), !.open = @ \cup lots])
  /\ Goto(w, "recallWrite")
  /\ UNCHANGED <<data, itemLock, headerLock, recallLock>>

Block(S) == [m \in Lot |-> IF m \in S THEN "BLOCKED" ELSE lotStatus[m]]

RecallWrite(w) ==
  LET l == on[w] r == seen[w] IN
  /\ pc[w] = "recallWrite" /\ FreeFor(w, r.open)
  /\ lotStatus' = Block(r.open)
  /\ recall' = [recall EXCEPT ![l] = "IN_PROGRESS"]
  /\ reported' = [reported EXCEPT ![l] = SumOf(r.read, r.open)]
  /\ End(w)
  /\ UNCHANGED <<lotQty, stock, untracked, orderVars, allocVars, disposed>>

\* cancelRecall holds the recall's row, and spares blended lots that are
\* themselves recalled.
ReleaseRead(w, l) ==
  /\ Recalled(l) /\ recallLock[l] = None
  /\ Start(w, "release", "release", l)
  /\ recallLock' = [recallLock EXCEPT ![l] = w]
  /\ See(w, [NothingSeen EXCEPT !.open = {l} \cup {m \in Blended[l] : ~Recalled(m)}])
  /\ UNCHANGED <<data, itemLock, lotLock, headerLock>>

ReleaseWrite(w) ==
  LET l == on[w] freed == seen[w].open \cap InStatus("BLOCKED") IN
  /\ pc[w] = "release" /\ FreeFor(w, freed)
  /\ lotStatus' = [m \in Lot |-> IF m \in freed THEN "APPROVED" ELSE lotStatus[m]]
  /\ recall' = [recall EXCEPT ![l] = "CANCELLED"]
  /\ End(w)
  /\ UNCHANGED <<lotQty, stock, untracked, orderVars, allocVars, reported, disposed>>

\* disposeStock, with the recall and then the lot locked.
DisposeLock(w, l, m, q) ==
  /\ Recalled(l) /\ recallLock[l] = None /\ m \in Scope(l)
  /\ lotStatus[m] = "BLOCKED" /\ q <= lotQty[m]
  /\ Start(w, "dispose", "dispose", m)
  /\ recallLock' = [recallLock EXCEPT ![l] = w]
  /\ LockLots(w, {m})
  /\ See(w, [NothingSeen EXCEPT !.qty = q])
  /\ UNCHANGED <<data, itemLock, headerLock>>

DisposeWrite(w) ==
  LET m == on[w] q == seen[w].qty IN
  /\ pc[w] = "dispose" /\ itemLock = None /\ FreeFor(w, {m})
  /\ lotQty' = [lotQty EXCEPT ![m] = @ - q] /\ stock' = stock - q
  /\ disposed' = [disposed EXCEPT ![m] = @ + q]
  /\ End(w)
  /\ UNCHANGED <<lotStatus, untracked, orderVars, allocVars, recall, reported>>

-----------------------------------------------------------------------------
Step(w) ==
  \/ SaleItem(w) \/ SaleLots(w) \/ SaleWrite(w) \/ LotSaleLock(w) \/ LotSaleWrite(w)
  \/ Header(w) \/ Snapshot(w) \/ Reserve(w) \/ ReserveWrite(w)
  \/ DispatchBegin(w) \/ ConsumeRead(w) \/ ConsumeWrite(w)
  \/ CancelWrite(w) \/ DeliverWrite(w) \/ StatusWrite(w)
  \/ RecallOwn(w) \/ RecallBlended(w) \/ RecallWrite(w) \/ ReleaseWrite(w) \/ DisposeWrite(w)

Arrive(w) ==
  \/ \E q \in Sold : SaleCheck(w, q)
  \/ \E l \in Lot, q \in Sold : LotSaleCheck(w, l, q)
  \/ \E o \in Order : ApproveRead(w, o) \/ DispatchRead(w, o) \/ CancelRead(w, o) \/ DeliverRead(w, o)
  \/ \E o \in Order, s \in {"PENDING", "APPROVED", "IN_PRODUCTION"} : StatusRead(w, o, s)
  \/ \E l \in Lot : RecallRead(w, l) \/ ReleaseRead(w, l)
  \/ \E l, m \in Lot, q \in Sold : DisposeLock(w, l, m, q)

Next == \E w \in Worker : Arrive(w) \/ Step(w) \/ Timeout(w)

Spec == Init /\ [][Next]_vars

-----------------------------------------------------------------------------
(* Properties. *)

\* Types: quantities are integers, statuses those of their enums.
TypeOK ==
  /\ lotQty \in [Lot -> Int] /\ lotStatus \in [Lot -> LotStatus]
  /\ stock \in Int /\ untracked \in Nat
  /\ status \in [Order -> OrderStatus] /\ delivered \in [Order -> Nat]
  /\ reservation \in [Order -> ReservationStatus]
  /\ reserved \in [Order -> [Lot -> Nat]] /\ consumed \in [Order -> [Lot -> Nat]]
  /\ released \in [Order -> [Lot -> Nat]]
  /\ recall \in [Lot -> RecallStatus] /\ reported \in [Lot -> Int] /\ disposed \in [Lot -> Nat]
  /\ itemLock \in Worker \cup {None} /\ lotLock \in [Lot -> Worker \cup {None}]
  /\ headerLock \in [Order -> Worker \cup {None}] /\ recallLock \in [Lot -> Worker \cup {None}]
  /\ pc \in [Worker -> PC] /\ on \in [Worker -> Order \cup Lot \cup {None}]
  /\ seen \in [Worker -> Seen]

\* The item's stock is what its lots hold, less what was sold from no lot: no
\* concurrent sale, dispatch or disposal overwrites another's quantity.
StockMatchesLots == stock + untracked = SumOf(lotQty, Lot)

\* A blocked lot is never sold: it loses only what is disposed of, also when a
\* sale chose the lot before the recall blocked it.
QuarantineHeld ==
  [][\A l \in Lot : lotStatus[l] = "BLOCKED" =>
       lotQty'[l] + disposed'[l] >= lotQty[l] + disposed[l]]_vars

\* While a recall is in progress no lot it reaches is for sale, unless another
\* recall that reaches the lot was cancelled: cancelRecall puts back on sale what
\* it alone did not block.
RecalledNotSellable ==
  \A l \in Lot : Recalled(l) => \A m \in Scope(l) :
    lotStatus[m] = "APPROVED" => \E k \in Lot \ {l} : m \in Scope(k) /\ recall[k] = "CANCELLED"

\* What a recall reports as quarantined is what the lots it blocks then hold,
\* although sales were depleting them while it waited.
ReportedIsBlocked ==
  [][\A l \in Lot : (~Recalled(l) /\ recall'[l] = "IN_PROGRESS") =>
       reported'[l] = SumOf(lotQty', {m \in Lot : lotStatus'[m] = "BLOCKED" /\ lotStatus[m] # "BLOCKED"})]_vars

\* Quarantine holds what it caught, and a recall reports what it caught.
QuarantineSound == QuarantineHeld /\ ReportedIsBlocked

\* An order is reserved whole and once, whatever is approved, dispatched,
\* cancelled or moved back concurrently.
ReservedOnce ==
  \A o \in Order : SumOf(reserved[o], Lot) = IF reservation[o] = "none" THEN 0 ELSE Qty[o]

\* What a franchise has received had left headquarters' lots, although an order
\* may be set back or cancelled between its dispatch and its receipt.
DeliveredWasDispatched ==
  \A o \in Order : delivered[o] > 0 => SumOf(consumed[o], Lot) >= Qty[o]

\* A sale from a chosen lot leaves what franchise orders hold in it, whatever is
\* approved, dispatched or sold while the sale waits for the lot.
LotSaleSparesReserved ==
  [][\A w \in Worker :
       (pc[w] = "lotSaleWrite" /\ pc'[w] = "idle" /\ lotQty' # lotQty)
         => lotQty'[seen[w].lot] >= ReservedQty(seen[w].lot)]_vars

(* What the code's comments and messages say and the model refutes. *)

\* "so concurrent reservations on the same batch serialize": no lot is
\* promised beyond what it holds.
ReservedWithinLot ==
  \A l \in Lot : ReservedSum[l] <= lotQty[l]

\* "it was already locked during reserveStock": a lot never goes negative.
LotsNotNegative == \A l \in Lot : lotQty[l] >= 0

\* "Out of stock": no sale takes the item below zero.
StockNotNegative == stock >= 0

\* "Reserved batch has been recalled": a recalled batch is not dispatched.
RecalledNotDispatched ==
  [][\A l \in Lot, o \in Order : Recalled(l) => consumed'[o][l] = consumed[o][l]]_vars

\* "quarantine": a lot blocked by the recall of another is not dispatched.
BlockedNotDispatched ==
  [][\A l \in Lot, o \in Order : lotStatus[l] = "BLOCKED" => consumed'[o][l] = consumed[o][l]]_vars

\* "Idempotency check inside transaction": an order leaves the lots once.
DispatchedOnce == \A o \in Order : SumOf(consumed[o], Lot) <= Qty[o]

\* "This receipt may have already been processed": an order arrives once.
DeliveredOnce == \A o \in Order : delivered[o] <= Qty[o]

\* "Cannot dispatch a cancelled order."
CancelledNotDispatched ==
  [][\A o \in Order : status[o] = "CANCELLED" => status'[o] # "DISPATCHED"]_vars

=============================================================================
