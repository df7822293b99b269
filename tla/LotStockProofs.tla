---------------------------- MODULE LotStockProofs ---------------------------
(***************************************************************************)
(* Proofs about LotStock, for any lots, orders and requests in flight.     *)
(*                                                                         *)
(* A request decides in one step and writes in a later one.  The argument  *)
(* says, for each place a request can be at, what it may still rely on:    *)
(* the lots it locked are as it read them, the reservation it holds the    *)
(* header of is still to be made, the opening lot it is about to create is *)
(* nobody else's.  Every step of another request respects it, because what *)
(* a step writes of a lot, a reservation or a recall it waits for.         *)
(***************************************************************************)
EXTENDS LotStock, SumLemmas

-----------------------------------------------------------------------------
(* Types. *)

LotsOK   == lotQty \in [Lot -> Int] /\ lotStatus \in [Lot -> LotStatus] /\ stock \in Int /\ untracked \in Nat
OrdersOK == status \in [Order -> OrderStatus] /\ delivered \in [Order -> Nat]
AllocOK  ==
  /\ reservation \in [Order -> ReservationStatus]
  /\ reserved \in [Order -> [Lot -> Nat]] /\ consumed \in [Order -> [Lot -> Nat]]
  /\ released \in [Order -> [Lot -> Nat]]
RecallsOK == recall \in [Lot -> RecallStatus] /\ reported \in [Lot -> Int] /\ disposed \in [Lot -> Nat]
LocksOK ==
  /\ itemLock \in Worker \cup {None} /\ lotLock \in [Lot -> Worker \cup {None}]
  /\ headerLock \in [Order -> Worker \cup {None}] /\ recallLock \in [Lot -> Worker \cup {None}]
RequestsOK ==
  pc \in [Worker -> PC] /\ on \in [Worker -> Order \cup Lot \cup {None}] /\ seen \in [Worker -> Seen]

DataOK == LotsOK /\ OrdersOK /\ AllocOK /\ RecallsOK

-----------------------------------------------------------------------------
(* What a request may rely on. *)

\* A lot that w holds and has read, and that is for sale.
Mine(w, l) == lotLock[l] = w /\ lotStatus[l] = "APPROVED" /\ lotQty[l] = seen[w].read[l]

Whole(w) == SumOf(seen[w].took, Lot) = Qty[on[w]]

\* w alone may make the reservation of its order.
Heading(w) == headerLock[on[w]] = w /\ reservation[on[w]] = "none"

Creating(w) == pc[w] \in {"reserveWrite", "consume", "consumeWrite"} /\ seen[w].lot # None

OnSale(w) ==
  pc[w] = "saleWrite" =>
    SumOf(seen[w].took, Lot) <= seen[w].qty /\ \A l \in Lot : seen[w].took[l] > 0 => Mine(w, l)

OnLotSale(w) ==
  /\ pc[w] \in {"lotSale", "lotSaleWrite"} =>
       seen[w].lot \in Lot /\ lotStatus[seen[w].lot] # "none" /\ seen[w].qty > 0
  /\ pc[w] = "lotSaleWrite" =>
       /\ Mine(w, seen[w].lot) /\ seen[w].took = [Zero EXCEPT ![seen[w].lot] = seen[w].qty]
       /\ LotAvailable(seen[w].lot) >= seen[w].qty

OnReservation(w) ==
  /\ pc[w] \in {"header", "snapshot", "reserve"} =>
       /\ on[w] \in Order
       /\ \/ seen[w].to = "APPROVED" /\ "approve" \in Ops
          \/ seen[w].to = "DISPATCHED" /\ "dispatch" \in Ops /\ seen[w].fresh
  /\ pc[w] \in {"snapshot", "reserve", "reserveWrite"} => Heading(w)
  /\ pc[w] = "reserveWrite" =>
       /\ on[w] \in Order /\ "approve" \in Ops /\ Whole(w)
       /\ \A l \in Lot : seen[w].took[l] > 0 => lotLock[l] = w \/ l = seen[w].lot

OnDispatch(w) ==
  /\ pc[w] \in {"dispatch", "consume", "consumeWrite"} =>
       on[w] \in Order /\ "dispatch" \in Ops /\ seen[w].to = "DISPATCHED"
  /\ pc[w] \in {"consume", "consumeWrite"} /\ seen[w].fresh => Heading(w) /\ Whole(w)
  /\ pc[w] = "consumeWrite" => Whole(w) /\ (~seen[w].fresh => reservation[on[w]] # "none")

OnOrder(w) ==
  /\ pc[w] = "cancel" =>
       on[w] \in Order /\ (IF seen[w].fresh THEN reservation[on[w]] # "none" ELSE seen[w].took = Zero)
  /\ pc[w] = "deliver" => on[w] \in Order /\ SumOf(consumed[on[w]], Lot) >= Qty[on[w]]
  /\ pc[w] = "setStatus" => on[w] \in Order /\ seen[w].to # "DISPATCHED"

OnRecall(w) ==
  /\ pc[w] \in {"recall", "recallBlended", "recallWrite"} =>
       /\ on[w] \in Lot \ Spare /\ lotStatus[on[w]] # "none" /\ recallLock[on[w]] = w
       /\ ~Recalled(on[w])
  /\ pc[w] \in {"recallBlended", "recallWrite"} =>
       lotLock[on[w]] = w /\ \A m \in seen[w].open : Mine(w, m)
  /\ pc[w] = "recallBlended" => seen[w].open \subseteq {on[w]} /\ \A m \in Lot \ {on[w]} : seen[w].read[m] = 0
  /\ pc[w] = "release" =>
       on[w] \in Lot \ Spare /\ recallLock[on[w]] = w /\ Recalled(on[w]) /\ seen[w].open \subseteq Scope(on[w])
  /\ pc[w] = "dispose" => on[w] \in Lot /\ lotLock[on[w]] = w /\ lotStatus[on[w]] = "BLOCKED"

OnNothing(w) ==
  /\ pc[w] \in {"idle", "recall", "deliver"} => seen[w] = NothingSeen
  /\ seen[w].lot # None => pc[w] \in {"lotSale", "lotSaleWrite", "reserveWrite", "consume", "consumeWrite"}
  /\ Creating(w) => lotStatus[seen[w].lot] = "none"

Relied(w) ==
  OnSale(w) /\ OnLotSale(w) /\ OnReservation(w) /\ OnDispatch(w) /\ OnOrder(w) /\ OnRecall(w) /\ OnNothing(w)

-----------------------------------------------------------------------------
(* What holds of the lots, the reservations and the recalls. *)

\* A lot that is still to be created belongs to no batch, and to one request.
LotsToCome ==
  /\ \A l \in Lot : lotStatus[l] = "none" => l \in Spare
  /\ \A v, w \in Worker : v # w /\ Creating(w) => seen[v].lot # seen[w].lot

\* Until it is consumed or released a reservation has lost nothing.
Untouched ==
  \A o \in Order : reservation[o] \in {"none", "ACTIVE"} => consumed[o] = Zero /\ released[o] = Zero

\* An order that left, or arrived, has left the lots whole.
Left ==
  \A o \in Order : status[o] = "DISPATCHED" \/ delivered[o] > 0 => SumOf(consumed[o], Lot) >= Qty[o]

\* A recall in the making has gone past m without finding it for sale.
Passed(w, m) ==
  \/ pc[w] = "recallBlended" /\ m = on[w] /\ m \notin seen[w].open
  \/ pc[w] = "recallWrite" /\ m \in Scope(on[w]) /\ m \notin seen[w].open

Reached(m) ==
  (\E l \in Lot : Recalled(l) /\ m \in Scope(l)) \/ \E w \in Worker : Passed(w, m)

\* The cancelled recall that put m back on sale; should it be made again it finds m.
PutBack(k, m) ==
  /\ m \in Scope(k) /\ recall[k] = "CANCELLED"
  /\ \A w \in Worker : on[w] = k => ~ Passed(w, m)

\* Whatever is for sale within reach of a recall was put back by a cancelled one.
SaleExplained ==
  /\ \A l \in Lot : recall[l] # "none" => l \notin Spare
  /\ \A m \in Lot : lotStatus[m] = "APPROVED" /\ Reached(m) => \E k \in Lot : PutBack(k, m)

\* Without orders no lot is created and none is drawn on but by sales and disposals.
Accounted == "approve" \notin Ops /\ "dispatch" \notin Ops => StockMatchesLots

IInv ==
  /\ DataOK /\ LocksOK /\ RequestsOK
  /\ \A w \in Worker : Relied(w)
  /\ LotsToCome /\ Untouched /\ ReservedOnce /\ Left /\ SaleExplained /\ Accounted

-----------------------------------------------------------------------------
(* Quantities. *)

USE LotAssumption

\* The lots are finitely many, each at one place in the order.
LEMMA LotsInOrder ==
  /\ IsFiniteSet(Lot)
  /\ \E n \in Nat : DOMAIN LotOrder = 1..n /\ \A i, j \in 1..n : LotOrder[i] = LotOrder[j] => i = j
<1>1. Len(LotOrder) \in Nat /\ DOMAIN LotOrder = 1..Len(LotOrder)
  BY DEF LotAssumption
<1>2. \A i, j \in 1..Len(LotOrder) : LotOrder[i] = LotOrder[j] => i = j
  BY <1>1 DEF LotAssumption, IsInjective
<1>3. Nats([l \in Lot |-> 0], Range(LotOrder))
  BY DEF Nats, Lot
<1>4. IsFiniteSet(Range(LotOrder))
  BY <1>1, <1>2, <1>3, InTurnSum
<1> QED
  BY <1>1, <1>2, <1>4 DEF Lot

\* What Fifo takes is there, and with what it is left short of is what was asked for.
LEMMA FifoTakes ==
  ASSUME NEW avail \in [Lot -> Int], NEW q \in Nat
  PROVE  /\ Fifo(avail, q).took \in [Lot -> Nat] /\ Fifo(avail, q).left \in Nat
         /\ SumOf(Fifo(avail, q).took, Lot) + Fifo(avail, q).left = q
         /\ \A l \in Lot : Fifo(avail, q).took[l] > 0 => avail[l] > 0
<1> DEFINE has == [l \in Lot |-> Positive(avail[l])]
           took == InTurn(LotOrder, has, q)
           left == Positive(q - SumOf(has, Lot))
<1>1. Fifo(avail, q).took = took /\ Fifo(avail, q).left = left
  BY DEF Fifo
<1>2. \A l \in Lot : has[l] \in Nat /\ (has[l] > 0 => avail[l] > 0)
  BY DEF Positive
<1> HIDE DEF has
<1>3. Nats(has, Range(LotOrder))
  BY <1>2 DEF Nats, Lot
<1>4. /\ took \in [Lot -> Nat] /\ \A l \in Lot : took[l] <= has[l]
      /\ SumOf(took, Lot) = IF SumOf(has, Lot) < q THEN SumOf(has, Lot) ELSE q
  <2> HIDE DEF took
  <2> QED
    BY <1>3, LotsInOrder, InTurnSum DEF Lot, took
<1>5. SumOf(has, Lot) \in Nat
  BY <1>3, LotsInOrder, SumNat DEF Lot
<1>6. left \in Nat /\ SumOf(took, Lot) + left = q
  BY <1>4, <1>5 DEF Positive
<1>7. ASSUME NEW l \in Lot, took[l] > 0 PROVE avail[l] > 0
  <2> HIDE DEF took
  <2>1. took[l] \in Nat /\ took[l] <= has[l] /\ has[l] \in Nat
    BY <1>2, <1>4
  <2> QED
    BY <1>2, <1>7, <2>1
<1> QED
  BY <1>1, <1>4, <1>6, <1>7

\* Quantities per lot that are added or taken away move the total.
LEMMA TotalMoves ==
  ASSUME NEW f \in [Lot -> Int], NEW g \in [Lot -> Int]
  PROVE  /\ SumOf(f, Lot) \in Int /\ SumOf(Zero, Lot) = 0
         /\ SumOf(Plus(f, g), Lot) = SumOf(f, Lot) + SumOf(g, Lot)
         /\ SumOf(Minus(f, g), Lot) = SumOf(f, Lot) - SumOf(g, Lot)
<1>1. IsFiniteSet(Lot) /\ Ints(f, Lot) /\ Ints(g, Lot) /\ Ints(Minus(f, g), Lot)
  BY LotsInOrder DEF Ints, Minus
<1>2. SumOf(Zero, Lot) = 0
  BY LotsInOrder, SumZero DEF Zero
<1>3. \A l \in Lot : Plus(f, g)[l] = f[l] + g[l] /\ f[l] = Minus(f, g)[l] + g[l]
  BY DEF Plus, Minus
<1>4. SumOf(Plus(f, g), Lot) = SumOf(f, Lot) + SumOf(g, Lot)
  BY <1>1, <1>3, SumPlus
<1>5. SumOf(f, Lot) = SumOf(Minus(f, g), Lot) + SumOf(g, Lot)
  <2> DEFINE h == Minus(f, g)
  <2>0. Ints(h, Lot)
    BY <1>1
  <2>1. \A l \in Lot : f[l] = h[l] + g[l]
    BY <1>3
  <2> HIDE DEF h
  <2>3. Ints(g, Lot) /\ IsFiniteSet(Lot)
    BY <1>1
  <2>2. SumOf(f, Lot) = SumOf(h, Lot) + SumOf(g, Lot)
    BY ONLY <2>0, <2>1, <2>3, SumPlus
  <2> QED
    BY <2>2 DEF h
<1>6. SumOf(f, Lot) \in Int /\ SumOf(g, Lot) \in Int /\ SumOf(Minus(f, g), Lot) \in Int
  BY <1>1, SumInt
<1> QED
  BY <1>2, <1>4, <1>5, <1>6

\* Nothing adds up to nothing.
LEMMA TotalZero == SumOf(Zero, Lot) = 0
BY LotsInOrder, SumZero DEF Zero

\* Quantities that are not negative have such a total, and none exceeds it.
LEMMA TotalNat ==
  ASSUME NEW f \in [Lot -> Nat]
  PROVE  SumOf(f, Lot) \in Nat /\ \A l \in Lot : f[l] <= SumOf(f, Lot)
BY LotsInOrder, SumNat, SumTerm DEF Nats

-----------------------------------------------------------------------------
(* What a step leaves to the others. *)

\* Locks of others stay theirs.
KeepsLocks(w) ==
  /\ \A l \in Lot : lotLock[l] \notin {None, w} => lotLock'[l] = lotLock[l]
  /\ \A o \in Order : headerLock[o] \notin {None, w} => headerLock'[o] = headerLock[o]
  /\ \A l \in Lot : recallLock[l] \notin {None, w} => recallLock'[l] = recallLock[l]

\* What others locked is not written, and what they rely on without a lock only
\* moves the way they expect.
KeepsData(w) ==
  /\ \A l \in Lot : lotStatus[l] # "none" => lotStatus'[l] # "none"
  /\ \A l \in Lot : lotStatus[l] = "none" => lotStatus'[l] = "none" \/ (Creating(w) /\ l = seen[w].lot)
  /\ \A l \in Lot : lotStatus[l] # "none" /\ lotLock[l] \notin {None, w} =>
       lotQty'[l] = lotQty[l] /\ lotStatus'[l] = lotStatus[l] /\ ReservedQty(l)' <= ReservedQty(l)
  /\ \A l \in Lot : recallLock[l] \notin {None, w} => recall'[l] = recall[l]
  /\ \A o \in Order : headerLock[o] \notin {None, w} /\ reservation[o] = "none" => reservation'[o] = "none"
  /\ \A o \in Order : reservation[o] # "none" => reservation'[o] # "none"
  /\ \A o \in Order : SumOf(consumed'[o], Lot) >= SumOf(consumed[o], Lot)

Steady(v) == pc'[v] = pc[v] /\ on'[v] = on[v] /\ seen'[v] = seen[v]

\* Reserved quantities are counted in whole units.
LEMMA ReservedNat ==
  ASSUME IInv, NEW l \in Lot
  PROVE  ReservedQty(l) \in Nat
<1> DEFINE f == [o \in Order |-> Active(o)[l]]
           S == {o \in Order : reservation[o] = "ACTIVE"}
<1>1. IsFiniteSet(S)
  BY FS_Subset DEF LotAssumption
<1>2. Ints(f, S)
  BY DEF Ints, Active, IInv, DataOK, AllocOK
<1>3. SumOf(f, S) \in Int
  <2> HIDE DEF f, S
  <2> QED
    BY <1>1, <1>2, SumInt
<1> QED
  BY <1>3 DEF ReservedQty, Positive

\* The same for the state that follows.
LEMMA ReservedNatNext ==
  ASSUME DataOK', NEW l \in Lot
  PROVE  ReservedQty(l)' \in Nat
<1> DEFINE f == [o \in Order |-> Active(o)[l]]'
           S == {o \in Order : reservation[o] = "ACTIVE"}'
<1>1. IsFiniteSet(S)
  BY FS_Subset DEF LotAssumption
<1>2. Ints(f, S)
  BY DEF Ints, Active, DataOK, AllocOK
<1>3. SumOf(f, S) \in Int
  <2> HIDE DEF f, S
  <2> QED
    BY <1>1, <1>2, SumInt
<1> QED
  BY <1>3 DEF ReservedQty, Positive

\* What a lot sale found available in its lot stays available.
LEMMA AvailableKept ==
  ASSUME IInv, DataOK', NEW w \in Worker, KeepsData(w), NEW l \in Lot, NEW q \in Nat,
         lotStatus[l] # "none", lotLock[l] \notin {None, w}, LotAvailable(l) >= q
  PROVE  LotAvailable(l)' >= q
<1>1. lotQty'[l] = lotQty[l] /\ ReservedQty(l)' <= ReservedQty(l)
  BY DEF KeepsData
<1>2. lotQty[l] \in Int /\ ReservedQty(l) \in Nat /\ ReservedQty(l)' \in Nat
  BY ReservedNat, ReservedNatNext DEF IInv, DataOK, LotsOK
<1> QED
  BY <1>1, <1>2 DEF LotAvailable

\* What another request relies on survives a step that respects it.
LEMMA OthersKeep ==
  ASSUME IInv, DataOK', NEW w \in Worker, NEW v \in Worker, v # w, Steady(v),
         KeepsLocks(w), KeepsData(w)
  PROVE  Relied(v)'
<1>1. v \notin {None, w} /\ Relied(v)
  BY DEF IInv, LotAssumption
<1>2. ASSUME NEW l \in Lot, Mine(v, l) PROVE Mine(v, l)'
  BY <1>1, <1>2 DEF Mine, Steady, KeepsLocks, KeepsData
<1>3. Heading(v) /\ on[v] \in Order => Heading(v)'
  BY <1>1 DEF Heading, Steady, KeepsLocks, KeepsData
<1>4. OnSale(v)'
  BY <1>1, <1>2 DEF Relied, OnSale, Steady
<1>5. OnLotSale(v)'
  <2>1. ASSUME pc[v] \in {"lotSale", "lotSaleWrite"}
        PROVE  seen[v].lot \in Lot /\ lotStatus'[seen[v].lot] # "none" /\ seen[v].qty > 0
    BY <1>1, <2>1 DEF Relied, OnLotSale, KeepsData
  <2>2. ASSUME pc[v] = "lotSaleWrite"
        PROVE  \E l \in Lot : /\ l = seen[v].lot /\ seen'[v].lot = l /\ Mine(v, l)'
                               /\ LotAvailable(l)' >= seen[v].qty
                               /\ seen[v].took = [Zero EXCEPT ![l] = seen[v].qty]
    <3>1. PICK l \in Lot : l = seen[v].lot
      BY <1>1, <2>2 DEF Relied, OnLotSale
    <3>2. Mine(v, l) /\ LotAvailable(l) >= seen[v].qty /\ seen[v].took = [Zero EXCEPT ![l] = seen[v].qty]
      BY <1>1, <2>2, <3>1 DEF Relied, OnLotSale
    <3>3. Mine(v, l)'
      BY <1>2, <3>2
    <3>4. LotAvailable(l)' >= seen[v].qty
      BY <3>2, <1>1, AvailableKept DEF Mine, IInv, RequestsOK, Seen
    <3>5. seen'[v].lot = l
      BY <3>1 DEF Steady
    <3> QED
      BY <3>1, <3>2, <3>3, <3>4, <3>5
  <2> QED
    BY <2>1, <2>2 DEF OnLotSale, Steady
<1>6. OnReservation(v)'
  <2>1. ASSUME NEW l \in Lot, lotStatus[l] # "none", lotLock[l] = v PROVE lotLock'[l] = v
    BY <1>1, <2>1 DEF KeepsLocks
  <2>2. \A l \in Lot : lotLock[l] = v => lotLock'[l] = v
    BY <1>1 DEF KeepsLocks
  <2> QED
    BY <1>1, <1>3, <2>2 DEF Relied, OnReservation, Steady, Whole, Heading, KeepsLocks, KeepsData
<1>7. OnDispatch(v)'
  BY <1>1, <1>3 DEF Relied, OnDispatch, Steady, Whole, KeepsData
<1>8. OnOrder(v)'
  <2>1. pc[v] = "deliver" => SumOf(consumed'[on[v]], Lot) >= Qty[on[v]]
    <3> SUFFICES ASSUME pc[v] = "deliver" PROVE SumOf(consumed'[on[v]], Lot) >= Qty[on[v]]
      OBVIOUS
    <3>1. on[v] \in Order /\ SumOf(consumed[on[v]], Lot) >= Qty[on[v]]
      BY <1>1 DEF Relied, OnOrder
    <3>2. SumOf(consumed[on[v]], Lot) \in Nat /\ SumOf(consumed'[on[v]], Lot) \in Nat /\ Qty[on[v]] \in Nat
      BY <3>1, TotalNat DEF IInv, DataOK, AllocOK, LotAssumption
    <3> QED
      BY <3>1, <3>2 DEF KeepsData
  <2> QED
    BY <1>1, <2>1 DEF Relied, OnOrder, Steady, KeepsData
<1>9. OnRecall(v)'
  BY <1>1, <1>2 DEF Relied, OnRecall, Steady, KeepsLocks, KeepsData, Recalled, IInv, RequestsOK, Seen
<1>10. OnNothing(v)'
  <2>1. Creating(v) => seen[v].lot \in Lot /\ seen[w].lot # seen[v].lot
    BY DEF IInv, LotsToCome, RequestsOK, Seen, Creating
  <2> QED
    BY <1>1, <2>1 DEF Relied, OnNothing, Steady, KeepsData, Creating
<1> QED
  BY <1>4, <1>5, <1>6, <1>7, <1>8, <1>9, <1>10 DEF Relied

-----------------------------------------------------------------------------
(* How a step preserves the invariant. *)

\* A request at rest relies on nothing.
LEMMA IdleRelies ==
  ASSUME NEW w \in Worker, pc'[w] = "idle", seen'[w] = NothingSeen
  PROVE  Relied(w)'
BY DEF Relied, OnSale, OnLotSale, OnReservation, OnDispatch, OnOrder, OnRecall, OnNothing, Creating, NothingSeen

\* The end of a request frees what it locked and nothing else.
LEMMA Ends ==
  ASSUME IInv, NEW w \in Worker, End(w)
  PROVE  /\ LocksOK' /\ RequestsOK' /\ KeepsLocks(w) /\ \A v \in Worker \ {w} : Steady(v)
         /\ pc'[w] = "idle" /\ on'[w] = None /\ seen'[w] = NothingSeen
<1>1. NothingSeen \in Seen
  BY DEF NothingSeen, Seen, Zero, OrderStatus
<1>2. RequestsOK'
  BY <1>1 DEF IInv, RequestsOK, End, See, PC
<1>3. LocksOK'
  BY DEF IInv, LocksOK, End, Freed
<1>4. KeepsLocks(w)
  BY DEF IInv, LocksOK, KeepsLocks, End, Freed
<1>5. \A v \in Worker \ {w} : Steady(v)
  BY DEF IInv, RequestsOK, Steady, End, See
<1> QED
  BY <1>2, <1>3, <1>4, <1>5 DEF IInv, RequestsOK, End, See

\* A step that writes no data respects whatever others rely on.
LEMMA QuietKeeps ==
  ASSUME IInv, NEW w \in Worker, UNCHANGED data
  PROVE  /\ DataOK' /\ KeepsData(w) /\ Untouched' /\ ReservedOnce' /\ Left' /\ Accounted'
         /\ \A l \in Lot : lotStatus'[l] = "none" => l \in Spare
<1>1. DataOK' /\ Untouched' /\ ReservedOnce' /\ Left' /\ Accounted'
  BY DEF IInv, DataOK, LotsOK, OrdersOK, AllocOK, RecallsOK, Untouched, ReservedOnce, Left, Accounted,
         StockMatchesLots, data, stockVars, orderVars, allocVars, recallVars
<1>2. \A l \in Lot : ReservedQty(l)' = ReservedQty(l) /\ ReservedQty(l) \in Nat
  BY ReservedNat DEF ReservedQty, Active, data, allocVars
<1>3. \A o \in Order : SumOf(consumed'[o], Lot) >= SumOf(consumed[o], Lot)
  <2> SUFFICES ASSUME NEW o \in Order PROVE SumOf(consumed'[o], Lot) >= SumOf(consumed[o], Lot)
    OBVIOUS
  <2>1. SumOf(consumed[o], Lot) \in Nat
    BY TotalNat DEF IInv, DataOK, AllocOK
  <2> QED
    BY <2>1 DEF data, allocVars
<1>4. KeepsData(w)
  BY <1>2, <1>3 DEF KeepsData, data, stockVars, allocVars, recallVars
<1> QED
  BY <1>1, <1>4 DEF IInv, LotsToCome, data, stockVars

\* Sales stay explained when no recall is written or in the making.
LEMMA ExplainedKept ==
  ASSUME IInv, NEW w \in Worker, \A v \in Worker \ {w} : Steady(v), recall' = recall,
         pc'[w] \notin {"recallBlended", "recallWrite"},
         \A m \in Lot : lotStatus'[m] = "APPROVED" => lotStatus[m] = "APPROVED" \/ m \in Spare
  PROVE  SaleExplained'
<1>1. ASSUME NEW v \in Worker, NEW m \in Lot, Passed(v, m)' PROVE Passed(v, m)
  BY <1>1 DEF Passed, Steady
<1>2. ASSUME NEW m \in Lot, lotStatus'[m] = "APPROVED", Reached(m)' PROVE \E k \in Lot : PutBack(k, m)'
  <2>1. Reached(m)
    BY <1>1, <1>2 DEF Reached, Recalled
  <2>2. m \notin Spare
    <3>1. ASSUME NEW l \in Lot \ Spare, m \in Scope(l) PROVE m \notin Spare
      BY <3>1 DEF Scope, LotAssumption
    <3>2. CASE \E l \in Lot : Recalled(l) /\ m \in Scope(l)
      BY <3>1, <3>2 DEF IInv, SaleExplained, Recalled
    <3>3. CASE \E v \in Worker : Passed(v, m)
      <4>1. PICK v \in Worker : Passed(v, m)
        BY <3>3
      <4>2. on[v] \in Lot \ Spare
        BY <4>1 DEF IInv, Relied, OnRecall, Passed
      <4> QED
        BY <4>1, <4>2, <3>1 DEF Passed
    <3> QED
      BY <2>1, <3>2, <3>3 DEF Reached
  <2>3. PICK k \in Lot : PutBack(k, m)
    BY <1>2, <2>1, <2>2 DEF IInv, SaleExplained
  <2>4. \A v \in Worker : on'[v] = k => ~ Passed(v, m)'
    BY <1>1, <2>3 DEF PutBack, Passed, Steady
  <2> QED
    BY <2>3, <2>4 DEF PutBack
<1> QED
  BY <1>2 DEF SaleExplained, IInv

\* The end of a request that wrote its data.
LEMMA WriteKeeps ==
  ASSUME IInv, NEW w \in Worker, End(w), KeepsData(w), DataOK', Untouched', ReservedOnce', Left',
         SaleExplained', Accounted', \A l \in Lot : lotStatus'[l] = "none" => l \in Spare
  PROVE  IInv'
<1>1. \A v \in Worker : Relied(v)'
  BY Ends, IdleRelies, OthersKeep
<1>2. ASSUME NEW v \in Worker, NEW u \in Worker, v # u, Creating(u)' PROVE seen'[v].lot # seen'[u].lot
  <2>1. u # w /\ Creating(u)
    BY <1>2, Ends DEF Creating, Steady
  <2>2. CASE v = w
    BY <2>1, <2>2, Ends DEF Creating, Steady, NothingSeen
  <2>3. CASE v # w
    BY <1>2, <2>1, <2>3, Ends DEF IInv, LotsToCome, Steady
  <2> QED
    BY <2>2, <2>3
<1> QED
  BY <1>1, <1>2, Ends DEF IInv, LotsToCome

\* A step that only reads, locks or decides.
LEMMA ControlKeeps ==
  ASSUME IInv, NEW w \in Worker, UNCHANGED data, LocksOK', RequestsOK', KeepsLocks(w),
         \A v \in Worker \ {w} : Steady(v), Relied(w)', SaleExplained',
         \A v \in Worker \ {w} : Creating(v) => seen'[w].lot # seen[v].lot,
         Creating(w)' => \A v \in Worker \ {w} : seen[v].lot # seen'[w].lot
  PROVE  IInv'
<1>1. \A v \in Worker : Relied(v)'
  BY QuietKeeps, OthersKeep
<1>2. ASSUME NEW v \in Worker, NEW u \in Worker, v # u, Creating(u)' PROVE seen'[v].lot # seen'[u].lot
  <2>1. CASE u = w
    BY <1>2, <2>1 DEF Steady
  <2>2. CASE u # w
    <3>1. Creating(u) /\ seen'[u] = seen[u]
      BY <1>2, <2>2 DEF Creating, Steady
    <3> QED
      BY <1>2, <2>2, <3>1 DEF IInv, LotsToCome, Steady
  <2> QED
    BY <2>1, <2>2
<1> QED
  BY <1>1, <1>2, QuietKeeps DEF IInv, LotsToCome

\* The same where no lot is chosen and no recall advances.
LEMMA PlainKeeps ==
  ASSUME IInv, NEW w \in Worker, UNCHANGED data, LocksOK', RequestsOK', KeepsLocks(w),
         \A v \in Worker \ {w} : Steady(v), Relied(w)',
         pc'[w] \notin {"recallBlended", "recallWrite"},
         seen'[w].lot \in {None, seen[w].lot}, Creating(w)' => Creating(w)
  PROVE  IInv'
<1>1. SaleExplained'
  <2>1. recall' = recall /\ lotStatus' = lotStatus
    BY DEF data, stockVars, recallVars
  <2> QED
    BY <2>1, ExplainedKept
<1>2. \A v \in Worker \ {w} : Creating(v) => seen'[w].lot # seen[v].lot
  BY DEF IInv, LotsToCome, Creating
<1>3. Creating(w)' => \A v \in Worker \ {w} : seen[v].lot # seen'[w].lot
  BY DEF IInv, LotsToCome, Creating
<1> QED
  BY <1>1, <1>2, <1>3, ControlKeeps

\* A request that is rolled back.
LEMMA AbortKeeps ==
  ASSUME IInv, NEW w \in Worker, Abort(w)
  PROVE  IInv'
<1>1. End(w) /\ UNCHANGED data
  BY DEF Abort
<1>2. SaleExplained'
  <2>1. recall' = recall /\ lotStatus' = lotStatus
    BY <1>1 DEF data, stockVars, recallVars
  <2> QED
    BY <1>1, <2>1, Ends, ExplainedKept
<1> QED
  BY <1>1, <1>2, WriteKeeps, QuietKeeps

\* Where a step takes its request.
LEMMA Moves ==
  ASSUME IInv, NEW w \in Worker, NEW p \in PC, NEW d \in Order \cup Lot \cup {None}, NEW r \in Seen,
         pc' = [pc EXCEPT ![w] = p],
         on' = [on EXCEPT ![w] = d] \/ (on' = on /\ on[w] = d),
         seen' = [seen EXCEPT ![w] = r] \/ (seen' = seen /\ seen[w] = r)
  PROVE  /\ RequestsOK' /\ \A v \in Worker \ {w} : Steady(v)
         /\ pc'[w] = p /\ on'[w] = d /\ seen'[w] = r
<1>1. pc \in [Worker -> PC] /\ on \in [Worker -> Order \cup Lot \cup {None}] /\ seen \in [Worker -> Seen]
  BY DEF IInv, RequestsOK
<1>2. pc' \in [Worker -> PC] /\ pc'[w] = p /\ \A v \in Worker \ {w} : pc'[v] = pc[v]
  BY <1>1
<1>3. on' \in [Worker -> Order \cup Lot \cup {None}] /\ on'[w] = d /\ \A v \in Worker \ {w} : on'[v] = on[v]
  <2> DEFINE D == Order \cup Lot \cup {None}
  <2>1. d \in D /\ on \in [Worker -> D]
    BY <1>1
  <2> HIDE DEF D
  <2>2. on' \in [Worker -> D] /\ on'[w] = d /\ \A v \in Worker \ {w} : on'[v] = on[v]
    BY <2>1
  <2> QED
    BY <2>2 DEF D
<1>4. seen' \in [Worker -> Seen] /\ seen'[w] = r /\ \A v \in Worker \ {w} : seen'[v] = seen[v]
  BY <1>1
<1> QED
  BY <1>2, <1>3, <1>4 DEF RequestsOK, Steady

\* What a step locks.
LEMMA Locking ==
  ASSUME IInv, NEW w \in Worker, NEW S \in SUBSET Lot, LockLots(w, S),
         UNCHANGED <<itemLock, headerLock, recallLock>>
  PROVE  /\ LocksOK' /\ KeepsLocks(w) /\ \A l \in S : lotLock'[l] = w
         /\ \A l \in Lot : lotLock[l] = w => lotLock'[l] = w
BY DEF IInv, LocksOK, KeepsLocks, LockLots

\* A step that takes no lock leaves the locks to their holders.
LEMMA NoLocking ==
  ASSUME IInv, NEW w \in Worker, UNCHANGED locks
  PROVE  LocksOK' /\ KeepsLocks(w)
BY DEF IInv, LocksOK, KeepsLocks, locks

\* The types of one request and of the lots.
LEMMA Typed ==
  ASSUME IInv, NEW w \in Worker
  PROVE  /\ seen[w] \in Seen /\ on[w] \in Order \cup Lot \cup {None} /\ Relied(w)
         /\ seen[w].lot \in Lot \cup {None} /\ seen[w].qty \in Nat /\ seen[w].took \in [Lot -> Nat]
         /\ seen[w].read \in [Lot -> Int] /\ seen[w].open \in SUBSET Lot /\ seen[w].fresh \in BOOLEAN
         /\ seen[w].to \in OrderStatus
         /\ NothingSeen \in Seen /\ lotQty \in [Lot -> Int] /\ lotStatus \in [Lot -> LotStatus]
<1>1. NothingSeen \in Seen
  BY DEF NothingSeen, Seen, Zero, OrderStatus
<1> QED
  BY <1>1 DEF IInv, RequestsOK, Seen, DataOK, LotsOK

-----------------------------------------------------------------------------
(* Sales. *)

\* A sale begins without a lock.
LEMMA SaleCheckKeeps ==
  ASSUME IInv, NEW w \in Worker, NEW q \in Sold, SaleCheck(w, q)
  PROVE  IInv'
<1> DEFINE r == [NothingSeen EXCEPT !.qty = q]
<1>1. r \in Seen /\ r.lot = None
  <2>1. q \in Nat /\ NothingSeen.lot = None
    BY DEF LotAssumption, NothingSeen
  <2>2. NothingSeen \in Seen /\ r = [NothingSeen EXCEPT !.qty = q]
    BY Typed
  <2> HIDE DEF r
  <2> QED
    BY ONLY <2>1, <2>2 DEF Seen
<1> HIDE DEF r
<1>2. pc' = [pc EXCEPT ![w] = "saleItem"] /\ on' = [on EXCEPT ![w] = None]
      /\ seen' = [seen EXCEPT ![w] = r] /\ UNCHANGED <<data, locks>>
  BY DEF SaleCheck, Start, See, r
<1>3. RequestsOK' /\ (\A v \in Worker \ {w} : Steady(v)) /\ pc'[w] = "saleItem" /\ seen'[w] = r
  <2>1. "saleItem" \in PC /\ None \in Order \cup Lot \cup {None}
    BY DEF PC
  <2> QED
    BY <1>1, <1>2, <2>1, Moves
<1>4. Relied(w)'
  BY <1>1, <1>3 DEF Relied, OnSale, OnLotSale, OnReservation, OnDispatch, OnOrder, OnRecall, OnNothing, Creating
<1> QED
  BY <1>1, <1>2, <1>3, <1>4, NoLocking, PlainKeeps DEF Creating

\* Then it locks the item.
LEMMA SaleItemKeeps ==
  ASSUME IInv, NEW w \in Worker, SaleItem(w)
  PROVE  IInv'
<1>1. pc' = [pc EXCEPT ![w] = "saleLots"] /\ UNCHANGED <<on, seen, data>> /\ pc[w] = "saleItem"
  BY DEF SaleItem, Goto
<1>2. RequestsOK' /\ (\A v \in Worker \ {w} : Steady(v)) /\ pc'[w] = "saleLots" /\ seen'[w] = seen[w]
  <2>1. "saleLots" \in PC /\ seen[w] \in Seen /\ on[w] \in Order \cup Lot \cup {None}
    BY Typed DEF PC
  <2> QED
    BY <1>1, <2>1, Moves
<1>3. LocksOK' /\ KeepsLocks(w)
  BY DEF IInv, LocksOK, KeepsLocks, SaleItem
<1>4. seen[w].lot = None
  BY <1>1, Typed DEF Relied, OnNothing
<1>5. Relied(w)'
  BY <1>2, <1>4 DEF Relied, OnSale, OnLotSale, OnReservation, OnDispatch, OnOrder, OnRecall, OnNothing, Creating
<1> QED
  BY <1>1, <1>2, <1>3, <1>4, <1>5, PlainKeeps DEF Creating

\* The sale locks lots, oldest first: what it decides to take is there, and what it
\* is short of no lot of the item can explain.
LEMMA SaleLotsKeeps ==
  ASSUME IInv, NEW w \in Worker, SaleLots(w)
  PROVE  IInv'
<1> DEFINE avail == Only(lotQty, Sellable)
           f == Fifo(avail, seen[w].qty)
           r == [seen[w] EXCEPT !.read = lotQty, !.took = f.took]
<1>1. CASE Abort(w)
  BY <1>1, AbortKeeps
<1>2. ASSUME LockLots(w, Sellable), See(w, r), Goto(w, "saleWrite"), pc[w] = "saleLots",
             UNCHANGED <<data, itemLock, headerLock, recallLock>>
      PROVE  IInv'
  <2>1. avail \in [Lot -> Int] /\ \A l \in Lot : avail[l] > 0 => l \in Sellable
    BY Typed DEF Only
  <2> HIDE DEF avail
  <2>2. f.took \in [Lot -> Nat] /\ f.left \in Nat /\ SumOf(f.took, Lot) + f.left = seen[w].qty
        /\ \A l \in Lot : f.took[l] > 0 => avail[l] > 0
    BY <2>1, Typed, FifoTakes
  <2> DEFINE took == f.took left == f.left
  <2> HIDE DEF f
  <2>3. SumOf(took, Lot) <= seen[w].qty
    <3>1. SumOf(took, Lot) \in Nat /\ left \in Nat /\ SumOf(took, Lot) + left = seen[w].qty
      BY <2>2, TotalNat
    <3> HIDE DEF took, left
    <3> QED
      BY <3>1
  <2>4. r \in Seen /\ r.lot = None /\ r.read = lotQty /\ r.took = f.took /\ r.qty = seen[w].qty
    <3>1. seen[w].lot = None
      BY <1>2, Typed DEF Relied, OnNothing
    <3>2. r = [seen[w] EXCEPT !.read = lotQty, !.took = took] /\ took \in [Lot -> Nat]
      BY <2>2
    <3> HIDE DEF r, took
    <3>3. seen[w] \in Seen /\ lotQty \in [Lot -> Int]
      BY Typed
    <3>4. r \in Seen /\ r.lot = seen[w].lot /\ r.qty = seen[w].qty /\ r.read = lotQty /\ r.took = took
      BY ONLY <3>2, <3>3 DEF Seen
    <3> QED
      BY <3>1, <3>4 DEF took
  <2> HIDE DEF r
  <2>5. RequestsOK' /\ (\A v \in Worker \ {w} : Steady(v)) /\ pc'[w] = "saleWrite" /\ seen'[w] = r
    <3>1. on[w] \in Order \cup Lot \cup {None} /\ "saleWrite" \in PC
      BY Typed DEF PC
    <3> QED
      BY ONLY IInv, w \in Worker, <1>2, <2>4, <3>1, Moves DEF Goto, See
  <2>6. Sellable \in SUBSET Lot /\ \A l \in Sellable : lotStatus[l] = "APPROVED"
    BY DEF Sellable, InStatus
  <2>7. LocksOK' /\ KeepsLocks(w) /\ \A l \in Sellable : lotLock'[l] = w
    BY <1>2, <2>6, Locking
  <2>8. OnSale(w)'
    BY <1>2, <2>1, <2>2, <2>3, <2>4, <2>5, <2>6, <2>7 DEF OnSale, Mine, data, stockVars
  <2>9. Relied(w)'
    BY <2>4, <2>5, <2>8 DEF Relied, OnLotSale, OnReservation, OnDispatch, OnOrder, OnRecall, OnNothing, Creating
  <2> QED
    BY <1>2, <2>4, <2>5, <2>7, <2>9, PlainKeeps DEF Creating
<1> QED
  BY <1>1, <1>2 DEF SaleLots

\* A sale from a chosen lot reads the lot and the item first.
LEMMA LotSaleCheckKeeps ==
  ASSUME IInv, NEW w \in Worker, NEW l \in Lot, NEW q \in Sold, LotSaleCheck(w, l, q)
  PROVE  IInv'
<1> DEFINE r == [NothingSeen EXCEPT !.qty = q, !.lot = l]
<1>1. r \in Seen /\ r.lot = l /\ r.qty = q /\ q > 0
  <2>1. q \in Nat /\ q > 0
    BY DEF LotAssumption
  <2>2. r = [NothingSeen EXCEPT !.qty = q, !.lot = l]
    OBVIOUS
  <2>3. NothingSeen \in Seen
    BY Typed
  <2> HIDE DEF r
  <2> QED
    BY ONLY <2>1, <2>2, <2>3, l \in Lot DEF Seen
<1> HIDE DEF r
<1>2. pc' = [pc EXCEPT ![w] = "lotSale"] /\ on' = [on EXCEPT ![w] = None]
      /\ seen' = [seen EXCEPT ![w] = r] /\ UNCHANGED <<data, locks>> /\ lotStatus[l] # "none"
  BY DEF LotSaleCheck, Start, See, r
<1>3. RequestsOK' /\ (\A v \in Worker \ {w} : Steady(v)) /\ pc'[w] = "lotSale" /\ seen'[w] = r
  BY ONLY ZenonT(30), IInv, w \in Worker, <1>1, <1>2, Moves DEF PC
<1>4. lotStatus' = lotStatus /\ recall' = recall
  BY <1>2 DEF data, stockVars, recallVars
<1>5. OnLotSale(w)'
  BY <1>1, <1>2, <1>3, <1>4 DEF OnLotSale
<1>6. Relied(w)'
  BY <1>1, <1>3, <1>5 DEF Relied, OnSale, OnReservation, OnDispatch, OnOrder, OnRecall, OnNothing, Creating
<1>7. \A v \in Worker \ {w} : Creating(v) => seen'[w].lot # seen[v].lot
  BY <1>1, <1>2, <1>3, Typed DEF Relied, OnNothing
<1> QED
  BY <1>2, <1>3, <1>4, <1>6, <1>7, NoLocking, ExplainedKept, ControlKeeps DEF Creating

\* It locks the lot and nets off what is reserved in it: that is what it may take.
LEMMA LotSaleLockKeeps ==
  ASSUME IInv, NEW w \in Worker, LotSaleLock(w)
  PROVE  IInv'
<1>1. CASE Abort(w)
  BY <1>1, AbortKeeps
<1>2. PICK l \in Lot : l = seen[w].lot
  BY Typed DEF LotSaleLock, Relied, OnLotSale
<1> DEFINE q == seen[w].qty
           r == [seen[w] EXCEPT !.read = lotQty, !.took = [Zero EXCEPT ![l] = q]]
<1>3. ASSUME LockLots(w, {l}), See(w, r), Goto(w, "lotSaleWrite"), pc[w] = "lotSale",
             lotStatus[l] = "APPROVED", LotAvailable(l) >= q,
             UNCHANGED <<data, itemLock, headerLock, recallLock>>
      PROVE  IInv'
  <2>1. [Zero EXCEPT ![l] = q] \in [Lot -> Nat]
    BY Typed DEF Zero
  <2>2. r \in Seen /\ r.lot = l /\ r.read = lotQty /\ r.took = [Zero EXCEPT ![l] = q] /\ r.qty = q
    <3> DEFINE took == [Zero EXCEPT ![l] = q]
    <3>1. r = [seen[w] EXCEPT !.read = lotQty, !.took = took]
      OBVIOUS
    <3>2. seen[w] \in Seen /\ lotQty \in [Lot -> Int] /\ took \in [Lot -> Nat]
      BY <2>1, Typed
    <3> HIDE DEF r, took
    <3>3. r \in Seen /\ r.lot = seen[w].lot /\ r.qty = seen[w].qty /\ r.read = lotQty /\ r.took = took
      BY ONLY <3>1, <3>2 DEF Seen
    <3> QED
      BY <1>2, <3>3 DEF took
  <2> HIDE DEF r
  <2>3. RequestsOK' /\ (\A v \in Worker \ {w} : Steady(v)) /\ pc'[w] = "lotSaleWrite" /\ seen'[w] = r
    <3>1. on[w] \in Order \cup Lot \cup {None} /\ "lotSaleWrite" \in PC
      BY Typed DEF PC
    <3> QED
      BY ONLY ZenonT(30), IInv, w \in Worker, <1>3, <2>2, <3>1, Moves DEF Goto, See
  <2>4. LocksOK' /\ KeepsLocks(w) /\ lotLock'[l] = w
    BY <1>3, Locking
  <2>5. lotQty' = lotQty /\ lotStatus' = lotStatus /\ LotAvailable(l)' = LotAvailable(l)
    BY <1>3 DEF data, stockVars, allocVars, LotAvailable, ReservedQty, Active
  <2>6. q > 0
    BY <1>3, Typed DEF Relied, OnLotSale
  <2>7. OnLotSale(w)'
    <3>1. Mine(w, l)' /\ LotAvailable(l)' >= q
      BY <1>3, <2>2, <2>3, <2>4, <2>5 DEF Mine
    <3> QED
      BY <1>3, <2>2, <2>3, <2>5, <2>6, <3>1 DEF OnLotSale, Mine, LotAvailable, ReservedQty, Active
  <2>8. Relied(w)'
    BY <2>2, <2>3, <2>7 DEF Relied, OnSale, OnReservation, OnDispatch, OnOrder, OnRecall, OnNothing, Creating
  <2> QED
    BY <1>2, <1>3, <2>2, <2>3, <2>4, <2>8, PlainKeeps DEF Creating
<1> QED
  BY <1>1, <1>2, <1>3 DEF LotSaleLock

-----------------------------------------------------------------------------
(* Reservations: the steps that read and decide. *)

\* An approval reads the order.
LEMMA ApproveReadKeeps ==
  ASSUME IInv, NEW w \in Worker, NEW o \in Order, ApproveRead(w, o)
  PROVE  IInv'
<1> DEFINE r == [NothingSeen EXCEPT !.to = "APPROVED"]
<1>1. r \in Seen /\ r.lot = None /\ r.to = "APPROVED"
  <2>1. NothingSeen \in Seen /\ NothingSeen.lot = None /\ "APPROVED" \in OrderStatus
    BY Typed DEF NothingSeen, OrderStatus
  <2> QED
    BY ONLY <2>1 DEF Seen
<1> HIDE DEF r
<1>2. pc' = [pc EXCEPT ![w] = "header"] /\ on' = [on EXCEPT ![w] = o] /\ "approve" \in Ops
      /\ seen' = [seen EXCEPT ![w] = r] /\ UNCHANGED <<data, locks>>
  BY DEF ApproveRead, Start, See, r
<1>3. RequestsOK' /\ (\A v \in Worker \ {w} : Steady(v)) /\ pc'[w] = "header" /\ on'[w] = o /\ seen'[w] = r
  <2>1. "header" \in PC /\ o \in Order \cup Lot \cup {None}
    BY DEF PC
  <2> QED
    BY <1>1, <1>2, <2>1, Moves
<1>4. Relied(w)'
  BY <1>1, <1>2, <1>3 DEF Relied, OnSale, OnLotSale, OnReservation, OnDispatch, OnOrder, OnRecall, OnNothing, Creating
<1> QED
  BY <1>1, <1>2, <1>3, <1>4, NoLocking, PlainKeeps DEF Creating

\* The approval creates the reservation, which no other request then can.
LEMMA HeaderKeeps ==
  ASSUME IInv, NEW w \in Worker, Header(w)
  PROVE  IInv'
<1>1. CASE Abort(w)
  BY <1>1, AbortKeeps
<1>2. ASSUME NEW o \in Order, o = on[w], pc[w] = "header", headerLock[o] = None, HeaderFree(o),
             headerLock' = [headerLock EXCEPT ![o] = w], Goto(w, "snapshot"),
             UNCHANGED <<data, itemLock, lotLock, recallLock, seen>>
      PROVE  IInv'
  <2>1. RequestsOK' /\ (\A v \in Worker \ {w} : Steady(v)) /\ pc'[w] = "snapshot" /\ on'[w] = o /\ seen'[w] = seen[w]
    <3>1. "snapshot" \in PC /\ o \in Order \cup Lot \cup {None} /\ seen[w] \in Seen
      BY Typed DEF PC
    <3> QED
      BY <1>2, <3>1, Moves DEF Goto
  <2>2. LocksOK' /\ KeepsLocks(w) /\ headerLock'[o] = w
    BY <1>2 DEF IInv, LocksOK, KeepsLocks
  <2>3. seen[w].lot = None /\ OnReservation(w)
    BY <1>2, Typed DEF Relied, OnNothing
  <2>4. Heading(w)'
    BY <1>2, <2>1, <2>2 DEF Heading, HeaderFree, data, allocVars
  <2>5. OnReservation(w)'
    BY <1>2, <2>1, <2>3, <2>4 DEF OnReservation
  <2>6. Relied(w)'
    BY <2>1, <2>3, <2>5 DEF Relied, OnSale, OnLotSale, OnDispatch, OnOrder, OnRecall, OnNothing, Creating
  <2> QED
    BY <1>2, <2>1, <2>2, <2>3, <2>6, PlainKeeps DEF Creating
<1>3. pc[w] = "header" => on[w] \in Order
  BY Typed DEF Relied, OnReservation
<1> QED
  BY <1>1, <1>2, <1>3 DEF Header

\* The reserved sums a request reads are whole units.
LEMMA ReservedSumInt ==
  ASSUME IInv
  PROVE  ReservedSum \in [Lot -> Int]
<1>1. ASSUME NEW l \in Lot PROVE SumOf([o \in Order |-> Active(o)[l]], Order) \in Int
  <2> DEFINE f == [o \in Order |-> Active(o)[l]]
  <2>1. Ints(f, Order) /\ IsFiniteSet(Order)
    BY DEF Ints, Active, IInv, DataOK, AllocOK, LotAssumption
  <2> HIDE DEF f
  <2>2. SumOf(f, Order) \in Int
    BY <2>1, SumInt
  <2> QED
    BY <2>2 DEF f
<1> QED
  BY <1>1 DEF ReservedSum

\* The reserving statement fixes the reserved sums it will net off.
LEMMA SnapshotKeeps ==
  ASSUME IInv, NEW w \in Worker, Snapshot(w)
  PROVE  IInv'
<1> DEFINE open == {l \in InStatus("APPROVED") : ~Recalled(l)}
           r == [seen[w] EXCEPT !.read = ReservedSum, !.open = open]
<1>1. pc[w] = "snapshot" /\ Goto(w, "reserve") /\ See(w, r) /\ UNCHANGED <<data, locks>>
  BY DEF Snapshot
<1>2. open \in SUBSET Lot /\ ReservedSum \in [Lot -> Int]
  BY ReservedSumInt DEF InStatus
<1> HIDE DEF open
<1>3. seen[w].lot = None /\ OnReservation(w) /\ seen[w] \in Seen /\ on[w] \in Order \cup Lot \cup {None}
  BY <1>1, Typed DEF Relied, OnNothing
<1>4. r \in Seen /\ r.lot = seen[w].lot /\ r.to = seen[w].to /\ r.fresh = seen[w].fresh
  BY ONLY <1>2, <1>3 DEF Seen
<1> HIDE DEF r
<1>5. RequestsOK' /\ (\A v \in Worker \ {w} : Steady(v)) /\ pc'[w] = "reserve" /\ on'[w] = on[w] /\ seen'[w] = r
  <2>1. "reserve" \in PC
    BY DEF PC
  <2> QED
    BY ONLY IInv, w \in Worker, <1>1, <1>3, <1>4, <2>1, Moves DEF Goto, See
<1>6. OnReservation(w)'
  BY <1>1, <1>3, <1>4, <1>5 DEF OnReservation, Heading, data, allocVars, locks
<1>7. Relied(w)'
  BY <1>3, <1>4, <1>5, <1>6 DEF Relied, OnSale, OnLotSale, OnDispatch, OnOrder, OnRecall, OnNothing, Creating
<1> QED
  BY <1>1, <1>3, <1>4, <1>5, <1>7, NoLocking, PlainKeeps DEF Creating

\* What a reservation leaves to an opening lot goes with what the lots gave.
LEMMA WithOpeningLot ==
  ASSUME NEW f \in [Lot -> Nat], NEW l \in Lot, f[l] = 0, NEW left \in Nat, NEW q,
         SumOf(f, Lot) + left = q
  PROVE  [f EXCEPT ![l] = left] \in [Lot -> Nat] /\ SumOf([f EXCEPT ![l] = left], Lot) = q
<1> DEFINE g == [f EXCEPT ![l] = left]
<1>1. g \in [Lot -> Nat] /\ g[l] = left /\ \A m \in Lot \ {l} : g[m] = f[m]
  OBVIOUS
<1> HIDE DEF g
<1>2. Ints(f, Lot) /\ g[l] \in Int /\ IsFiniteSet(Lot)
  BY <1>1, LotsInOrder DEF Ints
<1>3. SumOf(g, Lot) = SumOf(f, Lot) + g[l] - f[l]
  BY ONLY <1>1, <1>2, l \in Lot, SumChange
<1>4. SumOf(g, Lot) = q
  BY <1>1, <1>3, TotalNat
<1> QED
  BY <1>1, <1>4 DEF g

\* It locks the lots, and decides what to allocate from each and from an opening lot.
LEMMA ReserveKeeps ==
  ASSUME IInv, NEW w \in Worker, Reserve(w)
  PROVE  IInv'
<1> DEFINE lots == {l \in seen[w].open : lotStatus[l] = "APPROVED"}
           avail == Only(Minus(lotQty, seen[w].read), lots)
           f == Fifo(avail, Qty[on[w]])
           p == IF seen[w].to = "APPROVED" THEN "reserveWrite" ELSE "consume"
<1>1. CASE Abort(w)
  BY <1>1, AbortKeeps
<1>2. pc[w] = "reserve"
  BY DEF Reserve
<1>3. /\ seen[w] \in Seen /\ on[w] \in Order /\ seen[w].lot = None /\ Heading(w)
      /\ \/ seen[w].to = "APPROVED" /\ "approve" \in Ops
         \/ seen[w].to = "DISPATCHED" /\ "dispatch" \in Ops /\ seen[w].fresh
  BY <1>2, Typed DEF Relied, OnNothing, OnReservation
<1>4. lots \in SUBSET Lot /\ avail \in [Lot -> Int] /\ \A l \in Lot : avail[l] > 0 => l \in lots
  BY Typed DEF Only, Minus
<1>5. /\ f.took \in [Lot -> Nat] /\ f.left \in Nat /\ SumOf(f.took, Lot) + f.left = Qty[on[w]]
      /\ \A l \in Lot : f.took[l] > 0 => l \in lots
  <2>1. Qty[on[w]] \in Nat
    BY <1>3 DEF LotAssumption
  <2> HIDE DEF avail, lots
  <2> QED
    BY <1>4, <2>1, FifoTakes
<1>6. ASSUME NEW r \in Seen, LockLots(w, lots), See(w, r), Goto(w, p), UNCHANGED <<data, itemLock, headerLock, recallLock>>,
             SumOf(r.took, Lot) = Qty[on[w]], r.to = seen[w].to, r.fresh = seen[w].fresh,
             \A l \in Lot : r.took[l] > 0 => l \in lots \/ l = r.lot,
             \/ r.lot = None
             \/ lotStatus[r.lot] = "none" /\ \A v \in Worker : seen[v].lot # r.lot
      PROVE  IInv'
  <2>1. RequestsOK' /\ (\A v \in Worker \ {w} : Steady(v)) /\ pc'[w] = p /\ on'[w] = on[w] /\ seen'[w] = r
    <3>1. p \in PC /\ on[w] \in Order \cup Lot \cup {None}
      BY <1>3 DEF PC
    <3> HIDE DEF p, lots
    <3>2. pc' = [pc EXCEPT ![w] = p] /\ on' = on /\ seen' = [seen EXCEPT ![w] = r] /\ r \in Seen
      BY <1>6 DEF Goto, See
    <3> QED
      BY ONLY IInv, w \in Worker, <3>1, <3>2, Moves
  <2>2. LocksOK' /\ KeepsLocks(w) /\ \A l \in lots : lotLock'[l] = w
    <3> HIDE DEF lots
    <3> QED
      BY <1>4, <1>6, Locking
  <2>3. Heading(w)' /\ Whole(w)'
    BY <1>3, <1>6, <2>1 DEF Heading, Whole, data, allocVars
  <2>4. OnReservation(w)' /\ OnDispatch(w)'
    <3> HIDE DEF lots
    <3> QED
      BY <1>3, <1>6, <2>1, <2>2, <2>3 DEF OnReservation, OnDispatch
  <2>5. OnNothing(w)'
    BY <1>3, <1>6, <2>1 DEF OnNothing, Creating, data, stockVars
  <2>6. Relied(w)'
    BY <1>3, <2>1, <2>4, <2>5 DEF Relied, OnSale, OnLotSale, OnOrder, OnRecall
  <2>7. \A v \in Worker \ {w} : Creating(v) => seen'[w].lot # seen[v].lot
    BY <1>6, <2>1 DEF Creating
  <2>8. Creating(w)' => \A v \in Worker \ {w} : seen[v].lot # seen'[w].lot
    BY <1>6, <2>1 DEF Creating
  <2>9. SaleExplained'
    <3>1. recall' = recall /\ lotStatus' = lotStatus /\ pc'[w] \notin {"recallBlended", "recallWrite"}
      BY <1>6, <2>1 DEF data, stockVars, recallVars
    <3> QED
      BY <2>1, <3>1, ExplainedKept
  <2> QED
    BY <1>6, <2>1, <2>2, <2>6, <2>7, <2>8, <2>9, ControlKeeps
<1>7. ASSUME f.left = 0, LockLots(w, lots), See(w, [seen[w] EXCEPT !.took = f.took]), Goto(w, p),
             UNCHANGED <<data, itemLock, headerLock, recallLock>>
      PROVE  IInv'
  <2> DEFINE took == f.took
             r == [seen[w] EXCEPT !.took = took]
  <2>1. took \in [Lot -> Nat] /\ SumOf(took, Lot) = Qty[on[w]] /\ \A l \in Lot : took[l] > 0 => l \in lots
    <3>1. took \in [Lot -> Nat] /\ SumOf(took, Lot) + 0 = Qty[on[w]] /\ \A l \in Lot : took[l] > 0 => l \in lots
      BY <1>5, <1>7
    <3> HIDE DEF took
    <3> QED
      BY <3>1, TotalNat
  <2>2. See(w, r)
    BY <1>7
  <2> HIDE DEF took
  <2>3. r \in Seen /\ r.to = seen[w].to /\ r.fresh = seen[w].fresh /\ r.took = took /\ r.lot = seen[w].lot
    BY ONLY <1>3, <2>1 DEF Seen
  <2> HIDE DEF r, lots, p, f
  <2> QED
    BY <1>3, <1>6, <1>7, <2>1, <2>2, <2>3
<1>8. ASSUME NEW l \in InStatus("none"), \A v \in Worker : seen[v].lot # l, LockLots(w, lots), Goto(w, p),
             See(w, [seen[w] EXCEPT !.took = [f.took EXCEPT ![l] = f.left], !.lot = l, !.qty = Unbatched]),
             UNCHANGED <<data, itemLock, headerLock, recallLock>>
      PROVE  IInv'
  <2> DEFINE took == [f.took EXCEPT ![l] = f.left]
             q == Unbatched
             r == [seen[w] EXCEPT !.took = took, !.lot = l, !.qty = q]
  <2>1. l \in Lot /\ lotStatus[l] = "none" /\ l \notin lots
    BY DEF InStatus
  <2>2. f.took[l] = 0
    <3> DEFINE g == f.took
    <3>1. g \in [Lot -> Nat] /\ \A m \in Lot : g[m] > 0 => m \in lots
      BY <1>5
    <3> HIDE DEF g, lots
    <3> QED
      BY <2>1, <3>1 DEF g
  <2>3. took \in [Lot -> Nat] /\ SumOf(took, Lot) = Qty[on[w]] /\ \A m \in Lot : took[m] > 0 => m \in lots \/ m = l
    <3> DEFINE g == f.took left == f.left
    <3>1. g \in [Lot -> Nat] /\ left \in Nat /\ SumOf(g, Lot) + left = Qty[on[w]] /\ g[l] = 0
          /\ \A m \in Lot : g[m] > 0 => m \in lots
      BY <1>5, <2>2
    <3>2. took = [g EXCEPT ![l] = left]
      OBVIOUS
    <3> HIDE DEF g, left, lots, took
    <3>3. took \in [Lot -> Nat] /\ SumOf(took, Lot) = Qty[on[w]]
      BY <2>1, <3>1, <3>2, WithOpeningLot
    <3>4. \A m \in Lot : took[m] > 0 => m \in lots \/ m = l
      BY <2>1, <3>1, <3>2
    <3> QED
      BY <3>3, <3>4
  <2>4. q \in Nat
    <3> DEFINE S == InStatus("APPROVED")
    <3>1. IsFiniteSet(S) /\ Ints(lotQty, S)
      BY LotsInOrder, FS_Subset, Typed DEF InStatus, Ints
    <3> HIDE DEF S
    <3>2. SumOf(lotQty, S) \in Int /\ stock \in Int
      BY <3>1, SumInt DEF IInv, DataOK, LotsOK
    <3> QED
      BY <3>2 DEF Unbatched, Positive, S
  <2>5. See(w, r)
    BY <1>8
  <2> HIDE DEF took, q
  <2>6. r \in Seen /\ r.to = seen[w].to /\ r.fresh = seen[w].fresh /\ r.took = took /\ r.lot = l
    BY ONLY <1>3, <2>1, <2>3, <2>4 DEF Seen
  <2> HIDE DEF r, lots, p, f
  <2> QED
    BY <1>3, <1>6, <1>8, <2>1, <2>3, <2>5, <2>6
<1> QED
  BY <1>1, <1>7, <1>8 DEF Reserve

\* A dispatch reads the order.
LEMMA DispatchReadKeeps ==
  ASSUME IInv, NEW w \in Worker, NEW o \in Order, DispatchRead(w, o)
  PROVE  IInv'
<1> DEFINE r == [NothingSeen EXCEPT !.to = "DISPATCHED"]
<1>1. r \in Seen /\ r.lot = None /\ r.to = "DISPATCHED"
  <2>1. NothingSeen \in Seen /\ NothingSeen.lot = None /\ "DISPATCHED" \in OrderStatus
    BY Typed DEF NothingSeen, OrderStatus
  <2> QED
    BY ONLY <2>1 DEF Seen
<1> HIDE DEF r
<1>2. pc' = [pc EXCEPT ![w] = "dispatch"] /\ on' = [on EXCEPT ![w] = o] /\ "dispatch" \in Ops
      /\ seen' = [seen EXCEPT ![w] = r] /\ UNCHANGED <<data, locks>>
  BY DEF DispatchRead, Start, See, r
<1>3. RequestsOK' /\ (\A v \in Worker \ {w} : Steady(v)) /\ pc'[w] = "dispatch" /\ on'[w] = o /\ seen'[w] = r
  <2>1. "dispatch" \in PC /\ o \in Order \cup Lot \cup {None}
    BY DEF PC
  <2> QED
    BY <1>1, <1>2, <2>1, Moves
<1>4. Relied(w)'
  BY <1>1, <1>2, <1>3 DEF Relied, OnSale, OnLotSale, OnReservation, OnDispatch, OnOrder, OnRecall, OnNothing, Creating
<1> QED
  BY <1>1, <1>2, <1>3, <1>4, NoLocking, PlainKeeps DEF Creating

\* It finds an active reservation, or goes to make one.
LEMMA DispatchBeginKeeps ==
  ASSUME IInv, NEW w \in Worker, DispatchBegin(w)
  PROVE  IInv'
<1> DEFINE held == reservation[on[w]] = "ACTIVE"
           b == ~held
           p == IF held THEN "consume" ELSE "header"
           r == [seen[w] EXCEPT !.fresh = b]
<1>1. CASE Abort(w)
  BY <1>1, AbortKeeps
<1>2. ASSUME pc[w] = "dispatch", Goto(w, p), See(w, r), UNCHANGED <<data, locks>>
      PROVE  IInv'
  <2>1. /\ seen[w] \in Seen /\ seen[w].lot = None /\ on[w] \in Order /\ "dispatch" \in Ops
        /\ seen[w].to = "DISPATCHED" /\ b \in BOOLEAN /\ ((p = "consume" /\ ~b) \/ (p = "header" /\ b))
    BY <1>2, Typed DEF Relied, OnNothing, OnDispatch
  <2> HIDE DEF b, held, p
  <2>2. r \in Seen /\ r.lot = seen[w].lot /\ r.to = seen[w].to /\ r.fresh = b
    BY ONLY <2>1 DEF Seen
  <2> HIDE DEF r
  <2>3. RequestsOK' /\ (\A v \in Worker \ {w} : Steady(v)) /\ pc'[w] = p /\ on'[w] = on[w] /\ seen'[w] = r
    <3>1. p \in PC /\ on[w] \in Order \cup Lot \cup {None}
      BY <2>1 DEF PC
    <3> QED
      BY ONLY IInv, w \in Worker, <1>2, <2>2, <3>1, Moves DEF Goto, See
  <2>4. OnReservation(w)' /\ OnDispatch(w)'
    BY <2>1, <2>2, <2>3 DEF OnReservation, OnDispatch
  <2>5. Relied(w)'
    BY <2>1, <2>2, <2>3, <2>4 DEF Relied, OnSale, OnLotSale, OnOrder, OnRecall, OnNothing, Creating
  <2> QED
    BY <1>2, <2>1, <2>2, <2>3, <2>5, NoLocking, PlainKeeps DEF Creating
<1> QED
  BY <1>1, <1>2 DEF DispatchBegin

\* What an active reservation holds is all of it.
LEMMA ActiveIsReserved ==
  ASSUME IInv, NEW o \in Order, reservation[o] = "ACTIVE"
  PROVE  /\ [l \in Lot |-> Positive(Active(o)[l])] \in [Lot -> Nat]
         /\ SumOf([l \in Lot |-> Positive(Active(o)[l])], Lot) = Qty[o]
<1>1. reserved[o] \in [Lot -> Nat] /\ consumed[o] = Zero /\ released[o] = Zero
  BY DEF IInv, Untouched, DataOK, AllocOK
<1>2. \A l \in Lot : Positive(Active(o)[l]) = reserved[o][l]
  BY <1>1 DEF Active, Zero, Positive
<1>3. [l \in Lot |-> Positive(Active(o)[l])] = reserved[o]
  BY <1>1, <1>2
<1>4. SumOf(reserved[o], Lot) = Qty[o]
  BY DEF IInv, ReservedOnce
<1> QED
  BY <1>1, <1>3, <1>4

\* It reads the allocations it will consume, while it holds the reservation.
LEMMA ConsumeReadKeeps ==
  ASSUME IInv, NEW w \in Worker, ConsumeRead(w)
  PROVE  IInv'
<1> DEFINE took == IF seen[w].fresh THEN seen[w].took ELSE [l \in Lot |-> Positive(Active(on[w])[l])]
           r == [seen[w] EXCEPT !.took = took]
<1>1. CASE Abort(w)
  BY <1>1, AbortKeeps
<1>2. ASSUME pc[w] = "consume", ~seen[w].fresh => reservation[on[w]] = "ACTIVE", See(w, r),
             Goto(w, "consumeWrite"), UNCHANGED <<data, locks>>
      PROVE  IInv'
  <2>1. /\ seen[w] \in Seen /\ on[w] \in Order /\ "dispatch" \in Ops /\ seen[w].to = "DISPATCHED"
        /\ seen[w].fresh => Heading(w) /\ Whole(w)
        /\ seen[w].lot # None => lotStatus[seen[w].lot] = "none"
    BY <1>2, Typed DEF Relied, OnNothing, OnDispatch, Creating
  <2>2. took \in [Lot -> Nat] /\ SumOf(took, Lot) = Qty[on[w]]
    BY <1>2, <2>1, Typed, ActiveIsReserved DEF Whole
  <2> HIDE DEF took
  <2>3. r \in Seen /\ r.lot = seen[w].lot /\ r.to = seen[w].to /\ r.fresh = seen[w].fresh /\ r.took = took
    BY ONLY <2>1, <2>2 DEF Seen
  <2> HIDE DEF r
  <2>4. RequestsOK' /\ (\A v \in Worker \ {w} : Steady(v)) /\ pc'[w] = "consumeWrite" /\ on'[w] = on[w] /\ seen'[w] = r
    <3>1. "consumeWrite" \in PC /\ on[w] \in Order \cup Lot \cup {None}
      BY <2>1 DEF PC
    <3>2. pc' = [pc EXCEPT ![w] = "consumeWrite"] /\ on' = on /\ seen' = [seen EXCEPT ![w] = r]
      BY <1>2 DEF Goto, See
    <3> QED
      BY ONLY IInv, w \in Worker, <2>3, <3>1, <3>2, Moves
  <2>5. Whole(w)' /\ (Heading(w) => Heading(w)')
    BY <1>2, <2>2, <2>3, <2>4 DEF Whole, Heading, data, allocVars, locks
  <2>6. OnDispatch(w)'
    BY <1>2, <2>1, <2>3, <2>4, <2>5 DEF OnDispatch, data, allocVars
  <2>7. OnNothing(w)'
    BY <1>2, <2>1, <2>3, <2>4 DEF OnNothing, Creating, data, stockVars
  <2>8. Relied(w)'
    BY <2>4, <2>6, <2>7 DEF Relied, OnSale, OnLotSale, OnReservation, OnOrder, OnRecall
  <2> QED
    BY <1>2, <2>3, <2>4, <2>8, NoLocking, PlainKeeps DEF Creating
<1> QED
  BY <1>1, <1>2 DEF ConsumeRead

\* A cancelling reads the allocations it will give back.
LEMMA CancelReadKeeps ==
  ASSUME IInv, NEW w \in Worker, NEW o \in Order, CancelRead(w, o)
  PROVE  IInv'
<1> DEFINE held == reservation[o] = "ACTIVE"
           took == IF held THEN [l \in Lot |-> Positive(Active(o)[l])] ELSE Zero
           r == [NothingSeen EXCEPT !.fresh = held, !.took = took]
<1>1. pc' = [pc EXCEPT ![w] = "cancel"] /\ on' = [on EXCEPT ![w] = o]
      /\ seen' = [seen EXCEPT ![w] = r] /\ UNCHANGED <<data, locks>>
  BY DEF CancelRead, Start, See
<1>2. took \in [Lot -> Nat] /\ held \in BOOLEAN /\ (held => reservation[o] # "none") /\ (~held => took = Zero)
  BY ActiveIsReserved DEF Zero
<1>3. NothingSeen \in Seen /\ NothingSeen.lot = None
  BY Typed DEF NothingSeen
<1> HIDE DEF held, took
<1>4. r \in Seen /\ r.lot = None /\ r.fresh = held /\ r.took = took
  BY ONLY <1>2, <1>3 DEF Seen
<1> HIDE DEF r
<1>5. RequestsOK' /\ (\A v \in Worker \ {w} : Steady(v)) /\ pc'[w] = "cancel" /\ on'[w] = o /\ seen'[w] = r
  <2>1. "cancel" \in PC /\ o \in Order \cup Lot \cup {None}
    BY DEF PC
  <2> QED
    BY <1>1, <1>4, <2>1, Moves
<1>6. OnOrder(w)'
  BY <1>1, <1>2, <1>4, <1>5 DEF OnOrder, data, allocVars
<1>7. Relied(w)'
  BY <1>4, <1>5, <1>6 DEF Relied, OnSale, OnLotSale, OnReservation, OnDispatch, OnRecall, OnNothing, Creating
<1> QED
  BY <1>1, <1>4, <1>5, <1>7, NoLocking, PlainKeeps DEF Creating

\* A delivery reads the order.
LEMMA DeliverReadKeeps ==
  ASSUME IInv, NEW w \in Worker, NEW o \in Order, DeliverRead(w, o)
  PROVE  IInv'
<1>1. pc' = [pc EXCEPT ![w] = "deliver"] /\ on' = [on EXCEPT ![w] = o] /\ pc[w] = "idle"
      /\ UNCHANGED <<data, locks, seen>> /\ status[o] = "DISPATCHED"
  BY DEF DeliverRead, Start, Receivable
<1>2. seen[w] \in Seen /\ seen[w] = NothingSeen /\ seen[w].lot = None
  BY <1>1, Typed DEF Relied, OnNothing, NothingSeen
<1>3. RequestsOK' /\ (\A v \in Worker \ {w} : Steady(v)) /\ pc'[w] = "deliver" /\ on'[w] = o /\ seen'[w] = seen[w]
  <2>1. "deliver" \in PC /\ o \in Order \cup Lot \cup {None}
    BY DEF PC
  <2> QED
    BY ONLY ZenonT(30), IInv, w \in Worker, <1>1, <1>2, <2>1, Moves
<1>4. SumOf(consumed[o], Lot) >= Qty[o] /\ consumed' = consumed
  BY <1>1 DEF IInv, Left, data, allocVars
<1>5. OnOrder(w)'
  BY <1>3, <1>4 DEF OnOrder
<1>6. Relied(w)'
  BY <1>2, <1>3, <1>5 DEF Relied, OnSale, OnLotSale, OnReservation, OnDispatch, OnRecall, OnNothing, Creating
<1> QED
  BY <1>1, <1>2, <1>3, <1>6, NoLocking, PlainKeeps DEF Creating

\* Another change of status reads the order.
LEMMA StatusReadKeeps ==
  ASSUME IInv, NEW w \in Worker, NEW o \in Order, NEW s \in {"PENDING", "APPROVED", "IN_PRODUCTION"},
         StatusRead(w, o, s)
  PROVE  IInv'
<1> DEFINE r == [NothingSeen EXCEPT !.to = s]
<1>1. r \in Seen /\ r.lot = None /\ r.to = s
  <2>1. NothingSeen \in Seen /\ NothingSeen.lot = None /\ s \in OrderStatus
    BY Typed DEF NothingSeen, OrderStatus
  <2> QED
    BY ONLY <2>1 DEF Seen
<1> HIDE DEF r
<1>2. pc' = [pc EXCEPT ![w] = "setStatus"] /\ on' = [on EXCEPT ![w] = o]
      /\ seen' = [seen EXCEPT ![w] = r] /\ UNCHANGED <<data, locks>>
  BY DEF StatusRead, Start, See, r
<1>3. RequestsOK' /\ (\A v \in Worker \ {w} : Steady(v)) /\ pc'[w] = "setStatus" /\ on'[w] = o /\ seen'[w] = r
  <2>1. "setStatus" \in PC /\ o \in Order \cup Lot \cup {None}
    BY DEF PC
  <2> QED
    BY <1>1, <1>2, <2>1, Moves
<1>4. Relied(w)'
  BY <1>1, <1>2, <1>3 DEF Relied, OnSale, OnLotSale, OnReservation, OnDispatch, OnOrder, OnRecall, OnNothing, Creating
<1> QED
  BY <1>1, <1>2, <1>3, <1>4, NoLocking, PlainKeeps DEF Creating

-----------------------------------------------------------------------------
(* Recalls: the steps that read and lock. *)

\* A recall locks its own row.
LEMMA RecallReadKeeps ==
  ASSUME IInv, NEW w \in Worker, NEW l \in Lot, RecallRead(w, l)
  PROVE  IInv'
<1>1. pc' = [pc EXCEPT ![w] = "recall"] /\ on' = [on EXCEPT ![w] = l] /\ pc[w] = "idle"
      /\ UNCHANGED <<data, itemLock, lotLock, headerLock, seen>> /\ recallLock' = [recallLock EXCEPT ![l] = w]
      /\ recallLock[l] = None /\ l \in Lot \ Spare /\ lotStatus[l] # "none" /\ ~Recalled(l)
  BY DEF RecallRead, Start, Recalled
<1>2. seen[w] \in Seen /\ seen[w] = NothingSeen /\ seen[w].lot = None
  BY <1>1, Typed DEF Relied, OnNothing, NothingSeen
<1>3. RequestsOK' /\ (\A v \in Worker \ {w} : Steady(v)) /\ pc'[w] = "recall" /\ on'[w] = l /\ seen'[w] = seen[w]
  <2>1. "recall" \in PC /\ l \in Order \cup Lot \cup {None}
    BY DEF PC
  <2> QED
    BY <1>1, <1>2, <2>1, Moves
<1>4. LocksOK' /\ KeepsLocks(w) /\ recallLock'[l] = w
  BY <1>1 DEF IInv, LocksOK, KeepsLocks
<1>5. OnRecall(w)'
  BY <1>1, <1>3, <1>4 DEF OnRecall, Recalled, data, stockVars, recallVars
<1>6. Relied(w)'
  BY <1>2, <1>3, <1>5 DEF Relied, OnSale, OnLotSale, OnReservation, OnDispatch, OnOrder, OnNothing, Creating
<1> QED
  BY <1>1, <1>2, <1>3, <1>4, <1>6, PlainKeeps DEF Creating

\* Sales stay explained when a recall that advances passes only lots that are not for sale.
LEMMA ExplainedPassed ==
  ASSUME IInv, UNCHANGED <<data, on>>,
         \A v \in Worker, m \in Lot : lotStatus[m] = "APPROVED" /\ Passed(v, m)' => Passed(v, m)
  PROVE  SaleExplained'
<1>1. recall' = recall /\ lotStatus' = lotStatus /\ on' = on
  BY DEF data, stockVars, recallVars
<1>2. ASSUME NEW m \in Lot, lotStatus[m] = "APPROVED", Reached(m)' PROVE \E k \in Lot : PutBack(k, m)'
  <2>1. Reached(m)
    BY <1>1, <1>2 DEF Reached, Recalled
  <2>2. PICK k \in Lot : PutBack(k, m)
    BY <1>2, <2>1 DEF IInv, SaleExplained
  <2>3. PutBack(k, m)'
    BY <1>1, <1>2, <2>2 DEF PutBack
  <2> QED
    BY <2>3
<1> QED
  BY <1>1, <1>2 DEF SaleExplained, IInv

\* It locks the lot of its batch.
LEMMA RecallOwnKeeps ==
  ASSUME IInv, NEW w \in Worker, RecallOwn(w)
  PROVE  IInv'
<1>1. PICK l \in Lot \ Spare : l = on[w] /\ lotStatus[l] # "none" /\ recallLock[l] = w /\ ~Recalled(l)
  BY Typed DEF RecallOwn, Relied, OnRecall
<1> DEFINE read == Only(lotQty, {l})
           open == {l} \cap InStatus("APPROVED")
           r == [NothingSeen EXCEPT !.read = read, !.open = open]
<1>2. pc[w] = "recall" /\ LockLots(w, {l}) /\ pc' = [pc EXCEPT ![w] = "recallBlended"] /\ on' = on
      /\ seen' = [seen EXCEPT ![w] = r] /\ UNCHANGED <<data, itemLock, headerLock, recallLock>>
  BY <1>1 DEF RecallOwn, See, Goto
<1>3. read \in [Lot -> Int] /\ read[l] = lotQty[l] /\ \A m \in Lot \ {l} : read[m] = 0
  BY Typed DEF Only
<1>4. open \in SUBSET Lot /\ open \subseteq {l} /\ \A m \in Lot : (m \in open) <=> (m = l /\ lotStatus[m] = "APPROVED")
  BY DEF InStatus
<1> HIDE DEF read, open
<1>5. r \in Seen /\ r.lot = None /\ r.read = read /\ r.open = open
  <2>1. NothingSeen \in Seen /\ NothingSeen.lot = None
    BY Typed DEF NothingSeen
  <2> QED
    BY ONLY <1>3, <1>4, <2>1 DEF Seen
<1> HIDE DEF r
<1>6. RequestsOK' /\ (\A v \in Worker \ {w} : Steady(v)) /\ pc'[w] = "recallBlended" /\ on'[w] = l /\ seen'[w] = r
  <2>1. "recallBlended" \in PC /\ l \in Order \cup Lot \cup {None}
    BY DEF PC
  <2> QED
    BY ONLY ZenonT(30), IInv, w \in Worker, <1>1, <1>2, <1>5, <2>1, Moves
<1>7. LocksOK' /\ KeepsLocks(w) /\ lotLock'[l] = w
  BY <1>2, Locking
<1>8. lotQty' = lotQty /\ lotStatus' = lotStatus /\ recall' = recall /\ recallLock' = recallLock
  BY <1>2 DEF data, stockVars, recallVars
<1>9. OnRecall(w)'
  <2>1. \A m \in seen'[w].open : Mine(w, m)'
    BY <1>3, <1>4, <1>5, <1>6, <1>7, <1>8 DEF Mine
  <2> QED
    BY <1>1, <1>3, <1>4, <1>5, <1>6, <1>7, <1>8, <2>1 DEF OnRecall, Recalled
<1>10. Relied(w)'
  BY <1>5, <1>6, <1>9 DEF Relied, OnSale, OnLotSale, OnReservation, OnDispatch, OnOrder, OnNothing, Creating
<1>11. SaleExplained'
  <2>1. ASSUME NEW v \in Worker, NEW m \in Lot, lotStatus[m] = "APPROVED", Passed(v, m)' PROVE Passed(v, m)
    <3>1. CASE v = w
      BY <1>4, <1>5, <1>6, <2>1, <3>1 DEF Passed
    <3>2. CASE v # w
      BY <1>6, <2>1, <3>2 DEF Passed, Steady
    <3> QED
      BY <3>1, <3>2
  <2> QED
    BY <1>2, <2>1, ExplainedPassed
<1>12. \A v \in Worker \ {w} : Creating(v) => seen'[w].lot # seen[v].lot
  BY <1>5, <1>6 DEF Creating
<1> QED
  BY <1>2, <1>6, <1>7, <1>10, <1>11, <1>12, ControlKeeps DEF Creating

\* It locks the lots packed from the batch.
LEMMA RecallBlendedKeeps ==
  ASSUME IInv, NEW w \in Worker, RecallBlended(w)
  PROVE  IInv'
<1>1. PICK l \in Lot \ Spare : l = on[w] /\ lotStatus[l] # "none" /\ recallLock[l] = w /\ ~Recalled(l) /\ lotLock[l] = w
                               /\ (\A m \in seen[w].open : Mine(w, m)) /\ seen[w].open \subseteq {l}
                               /\ \A m \in Lot \ {l} : seen[w].read[m] = 0
  BY Typed DEF RecallBlended, Relied, OnRecall
<1> DEFINE lots == Blended[l] \cap InStatus("APPROVED")
           read == Plus(seen[w].read, Only(lotQty, lots))
           open == seen[w].open \cup lots
           r == [seen[w] EXCEPT !.read = read, !.open = open]
<1>2. pc[w] = "recallBlended" /\ LockLots(w, lots) /\ pc' = [pc EXCEPT ![w] = "recallWrite"] /\ on' = on
      /\ UNCHANGED <<data, itemLock, headerLock, recallLock>>
  BY <1>1 DEF RecallBlended, Goto
<1>3. seen' = [seen EXCEPT ![w] = r]
  BY <1>1 DEF RecallBlended, See
<1>4. lots \in SUBSET Lot /\ l \notin lots
      /\ \A m \in Lot : (m \in lots) <=> (m \in Blended[l] /\ lotStatus[m] = "APPROVED")
  BY DEF InStatus, LotAssumption
<1> HIDE DEF lots
<1>5. read \in [Lot -> Int] /\ open \in SUBSET Lot
  BY <1>4, Typed DEF Plus, Only
<1>6. \A m \in open : read[m] = lotQty[m]
  <2> SUFFICES ASSUME NEW m \in open PROVE read[m] = lotQty[m]
    OBVIOUS
  <2>1. m \in Lot /\ lotQty[m] \in Int /\ seen[w].read[m] \in Int
    BY <1>5, Typed
  <2>4. read[m] = seen[w].read[m] + (IF m \in lots THEN lotQty[m] ELSE 0)
    BY <2>1 DEF Plus, Only
  <2> HIDE DEF read
  <2>2. CASE m \in lots
    <3>1. seen[w].read[m] = 0
      BY <1>1, <1>4, <2>1, <2>2
    <3> QED
      BY <2>1, <2>2, <2>4, <3>1
  <2>3. CASE m \notin lots
    <3>1. seen[w].read[m] = lotQty[m]
      BY <1>1, <2>3 DEF Mine
    <3> QED
      BY <2>1, <2>3, <2>4, <3>1
  <2> QED
    BY <2>2, <2>3
<1>7. seen[w] \in Seen /\ seen[w].lot = None
  BY <1>2, Typed DEF Relied, OnNothing
<1> HIDE DEF read
<1>8. open = seen[w].open \cup lots
  OBVIOUS
<1> HIDE DEF open
<1>9. r \in Seen /\ r.lot = seen[w].lot /\ r.read = read /\ r.open = open
  BY ONLY <1>5, <1>7 DEF Seen
<1> HIDE DEF r
<1>10. RequestsOK' /\ (\A v \in Worker \ {w} : Steady(v)) /\ pc'[w] = "recallWrite" /\ on'[w] = l /\ seen'[w] = r
  <2>1. "recallWrite" \in PC /\ l \in Order \cup Lot \cup {None}
    BY DEF PC
  <2> QED
    BY ONLY ZenonT(30), IInv, w \in Worker, <1>1, <1>2, <1>3, <1>9, <2>1, Moves
<1>11. LocksOK' /\ KeepsLocks(w) /\ (\A m \in lots : lotLock'[m] = w) /\ \A m \in Lot : lotLock[m] = w => lotLock'[m] = w
  BY <1>2, <1>4, Locking
<1>12. lotQty' = lotQty /\ lotStatus' = lotStatus /\ recall' = recall /\ recallLock' = recallLock
  BY <1>2 DEF data, stockVars, recallVars
<1>13. OnRecall(w)'
  <2>1. ASSUME NEW m \in open PROVE Mine(w, m)'
    BY <1>1, <1>4, <1>5, <1>6, <1>8, <1>9, <1>10, <1>11, <1>12 DEF Mine
  <2> QED
    BY <1>1, <1>9, <1>10, <1>11, <1>12, <2>1 DEF OnRecall, Recalled
<1>14. Relied(w)'
  BY <1>7, <1>9, <1>10, <1>13 DEF Relied, OnSale, OnLotSale, OnReservation, OnDispatch, OnOrder, OnNothing, Creating
<1>15. SaleExplained'
  <2>1. ASSUME NEW v \in Worker, NEW m \in Lot, lotStatus[m] = "APPROVED", Passed(v, m)' PROVE Passed(v, m)
    <3>1. CASE v = w
      <4>1. m \in Scope(l) /\ m \notin open
        BY <1>9, <1>10, <2>1, <3>1 DEF Passed
      <4>2. m = l /\ m \notin seen[w].open
        BY <1>4, <1>8, <2>1, <4>1 DEF Scope
      <4> QED
        BY <1>1, <1>2, <3>1, <4>2 DEF Passed
    <3>2. CASE v # w
      BY <1>10, <2>1, <3>2 DEF Passed, Steady
    <3> QED
      BY <3>1, <3>2
  <2> QED
    BY <1>2, <2>1, ExplainedPassed
<1>16. \A v \in Worker \ {w} : Creating(v) => seen'[w].lot # seen[v].lot
  BY <1>7, <1>9, <1>10 DEF Creating
<1> QED
  BY <1>2, <1>10, <1>11, <1>14, <1>15, <1>16, ControlKeeps DEF Creating

\* The cancelling of a recall reads which lots to spare.
LEMMA ReleaseReadKeeps ==
  ASSUME IInv, NEW w \in Worker, NEW l \in Lot, ReleaseRead(w, l)
  PROVE  IInv'
<1> DEFINE open == {l} \cup {m \in Blended[l] : ~Recalled(m)}
           r == [NothingSeen EXCEPT !.open = open]
<1>1. pc' = [pc EXCEPT ![w] = "release"] /\ on' = [on EXCEPT ![w] = l] /\ seen' = [seen EXCEPT ![w] = r]
      /\ UNCHANGED <<data, itemLock, lotLock, headerLock>> /\ recallLock' = [recallLock EXCEPT ![l] = w]
      /\ recallLock[l] = None /\ Recalled(l)
  BY DEF ReleaseRead, Start, See
<1>2. open \in SUBSET Lot /\ open \subseteq Scope(l)
  BY DEF LotAssumption, Scope
<1>3. l \in Lot \ Spare
  BY <1>1 DEF IInv, SaleExplained, Recalled
<1> HIDE DEF open
<1>4. r \in Seen /\ r.lot = None /\ r.open = open
  <2>1. NothingSeen \in Seen /\ NothingSeen.lot = None
    BY Typed DEF NothingSeen
  <2> QED
    BY ONLY <1>2, <2>1 DEF Seen
<1> HIDE DEF r
<1>5. RequestsOK' /\ (\A v \in Worker \ {w} : Steady(v)) /\ pc'[w] = "release" /\ on'[w] = l /\ seen'[w] = r
  <2>1. "release" \in PC /\ l \in Order \cup Lot \cup {None}
    BY DEF PC
  <2> QED
    BY <1>1, <1>4, <2>1, Moves
<1>6. LocksOK' /\ KeepsLocks(w) /\ recallLock'[l] = w
  BY <1>1 DEF IInv, LocksOK, KeepsLocks
<1>7. OnRecall(w)'
  BY <1>1, <1>2, <1>3, <1>4, <1>5, <1>6 DEF OnRecall, Recalled, data, recallVars
<1>8. Relied(w)'
  BY <1>4, <1>5, <1>7 DEF Relied, OnSale, OnLotSale, OnReservation, OnDispatch, OnOrder, OnNothing, Creating
<1> QED
  BY <1>1, <1>4, <1>5, <1>6, <1>8, PlainKeeps DEF Creating

\* A disposal locks the recall and the lot, and checks the lot is in the recall.
LEMMA DisposeLockKeeps ==
  ASSUME IInv, NEW w \in Worker, NEW l \in Lot, NEW m \in Lot, NEW q \in Sold, DisposeLock(w, l, m, q)
  PROVE  IInv'
<1> DEFINE r == [NothingSeen EXCEPT !.qty = q]
<1>1. pc' = [pc EXCEPT ![w] = "dispose"] /\ on' = [on EXCEPT ![w] = m] /\ seen' = [seen EXCEPT ![w] = r]
      /\ UNCHANGED <<data, itemLock, headerLock>> /\ recallLock' = [recallLock EXCEPT ![l] = w]
      /\ recallLock[l] = None /\ LockLots(w, {m}) /\ lotStatus[m] = "BLOCKED"
  BY DEF DisposeLock, Start, See
<1>2. r \in Seen /\ r.lot = None
  <2>1. NothingSeen \in Seen /\ NothingSeen.lot = None /\ q \in Nat
    BY Typed DEF NothingSeen, LotAssumption
  <2> QED
    BY ONLY <2>1 DEF Seen
<1> HIDE DEF r
<1>3. RequestsOK' /\ (\A v \in Worker \ {w} : Steady(v)) /\ pc'[w] = "dispose" /\ on'[w] = m /\ seen'[w] = r
  <2>1. "dispose" \in PC /\ m \in Order \cup Lot \cup {None}
    BY DEF PC
  <2> QED
    BY <1>1, <1>2, <2>1, Moves
<1>4. LocksOK' /\ KeepsLocks(w) /\ lotLock'[m] = w
  BY <1>1 DEF IInv, LocksOK, KeepsLocks, LockLots
<1>5. OnRecall(w)'
  BY <1>1, <1>3, <1>4 DEF OnRecall, data, stockVars
<1>6. Relied(w)'
  BY <1>2, <1>3, <1>5 DEF Relied, OnSale, OnLotSale, OnReservation, OnDispatch, OnOrder, OnNothing, Creating
<1> QED
  BY <1>1, <1>2, <1>3, <1>4, <1>6, PlainKeeps DEF Creating

-----------------------------------------------------------------------------
(* The steps that write. *)

\* Steps that write no allocation.
LEMMA AllocKept ==
  ASSUME IInv, UNCHANGED allocVars
  PROVE  /\ AllocOK' /\ Untouched' /\ ReservedOnce' /\ \A l \in Lot : ReservedQty(l)' <= ReservedQty(l)
         /\ \A o \in Order : SumOf(consumed'[o], Lot) >= SumOf(consumed[o], Lot)
<1>1. UNCHANGED <<reservation, reserved, consumed, released>>
  BY DEF allocVars
<1>2. AllocOK' /\ Untouched' /\ ReservedOnce'
  BY <1>1 DEF IInv, DataOK, AllocOK, Untouched, ReservedOnce
<1>3. ASSUME NEW l \in Lot PROVE ReservedQty(l)' <= ReservedQty(l)
  <2>1. ReservedQty(l)' = ReservedQty(l) /\ ReservedQty(l) \in Nat
    BY <1>1, ReservedNat DEF ReservedQty, Active
  <2> QED
    BY <2>1
<1>4. ASSUME NEW o \in Order PROVE SumOf(consumed'[o], Lot) >= SumOf(consumed[o], Lot)
  <2>1. SumOf(consumed[o], Lot) \in Nat /\ consumed' = consumed
    BY <1>1, TotalNat DEF IInv, DataOK, AllocOK
  <2> QED
    BY <2>1
<1> QED
  BY <1>2, <1>3, <1>4

\* A step that moves stock out of lots nobody else holds.
LEMMA StockKeeps ==
  ASSUME IInv, NEW w \in Worker, End(w), UNCHANGED <<lotStatus, orderVars, allocVars, recall>>,
         LotsOK', RecallsOK', Accounted',
         \A l \in Lot : lotLock[l] \notin {None, w} => lotQty'[l] = lotQty[l]
  PROVE  IInv'
<1>1. UNCHANGED <<status, delivered>> /\ UNCHANGED <<reservation, reserved, consumed, released>>
  BY DEF orderVars, allocVars
<1>2. DataOK' /\ Left'
  BY <1>1, AllocKept DEF IInv, DataOK, OrdersOK, Left
<1>3. KeepsData(w)
  BY <1>1, AllocKept DEF KeepsData
<1>4. SaleExplained'
  BY Ends, ExplainedKept
<1>5. \A l \in Lot : lotStatus'[l] = "none" => l \in Spare
  BY DEF IInv, LotsToCome
<1> QED
  BY <1>2, <1>3, <1>4, <1>5, AllocKept, WriteKeeps

\* What a sale leaves in the lots it took from.
LEMMA Depletes ==
  ASSUME IInv, NEW w \in Worker, \A l \in Lot : seen[w].took[l] > 0 => Mine(w, l)
  PROVE  /\ Deplete(seen[w]) \in [Lot -> Int] /\ SumOf(seen[w].took, Lot) \in Nat
         /\ SumOf(Deplete(seen[w]), Lot) = SumOf(lotQty, Lot) - SumOf(seen[w].took, Lot)
         /\ SumOf(lotQty, Lot) \in Int
<1> DEFINE took == seen[w].took read == seen[w].read
<1>1. took \in [Lot -> Nat] /\ read \in [Lot -> Int] /\ lotQty \in [Lot -> Int]
  BY Typed
<1>2. \A l \in Lot : took[l] > 0 => read[l] = lotQty[l]
  BY DEF Mine
<1>3. Deplete(seen[w]) = [l \in Lot |-> IF took[l] > 0 THEN read[l] - took[l] ELSE lotQty[l]]
  BY DEF Deplete
<1> HIDE DEF took, read
<1>4. Deplete(seen[w]) = Minus(lotQty, took)
  <2>1. ASSUME NEW l \in Lot PROVE (IF took[l] > 0 THEN read[l] - took[l] ELSE lotQty[l]) = lotQty[l] - took[l]
    <3>1. took[l] \in Nat /\ lotQty[l] \in Int
      BY <1>1
    <3>2. CASE took[l] > 0
      BY <1>2, <3>2
    <3>3. CASE ~(took[l] > 0)
      BY <3>1, <3>3
    <3> QED
      BY <3>2, <3>3
  <2> QED
    BY <1>3, <2>1 DEF Minus
<1>5. Minus(lotQty, took) \in [Lot -> Int]
  BY <1>1 DEF Minus
<1>6. took \in [Lot -> Int]
  BY <1>1
<1>7. SumOf(Minus(lotQty, took), Lot) = SumOf(lotQty, Lot) - SumOf(took, Lot) /\ SumOf(lotQty, Lot) \in Int
  BY <1>1, <1>6, TotalMoves
<1>8. SumOf(took, Lot) \in Nat
  BY <1>1, TotalNat
<1> QED
  BY <1>4, <1>5, <1>7, <1>8 DEF took

\* A sale takes from the lots it locked and from the item.
LEMMA SaleWriteKeeps ==
  ASSUME IInv, NEW w \in Worker, SaleWrite(w)
  PROVE  IInv'
<1> DEFINE n == SumOf(seen[w].took, Lot)
<1>1. n <= seen[w].qty /\ \A l \in Lot : seen[w].took[l] > 0 => Mine(w, l)
  BY Typed DEF SaleWrite, Relied, OnSale
<1>2. /\ Deplete(seen[w]) \in [Lot -> Int] /\ n \in Nat /\ SumOf(lotQty, Lot) \in Int
      /\ SumOf(Deplete(seen[w]), Lot) = SumOf(lotQty, Lot) - n
  BY <1>1, Depletes
<1>3. /\ lotQty' = Deplete(seen[w]) /\ stock' = stock - seen[w].qty /\ untracked' = untracked + seen[w].qty - n
      /\ End(w) /\ UNCHANGED <<lotStatus, orderVars, allocVars, recallVars>>
  BY DEF SaleWrite
<1> HIDE DEF n
<1>4. seen[w].qty \in Nat /\ stock \in Int /\ untracked \in Nat
  BY Typed DEF IInv, DataOK, LotsOK
<1>5. LotsOK'
  <2> DEFINE q == seen[w].qty
  <2>1. q \in Nat /\ n <= q /\ stock' = stock - q /\ untracked' = untracked + q - n
    BY <1>1, <1>3, <1>4
  <2> HIDE DEF q
  <2>2. stock' \in Int /\ untracked' \in Nat
    BY <1>2, <1>4, <2>1
  <2> QED
    BY <1>2, <1>3, <2>2 DEF IInv, DataOK, LotsOK
<1>6. RecallsOK' /\ recall' = recall
  BY <1>3 DEF IInv, DataOK, RecallsOK, recallVars
<1>7. Accounted'
  <2> DEFINE total == SumOf(lotQty, Lot) q == seen[w].qty
  <2>1. SumOf(lotQty', Lot) = total - n
    BY <1>2, <1>3
  <2>2. "approve" \notin Ops /\ "dispatch" \notin Ops => stock + untracked = total
    BY DEF IInv, Accounted, StockMatchesLots
  <2>3. total \in Int /\ q \in Nat /\ stock' = stock - q /\ untracked' = untracked + q - n
    BY <1>2, <1>3, <1>4
  <2> HIDE DEF total, q
  <2> QED
    BY <1>2, <1>4, <2>1, <2>2, <2>3 DEF Accounted, StockMatchesLots
<1>8. \A l \in Lot : lotLock[l] \notin {None, w} => lotQty'[l] = lotQty[l]
  BY <1>1, <1>3 DEF Deplete, Mine
<1> QED
  BY <1>3, <1>5, <1>6, <1>7, <1>8, StockKeeps

\* A sale from a lot takes from it what was netted off.
LEMMA LotSaleWriteKeeps ==
  ASSUME IInv, NEW w \in Worker, LotSaleWrite(w)
  PROVE  IInv'
<1>1. PICK l \in Lot : Mine(w, l) /\ seen[w].took = [Zero EXCEPT ![l] = seen[w].qty]
  BY Typed DEF LotSaleWrite, Relied, OnLotSale
<1> DEFINE q == seen[w].qty
<1>2. q \in Nat /\ stock \in Int /\ untracked \in Nat
  BY Typed DEF IInv, DataOK, LotsOK
<1>3. Zero \in [Lot -> Nat] /\ Zero[l] = 0 /\ SumOf(Zero, Lot) = 0
  BY LotsInOrder, SumZero DEF Zero
<1> HIDE DEF q
<1>4. SumOf([Zero EXCEPT ![l] = q], Lot) = q
  <2>1. SumOf(Zero, Lot) + q = q
    BY <1>2, <1>3
  <2> QED
    BY <1>2, <1>3, <2>1, WithOpeningLot
<1>5. \A m \in Lot : seen[w].took[m] > 0 => m = l
  BY <1>1, <1>3 DEF Zero
<1>6. \A m \in Lot : seen[w].took[m] > 0 => Mine(w, m)
  BY <1>1, <1>5
<1>7. /\ Deplete(seen[w]) \in [Lot -> Int] /\ SumOf(lotQty, Lot) \in Int
      /\ SumOf(Deplete(seen[w]), Lot) = SumOf(lotQty, Lot) - q
  BY <1>1, <1>4, <1>6, Depletes DEF q
<1>8. /\ lotQty' = Deplete(seen[w]) /\ stock' = stock - q
      /\ End(w) /\ UNCHANGED <<lotStatus, untracked, orderVars, allocVars, recallVars>>
  BY DEF LotSaleWrite, q
<1>9. LotsOK'
  BY <1>2, <1>7, <1>8 DEF IInv, DataOK, LotsOK
<1>10. RecallsOK' /\ recall' = recall
  BY <1>8 DEF IInv, DataOK, RecallsOK, recallVars
<1>11. Accounted'
  <2> DEFINE total == SumOf(lotQty, Lot)
  <2>1. SumOf(lotQty', Lot) = total - q /\ total \in Int
    BY <1>7, <1>8
  <2>2. "approve" \notin Ops /\ "dispatch" \notin Ops => stock + untracked = total
    BY DEF IInv, Accounted, StockMatchesLots
  <2> HIDE DEF total
  <2> QED
    BY <1>2, <1>8, <2>1, <2>2 DEF Accounted, StockMatchesLots
<1>12. \A m \in Lot : lotLock[m] \notin {None, w} => lotQty'[m] = lotQty[m]
  BY <1>6, <1>8 DEF Deplete, Mine
<1> QED
  BY <1>8, <1>9, <1>10, <1>11, <1>12, StockKeeps

\* A disposal takes the units from the lot and the item, and counts them as disposed.
LEMMA DisposeWriteKeeps ==
  ASSUME IInv, NEW w \in Worker, DisposeWrite(w)
  PROVE  IInv'
<1>1. PICK m \in Lot : m = on[w] /\ lotLock[m] = w
  BY Typed DEF DisposeWrite, Relied, OnRecall
<1> DEFINE q == seen[w].qty
<1>2. q \in Nat /\ stock \in Int /\ lotQty \in [Lot -> Int] /\ disposed \in [Lot -> Nat]
  BY Typed DEF IInv, DataOK, LotsOK, RecallsOK
<1>3. /\ lotQty' = [lotQty EXCEPT ![m] = @ - q] /\ stock' = stock - q /\ disposed' = [disposed EXCEPT ![m] = @ + q]
      /\ End(w) /\ UNCHANGED <<lotStatus, untracked, orderVars, allocVars, recall, reported>>
  BY <1>1 DEF DisposeWrite
<1> HIDE DEF q
<1>4. LotsOK' /\ RecallsOK'
  BY <1>2, <1>3 DEF IInv, DataOK, LotsOK, RecallsOK
<1>5. Accounted'
  <2> DEFINE total == SumOf(lotQty, Lot)
  <2>1. lotQty' \in [Lot -> Int] /\ lotQty'[m] = lotQty[m] - q /\ \A l \in Lot \ {m} : lotQty'[l] = lotQty[l]
    BY <1>2, <1>3
  <2>2. Ints(lotQty, Lot) /\ lotQty'[m] \in Int /\ IsFiniteSet(Lot) /\ lotQty[m] \in Int
    BY <1>2, <2>1, LotsInOrder DEF Ints
  <2>3. SumOf(lotQty', Lot) = total + lotQty'[m] - lotQty[m] /\ total \in Int
    BY ONLY <2>1, <2>2, m \in Lot, SumChange, SumInt
  <2>4. "approve" \notin Ops /\ "dispatch" \notin Ops => stock + untracked = total
    BY DEF IInv, Accounted, StockMatchesLots
  <2>5. untracked \in Nat /\ untracked' = untracked
    BY <1>3 DEF IInv, DataOK, LotsOK
  <2>6. SumOf(lotQty', Lot) = total - q
    <3> DEFINE a == lotQty[m] b == lotQty'[m] t == SumOf(lotQty', Lot)
    <3>1. a \in Int /\ b = a - q /\ t = total + b - a /\ total \in Int /\ q \in Int
      BY <1>2, <2>1, <2>2, <2>3
    <3> HIDE DEF a, b, t, total
    <3>2. t = total - q
      BY ONLY <3>1
    <3> QED
      BY <3>2 DEF t
  <2> HIDE DEF total
  <2> QED
    BY <1>2, <1>3, <2>3, <2>4, <2>5, <2>6 DEF Accounted, StockMatchesLots
<1>6. \A l \in Lot : lotLock[l] \notin {None, w} => lotQty'[l] = lotQty[l]
  BY <1>1, <1>2, <1>3
<1> QED
  BY <1>3, <1>4, <1>5, <1>6, StockKeeps

\* A step that only moves orders on.
LEMMA OrderKeeps ==
  ASSUME IInv, NEW w \in Worker, End(w), UNCHANGED <<stockVars, allocVars, recallVars>>, OrdersOK', Left'
  PROVE  IInv'
<1>1. UNCHANGED <<lotQty, lotStatus, stock, untracked>> /\ UNCHANGED <<reservation, reserved, consumed, released>>
      /\ UNCHANGED <<recall, reported, disposed>>
  BY DEF stockVars, allocVars, recallVars
<1>2. DataOK' /\ Accounted'
  BY <1>1, AllocKept DEF IInv, DataOK, LotsOK, RecallsOK, Accounted, StockMatchesLots
<1>3. KeepsData(w)
  BY <1>1, AllocKept DEF KeepsData
<1>4. SaleExplained'
  BY <1>1, Ends, ExplainedKept
<1>5. \A l \in Lot : lotStatus'[l] = "none" => l \in Spare
  BY <1>1 DEF IInv, LotsToCome
<1> QED
  BY <1>2, <1>3, <1>4, <1>5, AllocKept, WriteKeeps

\* A delivery takes no stock, whatever the order has become since it was read.
LEMMA DeliverWriteKeeps ==
  ASSUME IInv, NEW w \in Worker, DeliverWrite(w)
  PROVE  IInv'
<1>1. PICK o \in Order : o = on[w] /\ SumOf(consumed[o], Lot) >= Qty[o]
  BY Typed DEF DeliverWrite, Relied, OnOrder
<1>2. /\ delivered' = [delivered EXCEPT ![o] = @ + Qty[o]] /\ status' = [status EXCEPT ![o] = "DELIVERED"]
      /\ End(w) /\ UNCHANGED <<stockVars, allocVars, recallVars>>
  BY <1>1 DEF DeliverWrite
<1>3. status \in [Order -> OrderStatus] /\ delivered \in [Order -> Nat] /\ Qty[o] \in Nat /\ consumed' = consumed
  BY <1>2 DEF IInv, DataOK, OrdersOK, LotAssumption, allocVars
<1>4. OrdersOK'
  BY <1>2, <1>3 DEF OrdersOK, OrderStatus
<1>5. Left'
  BY <1>1, <1>2, <1>3 DEF IInv, Left
<1> QED
  BY <1>2, <1>4, <1>5, OrderKeeps

\* Any other status is written over whatever the order has become.
LEMMA StatusWriteKeeps ==
  ASSUME IInv, NEW w \in Worker, StatusWrite(w)
  PROVE  IInv'
<1>1. PICK o \in Order : o = on[w] /\ seen[w].to # "DISPATCHED" /\ seen[w].to \in OrderStatus
  BY Typed DEF StatusWrite, Relied, OnOrder
<1>2. /\ status' = [status EXCEPT ![o] = seen[w].to]
      /\ End(w) /\ UNCHANGED <<stockVars, delivered, allocVars, recallVars>>
  BY <1>1 DEF StatusWrite
<1>3. status \in [Order -> OrderStatus] /\ consumed' = consumed
  BY <1>2 DEF IInv, DataOK, OrdersOK, allocVars
<1>4. OrdersOK'
  BY <1>1, <1>2, <1>3 DEF IInv, DataOK, OrdersOK
<1>5. Left'
  BY <1>1, <1>2, <1>3 DEF IInv, Left
<1> QED
  BY <1>2, <1>4, <1>5, OrderKeeps

\* Reserved quantities fall where reservations only close.
LEMMA ReservedFalls ==
  ASSUME IInv, DataOK', NEW l \in Lot,
         \A o \in Order : reservation'[o] = "ACTIVE" =>
           reservation[o] = "ACTIVE" /\ reserved'[o] = reserved[o] /\ consumed'[o] = consumed[o] /\ released'[o] = released[o]
  PROVE  ReservedQty(l)' <= ReservedQty(l)
<1> DEFINE f == [o \in Order |-> Active(o)[l]]
           S == {o \in Order : reservation[o] = "ACTIVE"}
           g == [o \in Order |-> Active(o)[l]]'
           T == {o \in Order : reservation[o] = "ACTIVE"}'
<1>1. T \in SUBSET S /\ IsFiniteSet(S) /\ IsFiniteSet(T)
  BY FS_Subset DEF LotAssumption
<1>2. Nats(f, S)
  BY DEF Nats, Active, Zero, IInv, Untouched, DataOK, AllocOK
<1>3. Ints(f, T) /\ \A o \in T : g[o] = f[o]
  BY <1>1, <1>2 DEF Nats, Ints, Active
<1>4. ReservedQty(l) = Positive(SumOf(f, S)) /\ ReservedQty(l)' = Positive(SumOf(g, T))
  BY DEF ReservedQty, Positive
<1> HIDE DEF f, g, S, T
<1>5. SumOf(g, T) = SumOf(f, T)
  BY <1>1, <1>3, SumSame
<1>6. SumOf(f, T) <= SumOf(f, S) /\ SumOf(f, S) \in Nat
  BY <1>1, <1>2, SumPart, SumNat
<1>7. SumOf(f, T) \in Int
  BY <1>1, <1>3, SumInt
<1> QED
  BY <1>4, <1>5, <1>6, <1>7 DEF Positive

\* And do not grow where a new one takes nothing.
LEMMA ReservedStays ==
  ASSUME IInv, DataOK', NEW l \in Lot, NEW o \in Order, reservation[o] = "none",
         reservation' = [reservation EXCEPT ![o] = "ACTIVE"], UNCHANGED <<consumed, released>>,
         \A p \in Order \ {o} : reserved'[p] = reserved[p],
         reserved'[o][l] = 0
  PROVE  ReservedQty(l)' <= ReservedQty(l)
<1> DEFINE f == [p \in Order |-> Active(p)[l]]
           S == {p \in Order : reservation[p] = "ACTIVE"}
           g == [p \in Order |-> Active(p)[l]]'
           T == {p \in Order : reservation[p] = "ACTIVE"}'
<1>1. T = S \cup {o} /\ IsFiniteSet(S) /\ o \notin S
  BY FS_Subset DEF LotAssumption, IInv, DataOK, AllocOK
<1>2. Ints(f, S) /\ \A p \in S : g[p] = f[p]
  <2>1. Ints(f, S)
    BY DEF Ints, Active, IInv, DataOK, AllocOK
  <2>2. ASSUME NEW p \in Order, p # o PROVE g[p] = f[p]
    <3>1. reserved'[p] = reserved[p] /\ consumed'[p] = consumed[p] /\ released'[p] = released[p]
      BY <2>2
    <3>2. g[p] = reserved'[p][l] - consumed'[p][l] - released'[p][l]
      BY DEF Active
    <3>3. f[p] = reserved[p][l] - consumed[p][l] - released[p][l]
      BY DEF Active
    <3> QED
      BY <3>1, <3>2, <3>3
  <2> QED
    BY <1>1, <2>1, <2>2
<1>3. g[o] = 0
  <2>1. consumed'[o] = Zero /\ released'[o] = Zero
    BY DEF IInv, Untouched
  <2> QED
    BY <2>1 DEF Active, Zero
<1>4. ReservedQty(l) = Positive(SumOf(f, S)) /\ ReservedQty(l)' = Positive(SumOf(g, T))
  BY DEF ReservedQty, Positive
<1> HIDE DEF f, g, S, T
<1>5. SumOf(g, S) = SumOf(f, S) /\ SumOf(f, S) \in Int
  BY <1>1, <1>2, SumSame, SumInt
<1>6. Ints(g, S \cup {o})
  BY <1>2, <1>3 DEF Ints
<1>7. SumOf(g, S \cup {o}) = g[o] + SumOf(g, S)
  BY <1>1, <1>6, SumAdd
<1>8. SumOf(g, T) = SumOf(f, S)
  BY <1>1, <1>3, <1>5, <1>7
<1> QED
  BY <1>4, <1>5, <1>8 DEF Positive

\* A cancelling gives back the allocations it read, whatever has become of them.
LEMMA CancelWriteKeeps ==
  ASSUME IInv, NEW w \in Worker, CancelWrite(w)
  PROVE  IInv'
<1>1. PICK o \in Order : o = on[w] /\ (IF seen[w].fresh THEN reservation[o] # "none" ELSE seen[w].took = Zero)
  BY Typed DEF CancelWrite, Relied, OnOrder
<1> DEFINE took == seen[w].took
<1>2. /\ released' = [released EXCEPT ![o] = Plus(@, took)]
      /\ reservation' = IF seen[w].fresh THEN [reservation EXCEPT ![o] = "RELEASED"] ELSE reservation
      /\ status' = [status EXCEPT ![o] = "CANCELLED"]
      /\ End(w) /\ UNCHANGED <<delivered, reserved, consumed>>
      /\ UNCHANGED <<lotQty, lotStatus, stock, untracked>> /\ UNCHANGED <<recall, reported, disposed>>
  BY <1>1 DEF CancelWrite, stockVars, recallVars
<1>3. took \in [Lot -> Nat] /\ DataOK
  BY Typed DEF IInv
<1> HIDE DEF took
<1>4. Plus(released[o], took) \in [Lot -> Nat] /\ (took = Zero => Plus(released[o], took) = released[o])
  <2>1. released[o] \in [Lot -> Nat]
    BY <1>3 DEF DataOK, AllocOK
  <2>2. \A l \in Lot : released[o][l] + took[l] \in Nat /\ (took = Zero => released[o][l] + took[l] = released[o][l])
    BY <1>3, <2>1 DEF Zero
  <2> QED
    BY <2>1, <2>2 DEF Plus
<1>5. released' \in [Order -> [Lot -> Nat]] /\ reservation' \in [Order -> ReservationStatus]
  BY <1>2, <1>3, <1>4 DEF DataOK, AllocOK, ReservationStatus
<1>6. DataOK' /\ Accounted'
  BY <1>2, <1>3, <1>5 DEF IInv, DataOK, LotsOK, OrdersOK, OrderStatus, AllocOK, RecallsOK, Accounted, StockMatchesLots
<1>7. \A p \in Order : reservation'[p] \in {"none", "ACTIVE"} => reservation'[p] = reservation[p] /\ released'[p] = released[p]
  BY <1>1, <1>2, <1>3, <1>4 DEF DataOK, AllocOK, took
<1>8. Untouched'
  BY <1>2, <1>7 DEF IInv, Untouched
<1>9. \A p \in Order : reservation[p] # "none" <=> reservation'[p] # "none"
  BY <1>1, <1>2, <1>3 DEF DataOK, AllocOK
<1>10. ReservedOnce'
  BY <1>2, <1>9 DEF IInv, ReservedOnce
<1>11. Left'
  BY <1>2, <1>3 DEF IInv, Left, DataOK, OrdersOK
<1>12. KeepsData(w)
  <2>1. \A l \in Lot : ReservedQty(l)' <= ReservedQty(l)
    BY <1>2, <1>6, <1>7, ReservedFalls
  <2>2. ASSUME NEW p \in Order PROVE SumOf(consumed'[p], Lot) >= SumOf(consumed[p], Lot)
    <3>1. SumOf(consumed[p], Lot) \in Nat
      BY <1>3, TotalNat DEF DataOK, AllocOK
    <3> QED
      BY <1>2, <3>1
  <2> QED
    BY <1>2, <1>9, <2>1, <2>2 DEF KeepsData
<1>13. SaleExplained'
  BY <1>2, Ends, ExplainedKept
<1>14. \A l \in Lot : lotStatus'[l] = "none" => l \in Spare
  BY <1>2 DEF IInv, LotsToCome
<1> QED
  BY <1>2, <1>6, <1>8, <1>10, <1>11, <1>12, <1>13, <1>14, WriteKeeps

\* The lots when an order's opening lot, if any, is among them.
LEMMA Creation ==
  ASSUME IInv, NEW w \in Worker, pc[w] \in {"reserveWrite", "consumeWrite"}, WithCreated(w)
  PROVE  /\ Created(w) \in [Lot -> Int] /\ lotStatus' \in [Lot -> LotStatus]
         /\ \A l \in Lot : lotStatus[l] # "none" => Created(w)[l] = lotQty[l] /\ lotStatus'[l] = lotStatus[l] /\ l # seen[w].lot
         /\ \A l \in Lot : lotStatus[l] = "none" => lotStatus'[l] = "none" \/ (Creating(w) /\ l = seen[w].lot)
         /\ \A l \in Lot : lotStatus'[l] = "APPROVED" => lotStatus[l] = "APPROVED" \/ l \in Spare
         /\ \A l \in Lot : lotStatus'[l] = "none" => l \in Spare
<1>1. /\ lotQty \in [Lot -> Int] /\ lotStatus \in [Lot -> LotStatus] /\ seen[w].qty \in Nat
      /\ seen[w].lot \in Lot \cup {None}
      /\ seen[w].lot # None => lotStatus[seen[w].lot] = "none"
  BY Typed DEF Relied, OnNothing, Creating
<1>2. \A l \in Lot : lotStatus[l] = "none" => l \in Spare
  BY DEF IInv, LotsToCome
<1>3. CASE seen[w].lot = None
  <2>1. Created(w) = lotQty /\ lotStatus' = lotStatus
    BY <1>3 DEF Created, WithCreated
  <2> QED
    BY <1>1, <1>2, <1>3, <2>1 DEF LotAssumption
<1>4. CASE seen[w].lot # None
  <2>1. PICK k \in Lot : k = seen[w].lot /\ lotStatus[k] = "none"
    BY <1>1, <1>4
  <2>2. Created(w) = [lotQty EXCEPT ![k] = seen[w].qty] /\ lotStatus' = [lotStatus EXCEPT ![k] = "APPROVED"]
    BY <1>4, <2>1 DEF Created, WithCreated
  <2>3. Creating(w)
    BY <1>4 DEF Creating
  <2> QED
    BY <1>1, <1>2, <2>1, <2>2, <2>3 DEF LotStatus
<1> QED
  BY <1>3, <1>4

\* Allocations are written with the order's status.
LEMMA ReserveWriteKeeps ==
  ASSUME IInv, NEW w \in Worker, ReserveWrite(w)
  PROVE  IInv'
<1>1. PICK o \in Order : o = on[w] /\ headerLock[o] = w /\ reservation[o] = "none" /\ "approve" \in Ops
                         /\ SumOf(seen[w].took, Lot) = Qty[o]
                         /\ \A l \in Lot : seen[w].took[l] > 0 => lotLock[l] = w \/ l = seen[w].lot
  BY Typed DEF ReserveWrite, Relied, OnReservation, Heading, Whole
<1> DEFINE took == seen[w].took
<1>2. /\ pc[w] = "reserveWrite" /\ reservation' = [reservation EXCEPT ![o] = "ACTIVE"]
      /\ reserved' = [reserved EXCEPT ![o] = Plus(@, took)] /\ lotQty' = Created(w) /\ WithCreated(w)
      /\ status' = [status EXCEPT ![o] = "APPROVED"] /\ End(w)
      /\ UNCHANGED <<stock, untracked, delivered, consumed, released>> /\ UNCHANGED <<recall, reported, disposed>>
  BY <1>1 DEF ReserveWrite, recallVars
<1>3. took \in [Lot -> Nat] /\ DataOK /\ SumOf(took, Lot) = Qty[o]
      /\ \A l \in Lot : took[l] > 0 => lotLock[l] = w \/ l = seen[w].lot
  BY <1>1, Typed DEF IInv
<1> HIDE DEF took
<1>4. /\ Created(w) \in [Lot -> Int] /\ lotStatus' \in [Lot -> LotStatus]
      /\ \A l \in Lot : lotStatus[l] # "none" => Created(w)[l] = lotQty[l] /\ lotStatus'[l] = lotStatus[l] /\ l # seen[w].lot
      /\ \A l \in Lot : lotStatus[l] = "none" => lotStatus'[l] = "none" \/ (Creating(w) /\ l = seen[w].lot)
      /\ \A l \in Lot : lotStatus'[l] = "APPROVED" => lotStatus[l] = "APPROVED" \/ l \in Spare
      /\ \A l \in Lot : lotStatus'[l] = "none" => l \in Spare
  BY <1>2, Creation
<1>5. reserved[o] \in [Lot -> Nat] /\ SumOf(reserved[o], Lot) = 0
  BY <1>1, <1>3 DEF IInv, ReservedOnce, DataOK, AllocOK
<1>6. \A l \in Lot : reserved[o][l] = 0
  <2> SUFFICES ASSUME NEW l \in Lot PROVE reserved[o][l] = 0
    OBVIOUS
  <2>1. reserved[o][l] \in Nat /\ reserved[o][l] <= 0
    BY <1>5, TotalNat
  <2> QED
    BY <2>1
<1>7. Plus(reserved[o], took) \in [Lot -> Nat] /\ \A l \in Lot : Plus(reserved[o], took)[l] = took[l]
  BY <1>3, <1>5, <1>6 DEF Plus
<1>8. Plus(reserved[o], took) = took
  BY <1>3, <1>7
<1>9. reserved' = [reserved EXCEPT ![o] = took]
  BY <1>2, <1>8
<1>10. DataOK'
  BY <1>2, <1>3, <1>4, <1>9 DEF DataOK, LotsOK, OrdersOK, OrderStatus, AllocOK, ReservationStatus, RecallsOK
<1>11. Untouched'
  BY <1>1, <1>2, <1>3 DEF IInv, Untouched, DataOK, AllocOK
<1>12. ReservedOnce'
  BY <1>2, <1>3, <1>9 DEF IInv, ReservedOnce, DataOK, AllocOK
<1>13. Left'
  BY <1>2, <1>3 DEF IInv, Left, DataOK, OrdersOK
<1>14. Accounted'
  BY <1>1 DEF Accounted
<1>15. SaleExplained'
  BY <1>2, <1>4, Ends, ExplainedKept
<1>16. KeepsData(w)
  <2>1. ASSUME NEW l \in Lot, lotStatus[l] # "none", lotLock[l] \notin {None, w} PROVE ReservedQty(l)' <= ReservedQty(l)
    <3>1. took[l] = 0
      <4>1. took[l] \in Nat
        BY <1>3
      <4>2. ~(took[l] > 0)
        BY <1>3, <1>4, <2>1
      <4> QED
        BY <4>1, <4>2
    <3>2. reserved'[o][l] = 0 /\ \A p \in Order \ {o} : reserved'[p] = reserved[p]
      BY <1>3, <1>9, <3>1 DEF DataOK, AllocOK
    <3> QED
      BY <1>1, <1>2, <1>10, <3>2, ReservedStays
  <2>2. ASSUME NEW p \in Order PROVE SumOf(consumed'[p], Lot) >= SumOf(consumed[p], Lot)
    <3>1. SumOf(consumed[p], Lot) \in Nat
      BY <1>3, TotalNat DEF DataOK, AllocOK
    <3> QED
      BY <1>2, <3>1
  <2>3. \A p \in Order : headerLock[p] \notin {None, w} /\ reservation[p] = "none" => reservation'[p] = "none"
    BY <1>1, <1>2, <1>3 DEF DataOK, AllocOK
  <2>4. \A p \in Order : reservation[p] # "none" => reservation'[p] # "none"
    BY <1>2, <1>3 DEF DataOK, AllocOK
  <2> QED
    BY <1>2, <1>4, <2>1, <2>2, <2>3, <2>4 DEF KeepsData
<1> QED
  BY <1>2, <1>4, <1>10, <1>11, <1>12, <1>13, <1>14, <1>15, <1>16, WriteKeeps

\* A dispatch takes the allocations it read from their lots and from the item.
LEMMA ConsumeWriteKeeps ==
  ASSUME IInv, NEW w \in Worker, ConsumeWrite(w)
  PROVE  IInv'
<1>1. PICK o \in Order : o = on[w] /\ "dispatch" \in Ops /\ SumOf(seen[w].took, Lot) = Qty[o]
                         /\ IF seen[w].fresh THEN headerLock[o] = w /\ reservation[o] = "none" ELSE reservation[o] # "none"
  BY Typed DEF ConsumeWrite, Relied, OnDispatch, Heading, Whole
<1> DEFINE took == seen[w].took
           fresh == seen[w].fresh
<1>2. /\ pc[w] = "consumeWrite" /\ reservation' = [reservation EXCEPT ![o] = "CONSUMED"]
      /\ reserved' = IF fresh THEN [reserved EXCEPT ![o] = Plus(@, took)] ELSE reserved
      /\ consumed' = [consumed EXCEPT ![o] = Plus(@, took)]
      /\ lotQty' = Minus(Created(w), took) /\ WithCreated(w)
      /\ stock' = stock - Qty[o] /\ untracked' = untracked + Qty[o] - SumOf(took, Lot)
      /\ status' = [status EXCEPT ![o] = "DISPATCHED"] /\ End(w)
      /\ UNCHANGED <<delivered, released>> /\ UNCHANGED <<recall, reported, disposed>>
      /\ FreeFor(w, {l \in Lot : took[l] > 0})
  BY <1>1 DEF ConsumeWrite, recallVars
<1>3. took \in [Lot -> Nat] /\ DataOK /\ SumOf(took, Lot) = Qty[o] /\ Qty[o] \in Nat
      /\ (IF fresh THEN headerLock[o] = w /\ reservation[o] = "none" ELSE reservation[o] # "none")
  BY <1>1, Typed DEF IInv, LotAssumption
<1> HIDE DEF took, fresh
<1>4. /\ Created(w) \in [Lot -> Int] /\ lotStatus' \in [Lot -> LotStatus]
      /\ \A l \in Lot : lotStatus[l] # "none" => Created(w)[l] = lotQty[l] /\ lotStatus'[l] = lotStatus[l] /\ l # seen[w].lot
      /\ \A l \in Lot : lotStatus[l] = "none" => lotStatus'[l] = "none" \/ (Creating(w) /\ l = seen[w].lot)
      /\ \A l \in Lot : lotStatus'[l] = "APPROVED" => lotStatus[l] = "APPROVED" \/ l \in Spare
      /\ \A l \in Lot : lotStatus'[l] = "none" => l \in Spare
  BY <1>2, Creation
<1>5. reserved[o] \in [Lot -> Nat] /\ consumed[o] \in [Lot -> Nat]
      /\ SumOf(reserved[o], Lot) = (IF fresh THEN 0 ELSE Qty[o])
  BY <1>3 DEF IInv, ReservedOnce, DataOK, AllocOK
<1>6. ASSUME NEW f \in [Lot -> Nat]
      PROVE  Plus(f, took) \in [Lot -> Nat] /\ SumOf(Plus(f, took), Lot) = SumOf(f, Lot) + Qty[o] /\ SumOf(f, Lot) \in Nat
  <2>1. f \in [Lot -> Int] /\ took \in [Lot -> Int]
    BY <1>3
  <2>2. Plus(f, took) \in [Lot -> Nat]
    BY <1>3 DEF Plus
  <2> QED
    BY ONLY f \in [Lot -> Nat], <1>3, <2>1, <2>2, TotalMoves, TotalNat
<1>7. reserved' \in [Order -> [Lot -> Nat]] /\ SumOf(reserved'[o], Lot) = Qty[o]
      /\ \A p \in Order \ {o} : reserved'[p] = reserved[p]
  <2>1. reserved \in [Order -> [Lot -> Nat]]
    BY <1>3 DEF DataOK, AllocOK
  <2>2. CASE fresh
    <3> DEFINE f == Plus(reserved[o], took)
    <3>1. reserved' = [reserved EXCEPT ![o] = f]
      BY <1>2, <2>2
    <3>2. f \in [Lot -> Nat] /\ SumOf(f, Lot) = 0 + Qty[o]
      BY <1>5, <1>6, <2>2
    <3> HIDE DEF f
    <3> QED
      BY <1>3, <2>1, <3>1, <3>2
  <2>3. CASE ~fresh
    BY <1>2, <1>5, <2>1, <2>3
  <2> QED
    BY <2>2, <2>3
<1>8. consumed' \in [Order -> [Lot -> Nat]] /\ SumOf(consumed'[o], Lot) = SumOf(consumed[o], Lot) + Qty[o]
      /\ SumOf(consumed[o], Lot) \in Nat /\ \A p \in Order \ {o} : consumed'[p] = consumed[p]
  <2>1. consumed \in [Order -> [Lot -> Nat]]
    BY <1>3 DEF DataOK, AllocOK
  <2> QED
    BY <1>2, <1>5, <1>6, <2>1
<1>9. lotQty' \in [Lot -> Int] /\ stock' \in Int /\ untracked' \in Nat
  <2>1. Minus(Created(w), took) \in [Lot -> Int]
    BY <1>3, <1>4 DEF Minus
  <2> QED
    BY <1>2, <1>3, <2>1 DEF DataOK, LotsOK
<1>10. DataOK'
  BY <1>2, <1>3, <1>4, <1>7, <1>8, <1>9 DEF DataOK, LotsOK, OrdersOK, OrderStatus, AllocOK, ReservationStatus, RecallsOK
<1>11. Untouched'
  BY <1>2, <1>3, <1>8 DEF IInv, Untouched, DataOK, AllocOK
<1>12. ReservedOnce'
  BY <1>2, <1>3, <1>7 DEF IInv, ReservedOnce, DataOK, AllocOK
<1>13. Left'
  <2> SUFFICES ASSUME NEW p \in Order, status'[p] = "DISPATCHED" \/ delivered'[p] > 0
               PROVE  SumOf(consumed'[p], Lot) >= Qty[p]
    BY DEF Left
  <2>1. CASE p = o
    BY <1>3, <1>8, <2>1
  <2>2. CASE p # o
    BY <1>2, <1>3, <1>8, <2>2 DEF IInv, Left, DataOK, OrdersOK
  <2> QED
    BY <2>1, <2>2
<1>14. Accounted'
  BY <1>1 DEF Accounted
<1>15. SaleExplained'
  BY <1>2, <1>4, Ends, ExplainedKept
<1>16. KeepsData(w)
  <2>1. ASSUME NEW l \in Lot PROVE ReservedQty(l)' <= ReservedQty(l)
    <3>1. \A p \in Order : reservation'[p] = "ACTIVE" => p # o /\ reservation[p] = "ACTIVE"
      BY <1>2, <1>3 DEF DataOK, AllocOK
    <3> QED
      BY <1>2, <1>7, <1>8, <1>10, <3>1, ReservedFalls
  <2>2. ASSUME NEW p \in Order PROVE SumOf(consumed'[p], Lot) >= SumOf(consumed[p], Lot)
    <3>1. SumOf(consumed[p], Lot) \in Nat
      BY <1>3, TotalNat DEF DataOK, AllocOK
    <3>2. CASE p = o
      BY <1>3, <1>8, <3>2
    <3>3. CASE p # o
      BY <1>8, <3>1, <3>3
    <3> QED
      BY <3>2, <3>3
  <2>3. \A p \in Order : headerLock[p] \notin {None, w} /\ reservation[p] = "none" => reservation'[p] = "none"
    BY <1>2, <1>3 DEF DataOK, AllocOK
  <2>4. \A p \in Order : reservation[p] # "none" => reservation'[p] # "none"
    BY <1>2, <1>3 DEF DataOK, AllocOK
  <2>5. ASSUME NEW l \in Lot, lotStatus[l] # "none", lotLock[l] \notin {None, w} PROVE lotQty'[l] = lotQty[l]
    <3>1. took[l] = 0
      BY <1>2, <1>3, <2>5 DEF FreeFor
    <3>2. Created(w)[l] = lotQty[l] /\ lotQty[l] \in Int
      BY <1>3, <1>4, <2>5 DEF DataOK, LotsOK
    <3> QED
      BY <1>2, <3>1, <3>2 DEF Minus
  <2> QED
    BY <1>2, <1>4, <2>1, <2>2, <2>3, <2>4, <2>5 DEF KeepsData
<1> QED
  BY <1>2, <1>4, <1>10, <1>11, <1>12, <1>13, <1>14, <1>15, <1>16, WriteKeeps

-----------------------------------------------------------------------------
(* Recalls made and cancelled. *)

\* A recall blocks the lots it found approved and reports what they held.
LEMMA RecallWriteKeeps ==
  ASSUME IInv, NEW w \in Worker, RecallWrite(w)
  PROVE  IInv'
<1> DEFINE open == seen[w].open
<1>1. PICK l \in Lot \ Spare : l = on[w] /\ recallLock[l] = w /\ \A m \in open : Mine(w, m)
  BY Typed DEF RecallWrite, Relied, OnRecall
<1>2. /\ pc[w] = "recallWrite" /\ lotStatus' = Block(open) /\ recall' = [recall EXCEPT ![l] = "IN_PROGRESS"]
      /\ reported' = [reported EXCEPT ![l] = SumOf(seen[w].read, open)] /\ End(w)
      /\ UNCHANGED <<lotQty, stock, untracked, orderVars, allocVars, disposed>>
  BY <1>1 DEF RecallWrite
<1>3. open \in SUBSET Lot /\ DataOK /\ \A m \in open : lotStatus[m] = "APPROVED" /\ lotLock[m] = w
  BY <1>1, Typed DEF IInv, Mine
<1>4. SumOf(seen[w].read, open) \in Int
  <2>1. IsFiniteSet(open) /\ Ints(seen[w].read, open)
    BY LotsInOrder, FS_Subset, Typed DEF Ints
  <2> HIDE DEF open
  <2> QED
    BY <2>1, SumInt
<1>5. \A m \in Lot : lotStatus'[m] = IF m \in open THEN "BLOCKED" ELSE lotStatus[m]
  BY <1>2 DEF Block
<1>6. LotsOK' /\ RecallsOK'
  BY <1>2, <1>3, <1>4, <1>5 DEF DataOK, LotsOK, LotStatus, Block, RecallsOK, RecallStatus
<1>7. DataOK' /\ Left' /\ Accounted'
  <2>1. UNCHANGED <<status, delivered, lotQty, stock, untracked, consumed>>
    BY <1>2 DEF orderVars, allocVars
  <2> QED
    BY <1>2, <1>6, <2>1, AllocKept DEF IInv, DataOK, OrdersOK, Left, Accounted, StockMatchesLots
<1> HIDE DEF open
<1>8. KeepsData(w)
  <2>1. UNCHANGED <<reservation, lotQty>>
    BY <1>2 DEF allocVars
  <2>2. \A k \in Lot : recallLock[k] \notin {None, w} => recall'[k] = recall[k]
    BY <1>1, <1>2, <1>3 DEF DataOK, RecallsOK
  <2> QED
    BY <1>2, <1>3, <1>5, <2>1, <2>2, AllocKept DEF KeepsData
<1>9. recall'[l] = "IN_PROGRESS" /\ \A k \in Lot \ {l} : recall'[k] = recall[k]
  BY <1>2, <1>3 DEF DataOK, RecallsOK
<1>14. on'[w] = None /\ pc'[w] = "idle" /\ \A v \in Worker \ {w} : pc'[v] = pc[v] /\ on'[v] = on[v] /\ seen'[v] = seen[v]
  BY <1>2, Ends DEF Steady
<1>10. ASSUME NEW v \in Worker, NEW m \in Lot, Passed(v, m)' PROVE v # w /\ Passed(v, m)
  BY <1>10, <1>14 DEF Passed
<1>11. ASSUME NEW m \in Lot, lotStatus'[m] = "APPROVED", Reached(m)' PROVE \E k \in Lot : PutBack(k, m)'
  <2>1. m \notin open /\ lotStatus[m] = "APPROVED"
    BY <1>5, <1>11
  <2>2. m \in Scope(l) => Passed(w, m)
    BY <1>1, <1>2, <2>1 DEF Passed, open
  <2>3. Reached(m)
    <3>1. CASE \E k \in Lot : Recalled(k)' /\ m \in Scope(k)
      BY <1>9, <2>2, <3>1 DEF Reached, Recalled
    <3>2. CASE \E v \in Worker : Passed(v, m)'
      BY <1>10, <3>2 DEF Reached
    <3> QED
      BY <1>11, <3>1, <3>2 DEF Reached
  <2>4. PICK k \in Lot : PutBack(k, m)
    BY <2>1, <2>3 DEF IInv, SaleExplained
  <2>5. k # l
    BY <1>1, <2>2, <2>4 DEF PutBack
  <2>6. \A v \in Worker : on'[v] = k => ~ Passed(v, m)'
    BY <1>10, <1>14, <2>4 DEF PutBack
  <2> QED
    BY <1>9, <2>4, <2>5, <2>6 DEF PutBack
<1>12. SaleExplained'
  BY <1>1, <1>9, <1>11 DEF SaleExplained, IInv
<1>13. \A m \in Lot : lotStatus'[m] = "none" => m \in Spare
  BY <1>5 DEF IInv, LotsToCome
<1> QED
  BY <1>2, <1>7, <1>8, <1>12, <1>13, AllocKept, WriteKeeps

\* A cancelled recall makes the lots sellable that it decided not to spare.
LEMMA ReleaseWriteKeeps ==
  ASSUME IInv, NEW w \in Worker, ReleaseWrite(w)
  PROVE  IInv'
<1> DEFINE freed == seen[w].open \cap InStatus("BLOCKED")
<1>1. PICK l \in Lot \ Spare : l = on[w] /\ recallLock[l] = w /\ Recalled(l) /\ seen[w].open \subseteq Scope(l)
  BY Typed DEF ReleaseWrite, Relied, OnRecall
<1>2. /\ pc[w] = "release" /\ lotStatus' = [m \in Lot |-> IF m \in freed THEN "APPROVED" ELSE lotStatus[m]]
      /\ recall' = [recall EXCEPT ![l] = "CANCELLED"] /\ FreeFor(w, freed) /\ End(w)
      /\ UNCHANGED <<lotQty, stock, untracked, orderVars, allocVars, reported, disposed>>
  BY <1>1 DEF ReleaseWrite
<1>3. freed \in SUBSET Lot /\ DataOK /\ \A m \in freed : lotStatus[m] = "BLOCKED" /\ m \in Scope(l)
  BY <1>1, Typed DEF IInv, InStatus
<1> HIDE DEF freed
<1>5. \A m \in Lot : lotStatus'[m] = IF m \in freed THEN "APPROVED" ELSE lotStatus[m]
  BY <1>2
<1>6. LotsOK' /\ RecallsOK'
  BY <1>2, <1>3 DEF DataOK, LotsOK, LotStatus, RecallsOK, RecallStatus
<1>7. DataOK' /\ Left' /\ Accounted'
  <2>1. UNCHANGED <<status, delivered, lotQty, stock, untracked, consumed>>
    BY <1>2 DEF orderVars, allocVars
  <2> QED
    BY <1>2, <1>6, <2>1, AllocKept DEF IInv, DataOK, OrdersOK, Left, Accounted, StockMatchesLots
<1>8. KeepsData(w)
  <2>1. UNCHANGED <<reservation, lotQty>>
    BY <1>2 DEF allocVars
  <2>2. \A k \in Lot : recallLock[k] \notin {None, w} => recall'[k] = recall[k]
    BY <1>1, <1>2, <1>3 DEF DataOK, RecallsOK
  <2>3. \A m \in freed : lotLock[m] \in {None, w}
    BY <1>2 DEF FreeFor
  <2> QED
    BY <1>2, <1>3, <1>5, <2>1, <2>2, <2>3, AllocKept DEF KeepsData
<1>9. recall'[l] = "CANCELLED" /\ \A k \in Lot \ {l} : recall'[k] = recall[k]
  BY <1>2, <1>3 DEF DataOK, RecallsOK
<1>14. on'[w] = None /\ pc'[w] = "idle" /\ \A v \in Worker \ {w} : pc'[v] = pc[v] /\ on'[v] = on[v] /\ seen'[v] = seen[v]
  BY <1>2, Ends DEF Steady
<1>10. ASSUME NEW v \in Worker, NEW m \in Lot, Passed(v, m)' PROVE v # w /\ Passed(v, m)
  BY <1>10, <1>14 DEF Passed
<1>11. ASSUME NEW m \in Lot, lotStatus'[m] = "APPROVED", Reached(m)' PROVE \E k \in Lot : PutBack(k, m)'
  <2>1. CASE m \in freed
    <3>1. ASSUME NEW v \in Worker, Passed(v, m)', on'[v] = l PROVE FALSE
      <4>1. v # w /\ Passed(v, m) /\ on[v] = l
        BY <1>10, <1>14, <3>1
      <4>2. recallLock[l] = v
        BY <4>1, Typed DEF Passed, Relied, OnRecall
      <4> QED
        BY <1>1, <4>1, <4>2
    <3> QED
      BY <1>3, <1>9, <2>1, <3>1 DEF PutBack
  <2>2. CASE m \notin freed
    <3>1. lotStatus[m] = "APPROVED"
      BY <1>5, <1>11, <2>2
    <3>2. Reached(m)
      <4>1. CASE \E k \in Lot : Recalled(k)' /\ m \in Scope(k)
        BY <1>9, <4>1 DEF Reached, Recalled
      <4>2. CASE \E v \in Worker : Passed(v, m)'
        BY <1>10, <4>2 DEF Reached
      <4> QED
        BY <1>11, <4>1, <4>2 DEF Reached
    <3>3. PICK k \in Lot : PutBack(k, m)
      BY <3>1, <3>2 DEF IInv, SaleExplained
    <3>4. k # l
      BY <1>1, <3>3 DEF PutBack, Recalled
    <3>5. \A v \in Worker : on'[v] = k => ~ Passed(v, m)'
      BY <1>10, <1>14, <3>3 DEF PutBack
    <3> QED
      BY <1>9, <3>3, <3>4, <3>5 DEF PutBack
  <2> QED
    BY <2>1, <2>2
<1>12. SaleExplained'
  BY <1>1, <1>9, <1>11 DEF SaleExplained, IInv
<1>13. \A m \in Lot : lotStatus'[m] = "none" => m \in Spare
  BY <1>5 DEF IInv, LotsToCome
<1> QED
  BY <1>2, <1>7, <1>8, <1>12, <1>13, AllocKept, WriteKeeps

-----------------------------------------------------------------------------
(* The inductive invariant. *)

\* The state the application starts from satisfies the invariant.
LEMMA InitIInv == Init => IInv
<1> SUFFICES ASSUME Init PROVE IInv
  OBVIOUS
<1> DEFINE S == Lot \ Spare
<1>1. Ints(Opening, S) /\ IsFiniteSet(S) /\ S \in SUBSET Lot
  BY LotsInOrder, FS_Subset DEF Ints, LotAssumption
<1>2. Ints(lotQty, Lot) /\ (\A l \in S : lotQty[l] = Opening[l]) /\ \A l \in Lot \ S : lotQty[l] = 0
  BY DEF Ints, Init, LotAssumption
<1> HIDE DEF S
<1>3. SumOf(Opening, S) \in Int
  BY <1>1, SumInt
<1>4. SumOf(lotQty, Lot) = SumOf(lotQty, S)
  BY <1>1, <1>2, LotsInOrder, SumWithout
<1>5. SumOf(lotQty, S) = SumOf(Opening, S)
  BY <1>1, <1>2, SumSame
<1>6. stock = SumOf(Opening, S) /\ untracked = 0
  BY DEF Init, S
<1>7. DataOK
  BY <1>3, <1>6 DEF DataOK, LotsOK, OrdersOK, AllocOK, RecallsOK, Init, LotAssumption, LotStatus, OrderStatus,
        ReservationStatus, RecallStatus, Zero
<1>8. LocksOK /\ RequestsOK
  BY DEF LocksOK, RequestsOK, Init, PC, NothingSeen, Seen, Zero, OrderStatus
<1>9. ASSUME NEW w \in Worker PROVE Relied(w)
  BY DEF Relied, OnSale, OnLotSale, OnReservation, OnDispatch, OnOrder, OnRecall, OnNothing, Creating, Init, NothingSeen
<1>10. LotsToCome /\ Untouched /\ Left
  BY DEF LotsToCome, Creating, Untouched, Left, Init, LotAssumption
<1>11. ReservedOnce
  BY TotalZero DEF ReservedOnce, Init
<1>12. SaleExplained
  BY DEF SaleExplained, Reached, Recalled, Passed, Init
<1>13. Accounted
  BY <1>3, <1>4, <1>5, <1>6 DEF Accounted, StockMatchesLots
<1> QED
  BY <1>7, <1>8, <1>9, <1>10, <1>11, <1>12, <1>13 DEF IInv

\* Every step of every request preserves it.
LEMMA StepKeeps ==
  ASSUME IInv, NEW w \in Worker, Step(w)
  PROVE  IInv'
BY SaleItemKeeps, SaleLotsKeeps, SaleWriteKeeps, LotSaleLockKeeps, LotSaleWriteKeeps, HeaderKeeps, SnapshotKeeps,
   ReserveKeeps, ReserveWriteKeeps, DispatchBeginKeeps, ConsumeReadKeeps, ConsumeWriteKeeps, CancelWriteKeeps,
   DeliverWriteKeeps, StatusWriteKeeps, RecallOwnKeeps, RecallBlendedKeeps, RecallWriteKeeps, ReleaseWriteKeeps,
   DisposeWriteKeeps DEF Step

\* Whatever request arrives.
LEMMA ArriveKeeps ==
  ASSUME IInv, NEW w \in Worker, Arrive(w)
  PROVE  IInv'
BY SaleCheckKeeps, LotSaleCheckKeeps, ApproveReadKeeps, DispatchReadKeeps, CancelReadKeeps, DeliverReadKeeps,
   StatusReadKeeps, RecallReadKeeps, ReleaseReadKeeps, DisposeLockKeeps DEF Arrive

\* Nothing moves when no one steps.
LEMMA IdleKeeps ==
  ASSUME IInv, UNCHANGED vars
  PROVE  IInv'
<1>1. UNCHANGED data /\ UNCHANGED locks /\ UNCHANGED <<pc, on, seen>>
  BY DEF vars
<1>2. /\ UNCHANGED <<lotQty, lotStatus, stock, untracked>> /\ UNCHANGED <<status, delivered>>
      /\ UNCHANGED <<reservation, reserved, consumed, released>> /\ UNCHANGED <<recall, reported, disposed>>
      /\ UNCHANGED <<itemLock, lotLock, headerLock, recallLock>>
  BY <1>1 DEF data, stockVars, orderVars, allocVars, recallVars, locks
<1>3. ASSUME NEW w \in Worker PROVE Relied(w)'
  <2>1. OnSale(w)' /\ OnReservation(w)' /\ OnDispatch(w)' /\ OnOrder(w)' /\ OnRecall(w)' /\ OnNothing(w)'
    BY <1>1, <1>2, Typed DEF Relied, OnSale, OnReservation, OnDispatch, OnOrder, OnRecall, OnNothing, Mine, Whole,
                             Heading, Creating, Recalled
  <2>2. OnLotSale(w)'
    <3>1. OnLotSale(w)
      BY Typed DEF Relied
    <3>2. CASE pc[w] = "lotSaleWrite"
      <4>1. PICK l \in Lot : /\ l = seen[w].lot /\ Mine(w, l) /\ LotAvailable(l) >= seen[w].qty
                             /\ seen[w].took = [Zero EXCEPT ![l] = seen[w].qty]
                             /\ lotStatus[l] # "none" /\ seen[w].qty > 0
        BY <3>1, <3>2 DEF OnLotSale
      <4>2. LotAvailable(l)' = LotAvailable(l) /\ Mine(w, l)'
        BY <1>1, <1>2, <4>1 DEF LotAvailable, ReservedQty, Active, Mine
      <4> QED
        BY <1>1, <1>2, <3>2, <4>1, <4>2 DEF OnLotSale, Mine, LotAvailable, ReservedQty, Active
    <3>3. CASE pc[w] # "lotSaleWrite"
      BY <1>1, <1>2, <3>1, <3>3 DEF OnLotSale
    <3> QED
      BY <3>2, <3>3
  <2> QED
    BY <2>1, <2>2 DEF Relied
<1>4. LotsToCome' /\ SaleExplained' /\ LocksOK' /\ RequestsOK'
  BY <1>1, <1>2 DEF IInv, LotsToCome, Creating, SaleExplained, Reached, Recalled, Passed, PutBack, LocksOK, RequestsOK
<1> QED
  BY <1>2, <1>3, <1>4 DEF IInv, DataOK, LotsOK, OrdersOK, AllocOK, RecallsOK, Untouched, ReservedOnce, Left, Accounted,
                          StockMatchesLots

\* What the theorems rest on: every state of every run satisfies the invariant.
THEOREM Invariance == Spec => []IInv
<1>1. IInv /\ [Next]_vars => IInv'
  <2> SUFFICES ASSUME IInv, [Next]_vars PROVE IInv'
    OBVIOUS
  <2>1. ASSUME NEW w \in Worker, Timeout(w) PROVE IInv'
    BY <2>1, AbortKeeps DEF Timeout
  <2> QED
    BY <2>1, StepKeeps, ArriveKeeps, IdleKeeps DEF Next
<1> QED
  BY <1>1, InitIInv, PTL DEF Spec

-----------------------------------------------------------------------------
(* Theorems. *)

\* Quantities stay whole numbers, statuses those of their enums.
THEOREM TypeCorrect == Spec => []TypeOK
<1>1. IInv => TypeOK
  BY DEF IInv, DataOK, LotsOK, OrdersOK, AllocOK, RecallsOK, LocksOK, RequestsOK, TypeOK
<1> QED
  BY <1>1, Invariance, PTL

\* An order is reserved whole and once: reserveStock runs under the unique
\* reservation header, and only whoever inserted it writes allocations for it.
THEOREM OrdersReservedOnce == Spec => []ReservedOnce
<1>1. IInv => ReservedOnce
  BY DEF IInv
<1> QED
  BY <1>1, Invariance, PTL

\* What a franchise has received had left headquarters' lots: an order is received
\* from DISPATCHED, which is written with the whole consumption, and consumption
\* only grows, whatever the order is set to in between.
THEOREM DeliveredLeftLots == Spec => []DeliveredWasDispatched
<1>1. IInv => DeliveredWasDispatched
  BY DEF IInv, Left, DeliveredWasDispatched
<1> QED
  BY <1>1, Invariance, PTL

\* No lot that a recall in progress reaches is for sale unless a cancelled recall
\* put it back: a recall locks and blocks every approved lot in its scope, a lot
\* that was not approved when it passed can only come back by a cancellation.
THEOREM RecalledStaysOffSale == Spec => []RecalledNotSellable
<1>1. IInv => RecalledNotSellable
  <2> SUFFICES ASSUME IInv, NEW l \in Lot, Recalled(l), NEW m \in Scope(l), lotStatus[m] = "APPROVED"
               PROVE  \E k \in Lot \ {l} : m \in Scope(k) /\ recall[k] = "CANCELLED"
    BY DEF RecalledNotSellable
  <2>1. m \in Lot
    BY DEF Scope, LotAssumption
  <2>2. PICK k \in Lot : PutBack(k, m)
    BY <2>1 DEF IInv, SaleExplained, Reached
  <2> QED
    BY <2>2 DEF PutBack, Recalled
<1> QED
  BY <1>1, Invariance, PTL

\* Where the stock leaves by sales, recalls and disposals only, the item's stock is
\* what its lots hold less what was sold from no lot: each writes lot and item from
\* what it read of them under the lock.
THEOREM StockIsLots ==
  ASSUME "approve" \notin Ops, "dispatch" \notin Ops
  PROVE  Spec => []StockMatchesLots
<1>1. IInv => StockMatchesLots
  BY DEF IInv, Accounted
<1> QED
  BY <1>1, Invariance, PTL

\* Who moved, and where a step that writes no data leaves the rest.
LEMMA OnlyMover ==
  ASSUME IInv, NEW w \in Worker, Step(w), NEW v \in Worker, v # w
  PROVE  pc'[v] = pc[v]
BY DEF IInv, RequestsOK, Step, SaleItem, SaleLots, SaleWrite, LotSaleLock, LotSaleWrite, Header, Snapshot, Reserve,
       ReserveWrite, DispatchBegin, ConsumeRead, ConsumeWrite, CancelWrite, DeliverWrite, StatusWrite, RecallOwn,
       RecallBlended, RecallWrite, ReleaseWrite, DisposeWrite, Abort, End, Goto

\* Only the steps that end a request write data.
LEMMA OnlyWritesWrite ==
  ASSUME IInv, NEW w \in Worker, Step(w)
  PROVE  \/ UNCHANGED data
         \/ SaleWrite(w) \/ LotSaleWrite(w) \/ ReserveWrite(w) \/ ConsumeWrite(w) \/ CancelWrite(w)
         \/ DeliverWrite(w) \/ StatusWrite(w) \/ RecallWrite(w) \/ ReleaseWrite(w) \/ DisposeWrite(w)
BY DEF Step, SaleItem, SaleLots, LotSaleLock, Header, Snapshot, Reserve, DispatchBegin, ConsumeRead, RecallOwn,
       RecallBlended, Abort

\* A request writes nothing when it arrives.
LEMMA ArrivingWritesNothing ==
  ASSUME NEW w \in Worker, Arrive(w)
  PROVE  UNCHANGED data
BY DEF Arrive, SaleCheck, LotSaleCheck, ApproveRead, DispatchRead, CancelRead, DeliverRead, StatusRead, RecallRead,
       ReleaseRead, DisposeLock

\* A sale from a chosen lot leaves what franchise orders hold in it: what
\* depleteLot found free of reservations under the lot's lock is still free when
\* it writes, because reserving takes that lock and closing only frees.
THEOREM LotSalesSpareReservations == Spec => LotSaleSparesReserved
<1>1. IInv /\ [Next]_vars =>
        [\A w \in Worker : (pc[w] = "lotSaleWrite" /\ pc'[w] = "idle" /\ lotQty' # lotQty)
           => lotQty'[seen[w].lot] >= ReservedQty(seen[w].lot)]_vars
  <2> SUFFICES ASSUME IInv, Next, NEW w \in Worker, pc[w] = "lotSaleWrite", pc'[w] = "idle", lotQty' # lotQty
               PROVE  lotQty'[seen[w].lot] >= ReservedQty(seen[w].lot)
    BY DEF vars, data, stockVars
  <2>1. PICK v \in Worker : Step(v)
    BY ArrivingWritesNothing DEF Next, Timeout, Abort, data, stockVars
  <2>2. v = w
    BY <2>1, OnlyMover
  <2>3. LotSaleWrite(w)
    BY <2>1, <2>2 DEF Step, SaleItem, SaleLots, SaleWrite, LotSaleLock, Header, Snapshot, Reserve,
       ReserveWrite, DispatchBegin, ConsumeRead, ConsumeWrite, CancelWrite, DeliverWrite, StatusWrite, RecallOwn,
       RecallBlended, RecallWrite, ReleaseWrite, DisposeWrite
  <2>4. PICK l \in Lot : /\ l = seen[w].lot /\ Mine(w, l) /\ LotAvailable(l) >= seen[w].qty
                         /\ seen[w].took = [Zero EXCEPT ![l] = seen[w].qty] /\ seen[w].qty > 0
    BY Typed DEF Relied, OnLotSale
  <2>5. lotQty'[l] = lotQty[l] - seen[w].qty
    BY <2>3, <2>4 DEF LotSaleWrite, Deplete, Mine, Zero
  <2>6. lotQty[l] \in Int /\ ReservedQty(l) \in Nat /\ seen[w].qty \in Nat
    BY Typed, ReservedNat
  <2>7. lotQty'[l] >= ReservedQty(l)
    BY <2>4, <2>5, <2>6 DEF LotAvailable
  <2> QED
    BY <2>4, <2>7
<1> QED
  BY <1>1, Invariance, PTL DEF Spec, LotSaleSparesReserved

\* Without dispatches a blocked lot loses only what is disposed of.
LEMMA HeldStep ==
  ASSUME "dispatch" \notin Ops, IInv, Next, NEW l \in Lot, lotStatus[l] = "BLOCKED"
  PROVE  lotQty'[l] + disposed'[l] >= lotQty[l] + disposed[l]
<1>1. lotQty \in [Lot -> Int] /\ disposed \in [Lot -> Nat]
  BY DEF IInv, DataOK, LotsOK, RecallsOK
<1>2. ASSUME lotQty'[l] = lotQty[l], disposed'[l] = disposed[l]
      PROVE  lotQty'[l] + disposed'[l] >= lotQty[l] + disposed[l]
  <2> DEFINE a == lotQty[l] b == disposed[l]
  <2>1. a \in Int /\ b \in Int /\ lotQty'[l] + disposed'[l] = a + b
    BY <1>1, <1>2
  <2> HIDE DEF a, b
  <2>2. a + b >= a + b
    BY <2>1
  <2> QED
    BY <2>1, <2>2 DEF a, b
<1>3. CASE UNCHANGED data
  BY <1>2, <1>3 DEF data, stockVars, recallVars
<1>4. ASSUME NEW w \in Worker, Step(w) PROVE lotQty'[l] + disposed'[l] >= lotQty[l] + disposed[l]
  <2>1. CASE SaleWrite(w)
    <3>1. \A m \in Lot : seen[w].took[m] > 0 => Mine(w, m)
      BY <2>1, Typed DEF SaleWrite, Relied, OnSale
    <3>2. lotQty'[l] = lotQty[l] /\ disposed'[l] = disposed[l]
      BY <2>1, <3>1 DEF SaleWrite, Deplete, Mine, recallVars
    <3> QED
      BY <1>2, <3>2
  <2>2. CASE LotSaleWrite(w)
    <3>1. PICK k \in Lot : Mine(w, k) /\ seen[w].took = [Zero EXCEPT ![k] = seen[w].qty]
      BY <2>2, Typed DEF LotSaleWrite, Relied, OnLotSale
    <3>2. l # k
      BY <3>1 DEF Mine
    <3>3. lotQty'[l] = lotQty[l] /\ disposed'[l] = disposed[l]
      BY <2>2, <3>1, <3>2 DEF LotSaleWrite, Deplete, Zero, recallVars
    <3> QED
      BY <1>2, <3>3
  <2>3. CASE ReserveWrite(w)
    <3>1. Created(w)[l] = lotQty[l]
      BY <2>3, Creation DEF ReserveWrite
    <3> QED
      BY <1>2, <2>3, <3>1 DEF ReserveWrite, recallVars
  <2>4. CASE ConsumeWrite(w)
    BY <2>4, Typed DEF ConsumeWrite, Relied, OnDispatch
  <2>5. CASE DisposeWrite(w)
    <3>1. PICK m \in Lot : m = on[w]
      BY <2>5, Typed DEF DisposeWrite, Relied, OnRecall
    <3> DEFINE q == seen[w].qty
    <3>2. lotQty' = [lotQty EXCEPT ![m] = @ - q] /\ disposed' = [disposed EXCEPT ![m] = @ + q] /\ q \in Int
      BY <2>5, <3>1, Typed DEF DisposeWrite
    <3> HIDE DEF q
    <3>3. CASE l = m
      <4> DEFINE a == lotQty[l] b == disposed[l] c == lotQty'[l] d == disposed'[l]
      <4>1. a \in Int /\ b \in Int /\ c = a - q /\ d = b + q
        BY <1>1, <3>2, <3>3
      <4> HIDE DEF a, b, c, d
      <4>2. c + d >= a + b
        BY <3>2, <4>1
      <4> QED
        BY <4>2 DEF a, b, c, d
    <3>4. CASE l # m
      BY <1>1, <1>2, <3>2, <3>4
    <3> QED
      BY <3>3, <3>4
  <2>6. CASE CancelWrite(w) \/ DeliverWrite(w) \/ StatusWrite(w) \/ RecallWrite(w) \/ ReleaseWrite(w)
    BY <1>2, <2>6 DEF CancelWrite, DeliverWrite, StatusWrite, RecallWrite, ReleaseWrite, stockVars, recallVars
  <2> QED
    BY <1>3, <1>4, <2>1, <2>2, <2>3, <2>4, <2>5, <2>6, OnlyWritesWrite
<1> QED
  BY <1>3, <1>4, ArrivingWritesNothing DEF Next, Timeout, Abort

\* A recall reports what the lots it blocks then hold.
LEMMA ReportedStep ==
  ASSUME IInv, Next, NEW l \in Lot, ~Recalled(l), recall'[l] = "IN_PROGRESS"
  PROVE  reported'[l] = SumOf(lotQty', {m \in Lot : lotStatus'[m] = "BLOCKED" /\ lotStatus[m] # "BLOCKED"})
<1>1. recall' # recall /\ recall \in [Lot -> RecallStatus] /\ reported \in [Lot -> Int]
  BY DEF Recalled, IInv, DataOK, RecallsOK
<1>2. PICK w \in Worker : Step(w)
  BY <1>1, ArrivingWritesNothing DEF Next, Timeout, Abort, data, recallVars
<1>3. RecallWrite(w)
  <2>1. ~ReleaseWrite(w)
    BY <1>1 DEF ReleaseWrite, Recalled
  <2> QED
    BY <1>1, <1>2, <2>1, OnlyWritesWrite DEF SaleWrite, LotSaleWrite, ReserveWrite, ConsumeWrite, CancelWrite,
       DeliverWrite, StatusWrite, DisposeWrite, data, recallVars
<1> DEFINE open == seen[w].open
           read == seen[w].read
<1>4. open \in SUBSET Lot /\ (\A m \in open : Mine(w, m)) /\ read \in [Lot -> Int] /\ lotQty \in [Lot -> Int]
  BY <1>3, Typed DEF RecallWrite, Relied, OnRecall
<1>5. lotStatus' = Block(open) /\ recall' = [recall EXCEPT ![on[w]] = "IN_PROGRESS"]
      /\ reported' = [reported EXCEPT ![on[w]] = SumOf(read, open)] /\ lotQty' = lotQty
  BY <1>3 DEF RecallWrite
<1>6. \A m \in open : lotStatus[m] = "APPROVED" /\ lotQty[m] = read[m]
  BY <1>4 DEF Mine
<1> HIDE DEF open, read
<1>7. l = on[w]
  BY <1>1, <1>5 DEF Recalled
<1>8. {m \in Lot : lotStatus'[m] = "BLOCKED" /\ lotStatus[m] # "BLOCKED"} = open
  BY <1>4, <1>5, <1>6 DEF Block
<1>9. SumOf(lotQty', open) = SumOf(read, open)
  <2>1. IsFiniteSet(open) /\ Ints(read, open)
    BY <1>4, LotsInOrder, FS_Subset DEF Ints
  <2>2. SumOf(lotQty, open) = SumOf(read, open)
    BY <1>6, <2>1, SumSame
  <2> QED
    BY <1>5, <2>2
<1> QED
  BY <1>1, <1>5, <1>7, <1>8, <1>9

\* What a recall reports as quarantined is what the lots it blocks then hold:
\* initiateRecall sums what it read of the lots it locked, and nobody moves them
\* while it waits for the rest.
THEOREM RecallReportsBlocked == Spec => ReportedIsBlocked
<1>1. IInv /\ [Next]_vars =>
        [\A l \in Lot : (~Recalled(l) /\ recall'[l] = "IN_PROGRESS") =>
           reported'[l] = SumOf(lotQty', {m \in Lot : lotStatus'[m] = "BLOCKED" /\ lotStatus[m] # "BLOCKED"})]_vars
  BY ReportedStep
<1> QED
  BY <1>1, Invariance, PTL DEF Spec, ReportedIsBlocked

\* Quarantine holds what it caught, and a recall reports what it caught, where no
\* order is dispatched: consumeReservation checks the recall, never the lot's status.
THEOREM QuarantineHolds ==
  ASSUME "dispatch" \notin Ops
  PROVE  Spec => QuarantineSound
<1>1. IInv /\ [Next]_vars =>
        [\A l \in Lot : lotStatus[l] = "BLOCKED" => lotQty'[l] + disposed'[l] >= lotQty[l] + disposed[l]]_vars
  BY HeldStep
<1>2. Spec => QuarantineHeld
  BY <1>1, Invariance, PTL DEF Spec, QuarantineHeld
<1> QED
  BY <1>2, RecallReportsBlocked DEF QuarantineSound
=============================================================================
