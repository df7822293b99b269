-------------------------- MODULE RecallCycleProofs -------------------------
(***************************************************************************)
(* Proofs about RecallCycle, for any number of requests in flight, recalls *)
(* and units: its types, the bound on recoveries, and that a recall closes *)
(* on figures that are true and for good.                                  *)
(*                                                                         *)
(* The argument is about the lock on the recall's row.  Whoever is between *)
(* the two steps of a locking operation holds it; every other operation    *)
(* that writes the row waits for it; so what a locking operation read of   *)
(* the row and of the recall's movements is still so when it writes.       *)
(***************************************************************************)
EXTENDS RecallCycle, TLAPS

USE RecallAssumption

ReconciliationType ==
  [outstanding : Nat, snapshot : [sold : Nat, recovered : Nat, disposed : Nat, quarantined : Nat]]

StockOK ==
  /\ first \in Nat /\ firstStatus \in {"APPROVED", "BLOCKED", "RETURNED"}
  /\ free \in Nat /\ blocked \in Nat /\ returned \in Nat

MovesOK ==
  sold \in Nat /\ out \in Nat /\ recovered \in Nat /\ viaLot \in Nat /\ disposed \in Nat

RowOK ==
  /\ status \in RecallStatus /\ step \in RecallStep
  /\ distributedQty \in Nat /\ returnedQty \in Nat /\ recalls \in Nat
  /\ reconciliation = None \/ reconciliation \in ReconciliationType

ControlOK ==
  /\ recallLock \in Worker \cup {None}
  /\ pc \in [Worker -> {"idle"} \cup Reading \cup Locking]
  /\ seen \in [Worker -> [qty : Nat, value : Nat, recalled : BOOLEAN, step : RecallStep]]

\* The lock's holder is the request between the two steps of a locking operation.
LockOwned == \A w \in Worker : pc[w] \in Locking <=> recallLock = w

\* What such a request found when it locked the row, and relies on when it writes.
StillSo(w) ==
  /\ status = "IN_PROGRESS"
  /\ pc[w] = "recover" => seen[w].qty + recovered <= sold
  /\ pc[w] = "complete" =>
       /\ reconciliation # None /\ reconciliation.outstanding = 0
       /\ reconciliation.snapshot.recovered = recovered /\ reconciliation.snapshot.disposed = disposed

Relied == \A w \in Worker : pc[w] \in Locking => StillSo(w)

\* Recoveries entered per lot are among all recoveries, and never more than was sold.
LotsWithin == viaLot <= recovered /\ viaLot <= sold

DataOK == StockOK /\ MovesOK /\ RowOK

IInv == DataOK /\ ControlOK /\ LockOwned /\ Relied /\ LotsWithin

-----------------------------------------------------------------------------
(* The beginning and the end of a request. *)

\* The initial state.
LEMMA InitIInv == Init => IInv
BY DEF Init, IInv, DataOK, StockOK, MovesOK, RowOK, ControlOK, LockOwned, Relied, LotsWithin,
       RecallStatus, RecallStep, Reading, Locking, NothingSeen

\* A request that ends leaves the control state typed, and the lock with its holder.
LEMMA EndControl ==
  ASSUME IInv, NEW w \in Worker, End(w)
  PROVE  /\ ControlOK' /\ LockOwned' /\ pc'[w] = "idle"
         /\ \A v \in Worker : v # w => pc'[v] = pc[v] /\ seen'[v] = seen[v]
<1>1. ControlOK'
  BY DEF IInv, ControlOK, End, NothingSeen, RecallStep
<1>2. pc'[w] = "idle" /\ \A v \in Worker : v # w => pc'[v] = pc[v] /\ seen'[v] = seen[v]
  BY DEF IInv, ControlOK, End
<1>3. LockOwned'
  BY <1>2 DEF IInv, LockOwned, End, Locking
<1> QED
  BY <1>1, <1>2, <1>3

\* Whoever writes the row, as the lock's holder or with nobody holding it, leaves
\* nobody relying on what was read of it.
LEMMA WriteAlone ==
  ASSUME IInv, NEW w \in Worker, End(w), AtRow(w) \/ pc[w] \in Locking
  PROVE  ControlOK' /\ LockOwned' /\ Relied'
<1>1. \A v \in Worker : v # w => pc[v] \notin Locking
  BY DEF IInv, LockOwned, AtRow
<1>2. \A v \in Worker : pc'[v] \notin Locking
  BY <1>1, EndControl DEF Locking
<1> QED
  BY <1>2, EndControl DEF Relied

\* A request that ends without writing anything.
LEMMA AbortIInv ==
  ASSUME IInv, NEW w \in Worker, Abort(w)
  PROVE  IInv'
<1>1. End(w) /\ UNCHANGED data
  BY DEF Abort
<1>2. Relied'
  <2> SUFFICES ASSUME NEW v \in Worker, pc'[v] \in Locking PROVE StillSo(v)'
    BY DEF Relied
  <2>1. v # w /\ pc'[v] = pc[v] /\ seen'[v] = seen[v]
    BY <1>1, EndControl DEF Locking
  <2>2. StillSo(v)
    BY <2>1 DEF IInv, Relied
  <2> QED
    BY <1>1, <2>1, <2>2 DEF StillSo, data, moveVars, recallVars
<1> QED
  BY <1>1, <1>2, EndControl
     DEF IInv, DataOK, StockOK, MovesOK, RowOK, LotsWithin, data, stockVars, moveVars, recallVars

\* A request that starts without the lock.
LEMMA ReadIInv ==
  ASSUME IInv, NEW w \in Worker, NEW op \in Reading,
         NEW r \in [qty : Nat, value : Nat, recalled : BOOLEAN, step : RecallStep], Read(w, op, r)
  PROVE  IInv'
<1> USE DEF Read, Start
<1>1. ControlOK'
  BY DEF IInv, ControlOK
<1>2. pc'[w] = op /\ op \notin Locking /\ pc[w] \notin Locking
  BY DEF IInv, ControlOK, Reading, Locking
<1>3. \A v \in Worker : v # w => pc'[v] = pc[v] /\ seen'[v] = seen[v]
  BY DEF IInv, ControlOK
<1>4. LockOwned'
  BY <1>2, <1>3 DEF IInv, LockOwned
<1>5. Relied'
  <2> SUFFICES ASSUME NEW v \in Worker, pc'[v] \in Locking PROVE StillSo(v)'
    BY DEF Relied
  <2>1. v # w
    BY <1>2
  <2>2. StillSo(v) /\ pc'[v] = pc[v] /\ seen'[v] = seen[v]
    BY <1>3, <2>1 DEF IInv, Relied
  <2> QED
    BY <2>2 DEF StillSo, data, moveVars, recallVars
<1> QED
  BY <1>1, <1>4, <1>5
     DEF IInv, DataOK, StockOK, MovesOK, RowOK, LotsWithin, data, stockVars, moveVars, recallVars

\* A request that locks the row first.
LEMMA LockedIInv ==
  ASSUME IInv, NEW w \in Worker, NEW op \in Locking,
         NEW r \in [qty : Nat, value : Nat, recalled : BOOLEAN, step : RecallStep], Locked(w, op, r),
         op = "recover" => r.qty + recovered <= sold,
         op = "complete" => MayClose
  PROVE  IInv'
<1> USE DEF Locked, Start, Lock
<1>1. ControlOK'
  BY DEF IInv, ControlOK
<1>2. pc'[w] = op /\ seen'[w] = r /\ \A v \in Worker : v # w => pc'[v] = pc[v]
  BY DEF IInv, ControlOK
<1>3. \A v \in Worker : pc[v] \notin Locking
  BY DEF IInv, LockOwned
<1>4. LockOwned'
  BY <1>2, <1>3 DEF LockOwned
<1>5. StillSo(w)'
  BY <1>2 DEF StillSo, MayClose, Snapshot, Active, data, moveVars, recallVars
<1>6. Relied'
  BY <1>2, <1>3, <1>5 DEF Relied
<1> QED
  BY <1>1, <1>4, <1>6
     DEF IInv, DataOK, StockOK, MovesOK, RowOK, LotsWithin, data, stockVars, moveVars, recallVars

-----------------------------------------------------------------------------
(* Sales and returns. *)

\* A sale takes from what may be sold and adds to what was sold.
LEMMA SellIInv ==
  ASSUME IInv, NEW w \in Worker, NEW q \in Quantity, Sell(w, q)
  PROVE  IInv'
<1> USE DEF Sell
<1>1. DataOK'
  <2>1. q \in Nat
    OBVIOUS
  <2>2. StockOK'
    BY <2>1 DEF IInv, DataOK, StockOK
  <2>3. MovesOK'
    BY <2>1 DEF IInv, DataOK, MovesOK
  <2>4. RowOK'
    BY DEF IInv, DataOK, RowOK, recallVars
  <2> QED
    BY <2>2, <2>3, <2>4 DEF DataOK
<1>2. ControlOK' /\ LockOwned'
  BY DEF IInv, ControlOK, LockOwned
<1>3. Relied'
  <2> SUFFICES ASSUME NEW v \in Worker, pc[v] \in Locking PROVE StillSo(v)'
    BY DEF Relied
  <2>1. StillSo(v)
    BY DEF IInv, Relied
  <2>2. sold <= sold' /\ sold \in Nat /\ sold' \in Nat /\ recovered \in Nat /\ seen[v].qty \in Nat
    BY <1>1 DEF IInv, DataOK, MovesOK, ControlOK
  <2> QED
    BY <2>1, <2>2 DEF StillSo, recallVars
<1>4. LotsWithin'
  BY DEF IInv, DataOK, MovesOK, LotsWithin
<1> QED
  BY <1>1, <1>2, <1>3, <1>4 DEF IInv

\* A return that was read as a recalled unit waits for the row; another one does not.
LEMMA ReturnWriteIInv ==
  ASSUME IInv, NEW w \in Worker, ReturnWrite(w)
  PROVE  IInv'
<1> DEFINE q == seen[w].qty
<1>1. q \in Nat /\ pc[w] = "return"
  BY DEF IInv, ControlOK, ReturnWrite
<1>2. CASE q > out
  BY <1>2, AbortIInv DEF ReturnWrite
<1>3. CASE ~ (q > out)
  <2>1. /\ out' = out - q /\ End(w)
        /\ UNCHANGED <<first, firstStatus, blocked, sold, viaLot, disposed,
                       status, step, distributedQty, reconciliation, recalls>>
        /\ \/ AtRow(w) /\ returned' = returned + q /\ recovered' = recovered + q
              /\ returnedQty' = returnedQty + q /\ UNCHANGED free
           \/ free' = free + q /\ UNCHANGED <<returned, recovered, returnedQty>>
    BY <1>3 DEF ReturnWrite
  <2> HIDE DEF q
  <2>2. DataOK'
    BY <1>1, <1>3, <2>1 DEF IInv, DataOK, StockOK, MovesOK, RowOK
  <2>3. LotsWithin'
    BY <1>1, <2>1 DEF IInv, DataOK, MovesOK, LotsWithin
  <2>4. CASE AtRow(w)
    BY <2>1, <2>2, <2>3, <2>4, WriteAlone DEF IInv
  <2>5. CASE ~ AtRow(w)
    <3>1. Relied'
      <4> SUFFICES ASSUME NEW v \in Worker, pc'[v] \in Locking PROVE StillSo(v)'
        BY DEF Relied
      <4>1. v # w /\ pc'[v] = pc[v] /\ seen'[v] = seen[v]
        BY <2>1, EndControl DEF Locking
      <4>2. StillSo(v)
        BY <4>1 DEF IInv, Relied
      <4> QED
        BY <2>1, <2>5, <4>1, <4>2 DEF StillSo
    <3> QED
      BY <2>1, <2>2, <2>3, <3>1, EndControl DEF IInv
  <2> QED
    BY <2>4, <2>5
<1> QED
  BY <1>2, <1>3

-----------------------------------------------------------------------------
(* Writes of operations that read the row unlocked. *)

\* Initiating.
LEMMA InitiateWriteIInv ==
  ASSUME IInv, NEW w \in Worker, InitiateWrite(w)
  PROVE  IInv'
<1>1. CASE status \notin {"none", "CANCELLED"} \/ recalls = MaxRecalls
  BY <1>1, AbortIInv DEF InitiateWrite
<1>2. CASE ~ (status \notin {"none", "CANCELLED"} \/ recalls = MaxRecalls)
  <2>1. End(w) /\ AtRow(w)
    BY <1>2 DEF InitiateWrite
  <2>2. DataOK' /\ LotsWithin'
    BY <1>2 DEF InitiateWrite, BlockLots, IInv, DataOK, StockOK, MovesOK, RowOK, LotsWithin,
                moveVars, RecallStatus, RecallStep
  <2> QED
    BY <2>1, <2>2, WriteAlone DEF IInv
<1> QED
  BY <1>1, <1>2

\* Locating, blocking, reporting and collecting.
LEMMA UnlockedWriteIInv ==
  ASSUME IInv, NEW w \in Worker, LocateWrite(w) \/ BlockWrite(w) \/ ReportWrite(w) \/ CollectWrite(w)
  PROVE  IInv'
<1>1. End(w) /\ AtRow(w)
  BY DEF LocateWrite, BlockWrite, ReportWrite, CollectWrite
<1>2. seen[w].qty \in Nat /\ seen[w].value \in Nat /\ seen[w].step \in RecallStep
  BY DEF IInv, ControlOK
<1>3. CASE LocateWrite(w)
  <2>1. DataOK' /\ LotsWithin'
    BY <1>2, <1>3 DEF LocateWrite, IInv, DataOK, StockOK, MovesOK, RowOK, LotsWithin,
                      stockVars, moveVars, RecallStep
  <2> QED
    BY <1>1, <2>1, WriteAlone DEF IInv
<1>4. CASE BlockWrite(w)
  <2>1. DataOK' /\ LotsWithin'
    BY <1>4 DEF BlockWrite, BlockLots, IInv, DataOK, StockOK, MovesOK, RowOK, LotsWithin,
                moveVars, RecallStep
  <2> QED
    BY <1>1, <2>1, WriteAlone DEF IInv
<1>5. CASE ReportWrite(w)
  <2>1. DataOK' /\ LotsWithin'
    BY <1>5 DEF ReportWrite, IInv, DataOK, StockOK, MovesOK, RowOK, LotsWithin,
                stockVars, moveVars, RecallStep
  <2> QED
    BY <1>1, <2>1, WriteAlone DEF IInv
<1>6. CASE CollectWrite(w)
  <2>1. DataOK' /\ LotsWithin'
    BY <1>2, <1>6 DEF CollectWrite, IInv, DataOK, StockOK, MovesOK, RowOK, LotsWithin, RecallStep
  <2> QED
    BY <1>1, <2>1, WriteAlone DEF IInv
<1> QED
  BY <1>3, <1>4, <1>5, <1>6

-----------------------------------------------------------------------------
(* Operations that lock the row. *)

\* A recovery is of no more than was outstanding when the row was locked.
LEMMA RecoverLockIInv ==
  ASSUME IInv, NEW w \in Worker, NEW q \in Quantity, RecoverLock(w, q)
  PROVE  IInv'
<1>1. [NothingSeen EXCEPT !.qty = q] \in [qty : Nat, value : Nat, recalled : BOOLEAN, step : RecallStep]
      /\ [NothingSeen EXCEPT !.qty = q].qty = q
  BY DEF NothingSeen, RecallStep
<1>2. q + recovered <= sold
  BY DEF RecoverLock, MayRecover, Outstanding, Positive, IInv, DataOK, MovesOK
<1> QED
  BY <1>1, <1>2, LockedIInv DEF RecoverLock, Locking

\* It adds to what was recovered no more than was outstanding.
LEMMA RecoverWriteIInv ==
  ASSUME IInv, NEW w \in Worker, RecoverWrite(w)
  PROVE  IInv'
<1>1. End(w) /\ AtRow(w) /\ seen[w].qty \in Nat
  BY DEF RecoverWrite, IInv, ControlOK
<1>2. seen[w].qty + recovered <= sold
  BY DEF RecoverWrite, IInv, Relied, StillSo, Locking
<1>3. DataOK' /\ LotsWithin'
  BY <1>1, <1>2 DEF RecoverWrite, IInv, DataOK, StockOK, MovesOK, RowOK, LotsWithin, RecallStep
<1> QED
  BY <1>1, <1>3, WriteAlone DEF IInv

\* A disposal takes from one quarantined lot what the lot has.
LEMMA DisposeWriteIInv ==
  ASSUME IInv, NEW w \in Worker, DisposeWrite(w)
  PROVE  IInv'
<1>1. pc[w] \in Locking /\ seen[w].qty \in Nat
  BY DEF DisposeWrite, Locking, IInv, ControlOK
<1>2. CASE Abort(w)
  BY <1>2, AbortIInv
<1>3. CASE ~ Abort(w)
  <2>1. End(w)
    BY <1>3 DEF DisposeWrite
  <2>2. DataOK' /\ LotsWithin'
    BY <1>1, <1>3 DEF DisposeWrite, IInv, DataOK, StockOK, MovesOK, RowOK, LotsWithin, recallVars
  <2> QED
    BY <1>1, <2>1, <2>2, WriteAlone DEF IInv
<1> QED
  BY <1>2, <1>3

\* A trace of the batch counts in whole units.
LEMMA SnapshotType ==
  ASSUME IInv
  PROVE  /\ Quarantined \in Nat /\ Outstanding \in Nat
         /\ Snapshot \in [sold : Nat, recovered : Nat, disposed : Nat, quarantined : Nat]
<1>1. Quarantined \in Nat
  BY DEF IInv, DataOK, StockOK, Quarantined
<1>2. Outstanding \in Nat
  BY DEF IInv, DataOK, MovesOK, Outstanding, Positive
<1> QED
  BY <1>1, <1>2 DEF IInv, DataOK, MovesOK, Snapshot

\* Reconciling, closing and cancelling.
LEMMA LockedWriteIInv ==
  ASSUME IInv, NEW w \in Worker, ReconcileWrite(w) \/ CompleteWrite(w) \/ CancelWrite(w)
  PROVE  IInv'
<1>1. End(w) /\ pc[w] \in Locking
  BY DEF ReconcileWrite, CompleteWrite, CancelWrite, Locking
<1>2. CASE ReconcileWrite(w)
  <2>1. Positive(Outstanding - seen[w].qty) \in Nat
    BY SnapshotType DEF Positive, IInv, ControlOK
  <2>2. reconciliation' \in ReconciliationType
    BY <1>2, <2>1, SnapshotType DEF ReconcileWrite, ReconciliationType
  <2>3. DataOK' /\ LotsWithin'
    BY <1>2, <2>2 DEF ReconcileWrite, IInv, DataOK, StockOK, MovesOK, RowOK, LotsWithin,
                      stockVars, moveVars
  <2> QED
    BY <1>1, <2>3, WriteAlone DEF IInv
<1>3. CASE CompleteWrite(w)
  <2>1. DataOK' /\ LotsWithin'
    BY <1>3 DEF CompleteWrite, IInv, DataOK, StockOK, MovesOK, RowOK, LotsWithin,
                stockVars, moveVars, RecallStatus, RecallStep
  <2> QED
    BY <1>1, <2>1, WriteAlone DEF IInv
<1>4. CASE CancelWrite(w)
  <2>1. DataOK' /\ LotsWithin'
    BY <1>4 DEF CancelWrite, IInv, DataOK, StockOK, MovesOK, RowOK, LotsWithin,
                moveVars, RecallStatus
  <2> QED
    BY <1>1, <2>1, WriteAlone DEF IInv
<1> QED
  BY <1>2, <1>3, <1>4

-----------------------------------------------------------------------------
(* The invariant. *)

\* Every arrival of a request.
LEMMA ArriveIInv ==
  ASSUME IInv, NEW w \in Worker, Arrive(w)
  PROVE  IInv'
<1> DEFINE R == [qty : Nat, value : Nat, recalled : BOOLEAN, step : RecallStep]
<1>1. NothingSeen \in R /\ sold \in Nat /\ returnedQty \in Nat /\ step \in RecallStep
  BY DEF NothingSeen, RecallStep, IInv, DataOK, MovesOK, RowOK
<1>2. CASE InitiateRead(w) \/ LocateRead(w) \/ BlockRead(w) \/ ReportRead(w)
  <2>1. [NothingSeen EXCEPT !.value = sold] \in R
    BY <1>1 DEF NothingSeen
  <2> QED
    BY <1>1, <1>2, <2>1, ReadIInv DEF InitiateRead, LocateRead, BlockRead, ReportRead, Reading
<1>3. CASE CompleteLock(w) \/ CancelLock(w)
  BY <1>1, <1>3, LockedIInv DEF CompleteLock, CancelLock, Locking
<1>4. ASSUME NEW q \in Quantity, Sell(w, q)
      PROVE  IInv'
  BY <1>4, SellIInv
<1>5. ASSUME NEW q \in Quantity, ReturnRead(w, q)
      PROVE  IInv'
  <2> DEFINE b == status \in {"IN_PROGRESS", "COMPLETED"}
  <2>1. [NothingSeen EXCEPT !.qty = q, !.recalled = b] \in R
    <3>1. b \in BOOLEAN
      OBVIOUS
    <3> HIDE DEF b
    <3> QED
      BY <1>1, <3>1 DEF NothingSeen
  <2> QED
    BY <1>5, <2>1, ReadIInv DEF ReturnRead, Reading
<1>6. ASSUME NEW q \in Quantity, CollectRead(w, q)
      PROVE  IInv'
  <2>1. [NothingSeen EXCEPT !.qty = q, !.value = returnedQty, !.step = step] \in R
    BY <1>1 DEF NothingSeen
  <2> QED
    BY <1>6, <2>1, ReadIInv DEF CollectRead, Reading
<1>7. ASSUME NEW q \in Quantity, RecoverLock(w, q)
      PROVE  IInv'
  BY <1>7, RecoverLockIInv
<1>8. ASSUME NEW q \in Quantity \cup {0}, DisposeLock(w, q) \/ ReconcileLock(w, q)
      PROVE  IInv'
  <2>1. [NothingSeen EXCEPT !.qty = q] \in R
    BY <1>1 DEF NothingSeen
  <2> QED
    BY <1>8, <2>1, LockedIInv DEF DisposeLock, ReconcileLock, Locking
<1> QED
  BY <1>2, <1>3, <1>4, <1>5, <1>6, <1>7, <1>8 DEF Arrive

\* Every step of the system.
LEMMA NextIInv == IInv /\ [Next]_vars => IInv'
<1> SUFFICES ASSUME IInv, [Next]_vars PROVE IInv'
  OBVIOUS
<1>1. CASE UNCHANGED vars
  BY <1>1 DEF IInv, DataOK, StockOK, MovesOK, RowOK, ControlOK, LockOwned, Relied, StillSo, LotsWithin,
              vars, data, stockVars, moveVars, recallVars
<1>2. ASSUME NEW w \in Worker, Arrive(w) \/ Step(w) \/ Timeout(w)
      PROVE  IInv'
  <2>1. CASE Step(w)
    BY <2>1, ReturnWriteIInv, InitiateWriteIInv, UnlockedWriteIInv, RecoverWriteIInv,
       DisposeWriteIInv, LockedWriteIInv DEF Step
  <2> QED
    BY <1>2, <2>1, ArriveIInv, AbortIInv DEF Timeout
<1> QED
  BY <1>1, <1>2 DEF Next

\* The inductive invariant holds in every state of every behaviour.
THEOREM Invariance == Spec => []IInv
BY InitIInv, NextIInv, PTL DEF Spec

-----------------------------------------------------------------------------
(* What follows. *)

\* Every variable keeps its type: no quantity of stock, of sales or of recoveries
\* is ever negative.
THEOREM TypeCorrect == Spec => []TypeOK
<1>1. IInv => TypeOK
  BY DEF IInv, DataOK, StockOK, MovesOK, RowOK, ControlOK, TypeOK, ReconciliationType
<1> QED
  BY <1>1, Invariance, PTL

\* The units recovered lot by lot (collectReturnForLot) never exceed the units sold,
\* however recoveries, sales, returns and other collections interleave.
THEOREM RecoveryBounded == Spec => []RecoveredWithinSold
<1>1. IInv => RecoveredWithinSold
  BY DEF IInv, LotsWithin, RecoveredWithinSold
<1> QED
  BY <1>1, Invariance, PTL

\* Only completeRecall closes a recall, and what it checked is still so.
LEMMA CloseStep ==
  ASSUME IInv, [Next]_vars, status # "COMPLETED", status' = "COMPLETED"
  PROVE  /\ reconciliation # None /\ reconciliation.outstanding = 0
         /\ reconciliation.snapshot.recovered = recovered /\ reconciliation.snapshot.disposed = disposed
<1>1. PICK w \in Worker : CompleteWrite(w)
  BY ZenonT(40) DEF Next, Arrive, Step, Timeout, Abort, vars, data, recallVars, Read, Locked,
         InitiateRead, LocateRead, BlockRead, ReportRead, CompleteLock, CancelLock, Sell, ReturnRead,
         CollectRead, RecoverLock, DisposeLock, ReconcileLock, ReturnWrite, InitiateWrite, LocateWrite,
         BlockWrite, ReportWrite, CollectWrite, RecoverWrite, DisposeWrite, ReconcileWrite, CancelWrite
<1> QED
  BY <1>1 DEF CompleteWrite, IInv, Relied, StillSo, Locking

\* Once it is closed, no step reopens it or takes stock out of quarantine.
LEMMA ClosedStep ==
  ASSUME IInv, [Next]_vars, status = "COMPLETED"
  PROVE  status' = "COMPLETED" /\ Quarantined' >= Quarantined
<1> USE DEF Quarantined
<1>1. StockOK /\ Quarantined \in Nat
  BY SnapshotType DEF IInv, DataOK
<1>2. \A w \in Worker : pc[w] \notin Locking /\ seen[w].qty \in Nat
  BY DEF IInv, Relied, StillSo, ControlOK
<1>3. CASE UNCHANGED data
  BY <1>1, <1>3 DEF data, stockVars, recallVars
<1>4. ASSUME NEW w \in Worker, Arrive(w)
      PROVE  status' = "COMPLETED" /\ Quarantined' >= Quarantined
  <2>1. CASE UNCHANGED data
    BY <1>3, <2>1
  <2>2. ASSUME NEW q \in Quantity, Sell(w, q)
        PROVE  status' = "COMPLETED" /\ Quarantined' >= Quarantined
    BY <1>1, <2>2 DEF Sell, recallVars
  <2> QED
    BY <1>4, <2>1, <2>2 DEF Arrive, Read, Locked, InitiateRead, LocateRead, BlockRead, ReportRead,
       CompleteLock, CancelLock, ReturnRead, CollectRead, RecoverLock, DisposeLock, ReconcileLock
<1>5. ASSUME NEW w \in Worker, Step(w)
      PROVE  status' = "COMPLETED" /\ Quarantined' >= Quarantined
  <2>1. CASE UNCHANGED data
    BY <1>3, <2>1
  <2>2. CASE ~ UNCHANGED data
    <3>1. CASE ReturnWrite(w)
      BY <1>1, <1>2, <2>2, <3>1 DEF ReturnWrite, Abort, StockOK
    <3>2. CASE BlockWrite(w)
      BY <1>1, <3>2 DEF BlockWrite, BlockLots, StockOK
    <3>3. CASE CollectWrite(w)
      BY <1>1, <1>2, <3>3 DEF CollectWrite, StockOK
    <3>4. CASE InitiateWrite(w) \/ LocateWrite(w) \/ ReportWrite(w)
      BY <1>1, <2>2, <3>4 DEF InitiateWrite, LocateWrite, ReportWrite, Abort, stockVars
    <3> QED
      BY <1>2, <1>5, <3>1, <3>2, <3>3, <3>4
         DEF Step, RecoverWrite, DisposeWrite, ReconcileWrite, CompleteWrite, CancelWrite, Locking
  <2> QED
    BY <2>1, <2>2
<1> QED
  BY <1>3, <1>4, <1>5 DEF Next, Timeout, Abort, vars

\* A recall closes on a reconciliation that leaves nothing outstanding and whose
\* recoveries and disposals are those recorded at that moment (completeRecall checks
\* them under the lock it writes under); and once it is closed nothing in flight
\* reopens it or takes its stock out of quarantine.
THEOREM RecallClosesForGood == Spec => ClosedForGood
<1>1. IInv /\ [Next]_vars =>
        [status # "COMPLETED" /\ status' = "COMPLETED" =>
           /\ reconciliation # None /\ reconciliation.outstanding = 0
           /\ reconciliation.snapshot.recovered = recovered /\ reconciliation.snapshot.disposed = disposed]_vars
  BY CloseStep
<1>2. IInv /\ [Next]_vars =>
        [status = "COMPLETED" => status' = "COMPLETED" /\ Quarantined' >= Quarantined]_vars
  BY ClosedStep
<1>3. Spec => ClosedWasReconciled
  BY <1>1, Invariance, PTL DEF Spec, ClosedWasReconciled
<1>4. Spec => ClosedStaysQuarantined
  BY <1>2, Invariance, PTL DEF Spec, ClosedStaysQuarantined
<1> QED
  BY <1>3, <1>4 DEF ClosedForGood
=============================================================================
