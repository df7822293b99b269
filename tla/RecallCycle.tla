----------------------------- MODULE RecallCycle ----------------------------
(***************************************************************************)
(* The recall of one product batch from its initiation to its closing or   *)
(* cancelling: quarantine, tracing, recovery, disposal, reconciliation,    *)
(* while the batch is sold and customers bring units back.                 *)
(*                                                                         *)
(* The newer operations lock the recall's row first; the older ones (the   *)
(* tracing steps and the collection without a lot) read it unlocked and    *)
(* wait for the row only when they write it, without looking again.        *)
(***************************************************************************)
EXTENDS Integers

CONSTANTS
  Worker, None,
  Packed,      \* units in the batch's first lot
  Quantity,    \* quantities a request may name
  MaxSold,     \* bound: units sold in all
  MaxRecalls,  \* bound: times a recall is initiated
  Ops          \* kinds of request issued

ASSUME RecallAssumption ==
  /\ None \notin Worker /\ Packed \in Nat /\ Quantity \subseteq Nat \ {0}
  /\ MaxSold \in Nat /\ MaxRecalls \in Nat

RecallStatus == {"none", "IN_PROGRESS", "COMPLETED", "CANCELLED"}
RecallStep   == {"INITIATED", "DISTRIBUTION_LOCATED", "SALES_BLOCKED", "REPORT_GENERATED",
                 "RETURN_COLLECTED", "COMPLETED"}

VARIABLES
  first, firstStatus,        \* the batch's first lot: quantity, status
  free, blocked, returned,   \* units in its other lots, by status
  sold, out,                 \* units that left by sales; of these, not brought back
  recovered, viaLot, disposed, \* recall movements: in, those of them per lot, scrapped
  status, step,              \* the recall's row
  distributedQty, returnedQty, \* its columns
  reconciliation,            \* the latest since its initiation, or None
  recalls,                   \* times it was initiated
  recallLock,                \* lock on its row
  pc, seen

stockVars  == <<first, firstStatus, free, blocked, returned>>
moveVars   == <<sold, out, recovered, viaLot, disposed>>
recallVars == <<status, step, distributedQty, returnedQty, reconciliation, recalls>>
data == <<stockVars, moveVars, recallVars>>
vars == <<data, recallLock, pc, seen>>

Reading == {"initiate", "locate", "block", "report", "collect", "return"}
Locking == {"recover", "dispose", "reconcile", "complete", "cancel"}

NothingSeen == [qty |-> 0, value |-> 0, recalled |-> FALSE, step |-> "INITIATED"]

Init ==
  /\ first = Packed /\ firstStatus = "APPROVED"
  /\ free = 0 /\ blocked = 0 /\ returned = 0
  /\ sold = 0 /\ out = 0 /\ recovered = 0 /\ viaLot = 0 /\ disposed = 0
  /\ status = "none" /\ step = "INITIATED" /\ distributedQty = 0 /\ returnedQty = 0
  /\ reconciliation = None /\ recalls = 0
  /\ recallLock = None
  /\ pc = [w \in Worker |-> "idle"] /\ seen = [w \in Worker |-> NothingSeen]

-----------------------------------------------------------------------------
(* What a trace of the batch shows, and requests. *)

Positive(n) == IF n > 0 THEN n ELSE 0

Quarantined == blocked + returned + (IF firstStatus = "APPROVED" THEN 0 ELSE first)

Outstanding == Positive(sold - recovered)

\* Mutant of Snapshot: what was recovered and disposed of is left out.
SalesOnly == [sold |-> sold, recovered |-> 0, disposed |-> 0, quarantined |-> 0]

Snapshot == [sold |-> sold, recovered |-> recovered, disposed |-> disposed, quarantined |-> Quarantined]

Active == status = "IN_PROGRESS"
Located == Active /\ step # "INITIATED"

Start(w, op, r) ==
  /\ op \in Ops /\ pc[w] = "idle"
  /\ pc' = [pc EXCEPT ![w] = op] /\ seen' = [seen EXCEPT ![w] = r]

\* A request that locked nothing: it reads, and only reads, for now.
Read(w, op, r) == Start(w, op, r) /\ UNCHANGED <<data, recallLock>>

Lock(w) == recallLock = None /\ recallLock' = w

\* activeRecallTx: the row is locked, then its status is read.
Locked(w, op, r) == Active /\ Lock(w) /\ Start(w, op, r) /\ UNCHANGED data

End(w) ==
  /\ recallLock' = (IF recallLock = w THEN None ELSE recallLock)
  /\ pc' = [pc EXCEPT ![w] = "idle"] /\ seen' = [seen EXCEPT ![w] = NothingSeen]

Abort(w) == End(w) /\ UNCHANGED data

Timeout(w) == pc[w] # "idle" /\ Abort(w)

\* An UPDATE of the recall's row waits for whoever holds it.
AtRow(w) == recallLock \in {None, w}

-----------------------------------------------------------------------------
(* Sales and returns. *)

\* A sale locks the lots it takes from: one step here, in detail in LotStock.
Sell(w, q) ==
  /\ "sell" \in Ops /\ pc[w] = "idle" /\ sold + q <= MaxSold
  /\ \/ firstStatus = "APPROVED" /\ q <= first /\ first' = first - q /\ UNCHANGED free
     \/ q <= free /\ free' = free - q /\ UNCHANGED first
  /\ sold' = sold + q /\ out' = out + q
  /\ UNCHANGED <<firstStatus, blocked, returned, recovered, viaLot, disposed, recallVars, recallLock, pc, seen>>

\* findRecallForSoldItem: an unlocked look at the recall, closed ones included.
ReturnRead(w, q) ==
  /\ q <= out
  /\ Read(w, "return", [NothingSeen EXCEPT !.qty = q, !.recalled = status \in {"IN_PROGRESS", "COMPLETED"}])

\* recordRecallAffectedReturn puts a recalled unit in a RETURNED lot, whatever the
\* recall's counters say; any other unit becomes sellable stock of its batch.
ReturnWrite(w) ==
  /\ pc[w] = "return"
  /\ LET q == seen[w].qty IN
     IF q > out THEN Abort(w)
     ELSE /\ out' = out - q
          /\ IF seen[w].recalled
             THEN /\ AtRow(w) /\ returned' = returned + q /\ recovered' = recovered + q
                  /\ returnedQty' = returnedQty + q /\ UNCHANGED free
             ELSE free' = free + q /\ UNCHANGED <<returned, recovered, returnedQty>>
          /\ End(w)
          /\ UNCHANGED <<first, firstStatus, blocked, sold, viaLot, disposed,
                         status, step, distributedQty, reconciliation, recalls>>

-----------------------------------------------------------------------------
(* Operations that read the recall unlocked. *)

\* Every APPROVED lot of the batch becomes BLOCKED.
BlockLots ==
  /\ blocked' = blocked + free /\ free' = 0
  /\ firstStatus' = (IF firstStatus = "APPROVED" THEN "BLOCKED" ELSE firstStatus)
  /\ UNCHANGED <<first, returned>>

InitiateRead(w) ==
  /\ status \in {"none", "CANCELLED"} /\ recalls < MaxRecalls
  /\ Read(w, "initiate", NothingSeen)

\* initiateRecall: the row is created or taken back from CANCELLED, once.
InitiateWrite(w) ==
  /\ pc[w] = "initiate" /\ AtRow(w)
  /\ IF status \notin {"none", "CANCELLED"} \/ recalls = MaxRecalls THEN Abort(w)
     ELSE /\ status' = "IN_PROGRESS" /\ step' = "INITIATED" /\ recalls' = recalls + 1
          /\ distributedQty' = 0 /\ returnedQty' = 0 /\ reconciliation' = None
          /\ BlockLots /\ End(w) /\ UNCHANGED moveVars

LocateRead(w) == Active /\ Read(w, "locate", [NothingSeen EXCEPT !.value = sold])

LocateWrite(w) ==
  /\ pc[w] = "locate" /\ AtRow(w)
  /\ step' = "DISTRIBUTION_LOCATED" /\ distributedQty' = seen[w].value
  /\ End(w) /\ UNCHANGED <<stockVars, moveVars, status, returnedQty, reconciliation, recalls>>

BlockRead(w) == Located /\ Read(w, "block", NothingSeen)

BlockWrite(w) ==
  /\ pc[w] = "block" /\ AtRow(w)
  /\ BlockLots /\ step' = "SALES_BLOCKED"
  /\ End(w) /\ UNCHANGED <<moveVars, status, distributedQty, returnedQty, reconciliation, recalls>>

ReportRead(w) == Located /\ Read(w, "report", NothingSeen)

ReportWrite(w) ==
  /\ pc[w] = "report" /\ AtRow(w)
  /\ step' = "REPORT_GENERATED"
  /\ End(w) /\ UNCHANGED <<stockVars, moveVars, status, distributedQty, returnedQty, reconciliation, recalls>>

\* collectReturn without a lot: the whole first lot becomes RETURNED, and the
\* recall's counter is written as the value read plus the quantity.
CollectRead(w, q) ==
  /\ Located /\ returnedQty + q <= distributedQty
  /\ Read(w, "collect", [NothingSeen EXCEPT !.qty = q, !.value = returnedQty, !.step = step])

CollectWrite(w) ==
  /\ pc[w] = "collect" /\ AtRow(w)
  /\ first' = first + seen[w].qty /\ firstStatus' = "RETURNED"
  /\ recovered' = recovered + seen[w].qty /\ returnedQty' = seen[w].value + seen[w].qty
  /\ step' = (IF seen[w].step = "REPORT_GENERATED" THEN "RETURN_COLLECTED" ELSE seen[w].step)
  /\ End(w)
  /\ UNCHANGED <<free, blocked, returned, sold, out, viaLot, disposed,
                 status, distributedQty, reconciliation, recalls>>

-----------------------------------------------------------------------------
(* Operations that lock it. *)

\* Mutant of MayRecover: nothing limits what is recovered.
MayRecoverAny(q) == step # "INITIATED"

MayRecover(q) == step # "INITIATED" /\ q <= Outstanding

\* collectReturnForLot: the batch is traced under the lock.
RecoverLock(w, q) == MayRecover(q) /\ Locked(w, "recover", [NothingSeen EXCEPT !.qty = q])

RecoverWrite(w) ==
  /\ pc[w] = "recover" /\ AtRow(w)
  /\ returned' = returned + seen[w].qty /\ recovered' = recovered + seen[w].qty
  /\ viaLot' = viaLot + seen[w].qty /\ returnedQty' = returnedQty + seen[w].qty
  /\ step' = (IF step = "REPORT_GENERATED" THEN "RETURN_COLLECTED" ELSE step)
  /\ End(w)
  /\ UNCHANGED <<first, firstStatus, free, blocked, sold, out, disposed,
                 status, distributedQty, reconciliation, recalls>>

DisposeLock(w, q) == Locked(w, "dispose", [NothingSeen EXCEPT !.qty = q])

\* disposeStock: one quarantined lot, read under its own lock, gives up the quantity.
DisposeWrite(w) ==
  /\ pc[w] = "dispose"
  /\ LET q == seen[w].qty IN
     \/ /\ \/ firstStatus # "APPROVED" /\ q <= first /\ first' = first - q /\ UNCHANGED <<blocked, returned>>
           \/ q <= blocked /\ blocked' = blocked - q /\ UNCHANGED <<first, returned>>
           \/ q <= returned /\ returned' = returned - q /\ UNCHANGED <<first, blocked>>
        /\ disposed' = disposed + q
        /\ End(w) /\ UNCHANGED <<firstStatus, free, sold, out, recovered, viaLot, recallVars>>
     \/ q > Quarantined /\ Abort(w)

\* What the user declares unavailable may not exceed what is outstanding.
ReconcileLock(w, q) ==
  /\ step # "INITIATED" /\ q <= Outstanding
  /\ Locked(w, "reconcile", [NothingSeen EXCEPT !.qty = q])

ReconcileWrite(w) ==
  /\ pc[w] = "reconcile"
  /\ reconciliation' = [outstanding |-> Positive(Outstanding - seen[w].qty), snapshot |-> Snapshot]
  /\ End(w) /\ UNCHANGED <<stockVars, moveVars, status, step, distributedQty, returnedQty, recalls>>

\* completeRecall: a reconciliation of the present stock that leaves nothing outstanding.
MayClose ==
  reconciliation # None /\ reconciliation.snapshot = Snapshot /\ reconciliation.outstanding = 0

CompleteLock(w) == MayClose /\ Locked(w, "complete", NothingSeen)

CompleteWrite(w) ==
  /\ pc[w] = "complete" /\ AtRow(w)
  /\ status' = "COMPLETED" /\ step' = "COMPLETED"
  /\ End(w) /\ UNCHANGED <<stockVars, moveVars, distributedQty, returnedQty, reconciliation, recalls>>

CancelLock(w) == Locked(w, "cancel", NothingSeen)

\* cancelRecall: BLOCKED lots are sellable again, RETURNED ones are not.
CancelWrite(w) ==
  /\ pc[w] = "cancel" /\ AtRow(w)
  /\ status' = "CANCELLED"
  /\ free' = free + blocked /\ blocked' = 0
  /\ firstStatus' = (IF firstStatus = "BLOCKED" THEN "APPROVED" ELSE firstStatus)
  /\ End(w)
  /\ UNCHANGED <<first, returned, moveVars, step, distributedQty, returnedQty, reconciliation, recalls>>

-----------------------------------------------------------------------------

Step(w) ==
  \/ ReturnWrite(w) \/ InitiateWrite(w) \/ LocateWrite(w) \/ BlockWrite(w) \/ ReportWrite(w)
  \/ CollectWrite(w) \/ RecoverWrite(w) \/ DisposeWrite(w) \/ ReconcileWrite(w)
  \/ CompleteWrite(w) \/ CancelWrite(w)

Arrive(w) ==
  \/ InitiateRead(w) \/ LocateRead(w) \/ BlockRead(w) \/ ReportRead(w)
  \/ CompleteLock(w) \/ CancelLock(w)
  \/ \E q \in Quantity :
       Sell(w, q) \/ ReturnRead(w, q) \/ CollectRead(w, q) \/ RecoverLock(w, q) \/ DisposeLock(w, q)
  \/ \E q \in Quantity \cup {0} : ReconcileLock(w, q)

Next == \E w \in Worker : Arrive(w) \/ Step(w) \/ Timeout(w)

Spec == Init /\ [][Next]_vars

-----------------------------------------------------------------------------
(* Properties. *)

TypeOK ==
  /\ first \in Nat /\ firstStatus \in {"APPROVED", "BLOCKED", "RETURNED"}
  /\ free \in Nat /\ blocked \in Nat /\ returned \in Nat
  /\ sold \in Nat /\ out \in Nat /\ recovered \in Nat /\ viaLot \in Nat /\ disposed \in Nat
  /\ status \in RecallStatus /\ step \in RecallStep
  /\ distributedQty \in Nat /\ returnedQty \in Nat /\ recalls \in Nat
  /\ reconciliation = None \/
     reconciliation \in [outstanding : Nat,
                         snapshot : [sold : Nat, recovered : Nat, disposed : Nat, quarantined : Nat]]
  /\ recallLock \in Worker \cup {None}
  /\ pc \in [Worker -> {"idle"} \cup Reading \cup Locking]
  /\ seen \in [Worker -> [qty : Nat, value : Nat, recalled : BOOLEAN, step : RecallStep]]

\* "Only what is distributed and not yet recovered": recoveries of the same units
\* entered twice, at once or again, never exceed what was sold.
RecoveredWithinSold == viaLot <= sold

\* A closed recall was reconciled to nothing outstanding, against the recoveries and
\* disposals recorded when it closes, not only when it was checked.
ClosedWasReconciled ==
  [][status # "COMPLETED" /\ status' = "COMPLETED" =>
       /\ reconciliation # None /\ reconciliation.outstanding = 0
       /\ reconciliation.snapshot.recovered = recovered /\ reconciliation.snapshot.disposed = disposed]_vars

\* "Quarantined stock stays quarantined": nothing that was in flight when a recall
\* closed takes stock out of quarantine or reopens it.
ClosedStaysQuarantined ==
  [][status = "COMPLETED" => status' = "COMPLETED" /\ Quarantined' >= Quarantined]_vars

\* A recall closes on figures that are true, and for good.
ClosedForGood == ClosedWasReconciled /\ ClosedStaysQuarantined

-----------------------------------------------------------------------------
(* What the code's comments and messages say and the model refutes. *)

\* recall.service.ts:769: "Returned quantity cannot exceed the distributed quantity":
\* two collections that overlap both pass, and one total is lost.
ReturnedIsCounted == status = "IN_PROGRESS" /\ recalls = 1 => returnedQty >= recovered

\* recall.service.ts:860: "Release whatever this recall blocked back to sellable
\* stock": a blocking that read the recall before it was cancelled blocks it again,
\* and no active recall is left to cancel.
BlockedHasRecall == firstStatus = "BLOCKED" => status \in {"IN_PROGRESS", "COMPLETED"}

\* recall.service.ts:390: a recall blocks the batch's stock: a customer's return that
\* looked before the recall is sellable after it.
RecalledIsBlocked == status = "IN_PROGRESS" => free = 0

=============================================================================
