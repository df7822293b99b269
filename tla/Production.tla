----------------------------- MODULE Production -----------------------------
(***************************************************************************)
(* Production runs of one recipe, the batches they complete, the bulk they *)
(* credit and its packaging: in two phases (a ticket reserves bulk, its    *)
(* confirmation makes packets) or in one request that does both.           *)
(*                                                                         *)
(* Most handlers lock the ProductBatch row; QC inspection, recalls and the *)
(* cancelling of a ticket do not.  What a transaction wrote shows when it  *)
(* commits, in its last step.                                              *)
(***************************************************************************)
EXTENDS Sums, FiniteSets

CONSTANTS
  Worker,       \* requests that may be in flight together
  BatchOrder,   \* the runs and their batches, oldest first: one batch per run
  Ticket,       \* packaging runs
  Entry,        \* package-and-confirm submissions: a retry repeats its Entry
  None,
  MaxUnits,     \* bound on every quantity of bulk
  Yield, Pack,  \* quantities a run may produce, a ticket may pack
  Extra,        \* units of material reported as used beyond the plan
  SharedTotal,  \* per-batch packaging expense of the recipe
  Mixes         \* what a behaviour starts with and issues: [ops, seasoned, runs, material]

Batch == Range(BatchOrder)
Units == 0..MaxUnits

ASSUME ProductionAssumption ==
  /\ None \notin Worker \cup Batch \cup Ticket \cup Entry
  /\ BatchOrder \in Seq(Batch) /\ IsInjective(BatchOrder) /\ IsFiniteSet(Ticket)
  /\ Batch # {} /\ \A m \in Mixes : m.seasoned \subseteq Batch /\ m.runs <= Len(BatchOrder) /\ m.material \in Nat
  /\ MaxUnits \in Nat /\ Yield \subseteq 1..MaxUnits /\ Pack \subseteq 1..MaxUnits
  /\ Extra \subseteq Nat /\ SharedTotal \in Nat

RunStatus    == {"none", "PENDING", "IN_PROGRESS", "COMPLETED", "CANCELLED", "STOPPED"}
QcStatus     == {"none", "PENDING", "APPROVED", "PARTIALLY_APPROVED", "REJECTED", "QC_NOT_REQUIRED"}
Packageable  == {"APPROVED", "PARTIALLY_APPROVED", "QC_NOT_REQUIRED"}
PackedStatus == {"PENDING", "PARTIALLY_PACKED", "PACKAGED"}
TicketState  == {"none", "AWAITING_CONFIRMATION", "CONFIRMED", "CANCELLED"}

VARIABLES
  mix,                                   \* the member of Mixes this behaviour is about
  qcEnabled, material,                   \* the environment's flag; raw material in stock
  run, qc, produced, approved,           \* per run: status; per batch: QC status, quantities
  packaged, packing,                     \* per batch: units packed, packaging status
  free, held,                            \* its bulk lots: units APPROVED, units BLOCKED
  stock, untracked,                      \* the bulk item's stock; what left it from no lot
  tState, tBatch, tWeight,               \* tickets
  goodQty, lot, tBlocked,                \* good packets: noted, credited; tickets whose lot (bulk, then packets) is BLOCKED
  recall,                                \* whether the batch is under recall
  charged, wasted, credited, inspections, \* totals per batch: expense charged, units, inspections
  form, packs,                           \* submissions: what the page showed; commits
  runLock, batchLock, ticketLock,        \* row locks: holder or None
  pc, on, seen                           \* per request: control, row, values read

runVars    == <<mix, qcEnabled, material, run>>
batchVars  == <<qc, produced, approved, credited, inspections>>
packVars   == <<packaged, packing, charged, wasted>>
bulkVars   == <<free, held, stock, untracked>>
ticketVars == <<tState, tBatch, tWeight, goodQty, lot>>
recallVars == <<recall, tBlocked>>
formVars   == <<form, packs>>
data  == <<runVars, batchVars, packVars, bulkVars, ticketVars, recallVars, formVars>>
locks == <<runLock, batchLock, ticketLock>>
vars  == <<data, locks, pc, on, seen>>

PC == {"idle", "start", "approve", "inspect", "release", "ticket", "verify", "confirmTicket",
       "confirm", "pack", "cancelTicket", "waste", "recall"}

\* What a request has read: the batch's packaged quantity, its unpacked balance.
NothingSeen == [packed |-> 0, balance |-> 0]
Seen == [packed : Nat, balance : Int]

NoForm == [batch |-> None, expected |-> 0, weight |-> 0]

Each(v) == [b \in Batch |-> v]

Init ==
  /\ mix \in Mixes /\ qcEnabled \in BOOLEAN /\ material = mix.material
  /\ run = [b \in Batch |-> IF b \in mix.seasoned THEN "COMPLETED" ELSE "none"]
  /\ qc = [b \in Batch |-> IF b \in mix.seasoned THEN "PENDING" ELSE "none"]
  /\ produced \in [Batch -> Yield \cup {0}] /\ \A b \in Batch : produced[b] = 0 <=> b \notin mix.seasoned
  /\ approved = Each(0) /\ packaged = Each(0) /\ packing = Each("PENDING")
  /\ free = Each(0) /\ held = Each(0) /\ stock = 0 /\ untracked = 0
  /\ tState = [t \in Ticket |-> "none"] /\ tBatch = [t \in Ticket |-> BatchOrder[1]]
  /\ tWeight = [t \in Ticket |-> 0] /\ goodQty = [t \in Ticket |-> 0] /\ lot = [t \in Ticket |-> 0]
  /\ recall = Each(FALSE) /\ tBlocked = {}
  /\ charged = Each(0) /\ wasted = Each(0) /\ credited = Each(0) /\ inspections = Each(0)
  /\ form = [e \in Entry |-> NoForm] /\ packs = [e \in Entry |-> 0]
  /\ runLock = Each(None) /\ batchLock = Each(None) /\ ticketLock = [t \in Ticket |-> None]
  /\ pc = [w \in Worker |-> "idle"] /\ on = [w \in Worker |-> None]
  /\ seen = [w \in Worker |-> NothingSeen]

-----------------------------------------------------------------------------
(* Requests and row locks. *)

Start(w, op, p, r) ==
  /\ op \in mix.ops /\ pc[w] = "idle"
  /\ pc' = [pc EXCEPT ![w] = p] /\ on' = [on EXCEPT ![w] = r]

See(w, r) == seen' = [seen EXCEPT ![w] = r]

Freed(lock, w) == [x \in DOMAIN lock |-> IF lock[x] = w THEN None ELSE lock[x]]

End(w) ==
  /\ runLock' = Freed(runLock, w) /\ batchLock' = Freed(batchLock, w)
  /\ ticketLock' = Freed(ticketLock, w)
  /\ pc' = [pc EXCEPT ![w] = "idle"] /\ on' = [on EXCEPT ![w] = None]
  /\ See(w, NothingSeen)

\* An exception or a timeout rolls the transaction back.
Abort(w) == End(w) /\ UNCHANGED data

Timeout(w) == pc[w] # "idle" /\ Abort(w)

\* Mutant of LockBatch: the row is read without FOR UPDATE.
LockBatchNot(w, b) == UNCHANGED batchLock

LockBatch(w, b) == batchLock[b] = None /\ batchLock' = [batchLock EXCEPT ![b] = w]

\* Mutant of LockTicket: the ticket is read without FOR UPDATE.
LockTicketNot(w, t) == UNCHANGED ticketLock

LockTicket(w, t) == ticketLock[t] = None /\ ticketLock' = [ticketLock EXCEPT ![t] = w]

-----------------------------------------------------------------------------
(* Quantities of bulk. *)

Lesser(a, b) == IF a < b THEN a ELSE b
Positive(n) == IF n > 0 THEN n ELSE 0

Awaiting(b) == {t \in Ticket : tState[t] = "AWAITING_CONFIRMATION" /\ tBatch[t] = b}

Balance(b) == approved[b] - packaged[b] - SumOf(tWeight, Awaiting(b))

\* n units of b enter the bulk item's stock as a lot of their own.
Credit(b, n) ==
  /\ free' = [free EXCEPT ![b] = @ + n] /\ stock' = stock + n
  /\ credited' = [credited EXCEPT ![b] = @ + n]

\* recordMovement without a chosen lot: the oldest lots of any batch.
Fifo(n) == [took |-> InTurn(BatchOrder, free, n), left |-> Positive(n - SumOf(free, Batch))]

PackingStatus(b, n) == IF n >= approved[b] THEN "PACKAGED" ELSE "PARTIALLY_PACKED"

-----------------------------------------------------------------------------
(* Production runs. *)

\* startProduction checks the material unlocked, then deducts it.
StartRead(w) ==
  /\ Start(w, "start", "start", None) /\ material >= 1
  /\ UNCHANGED <<data, locks, seen>>

StartWrite(w) ==
  /\ pc[w] = "start"
  /\ \E i \in 1..mix.runs :
       /\ run[BatchOrder[i]] = "none" /\ \A j \in 1..(i - 1) : run[BatchOrder[j]] # "none"
       /\ run' = [run EXCEPT ![BatchOrder[i]] = "IN_PROGRESS"]
  /\ material' = material - 1
  /\ End(w)
  /\ UNCHANGED <<mix, qcEnabled, batchVars, packVars, bulkVars, ticketVars, recallVars, formVars>>

\* stopProduction and updateStatus: one UPDATE, whatever the status was.
SetRun(w, b, s) ==
  /\ (IF s = "STOPPED" THEN "stop" ELSE "setRun") \in mix.ops
  /\ pc[w] = "idle" /\ run[b] # "none" /\ runLock[b] = None
  /\ run' = [run EXCEPT ![b] = s]
  /\ UNCHANGED <<mix, qcEnabled, material, batchVars, packVars, bulkVars, ticketVars, recallVars, formVars,
                 locks, pc, on, seen>>

ApproveLock(w, b) ==
  /\ Start(w, "approve", "approve", b)
  /\ runLock[b] = None /\ run[b] \in {"STOPPED", "IN_PROGRESS"}
  /\ runLock' = [runLock EXCEPT ![b] = w]
  /\ UNCHANGED <<data, batchLock, ticketLock, seen>>

\* releaseToPackagingTx: the whole output becomes bulk stock.
Released(b, n) ==
  /\ qc' = [qc EXCEPT ![b] = "QC_NOT_REQUIRED"] /\ approved' = [approved EXCEPT ![b] = n]
  /\ Credit(b, n)

\* approveProduction: the extra material, the batch, and with QC off its release.
\* A run has one batch: a second one breaks the unique key.
ApproveWrite(w) ==
  /\ pc[w] = "approve"
  /\ IF qc[on[w]] # "none" THEN Abort(w)
     ELSE /\ \E y \in Yield, x \in Extra :
               /\ x <= Positive(material) /\ material' = material - x
               /\ produced' = [produced EXCEPT ![on[w]] = y]
               /\ IF qcEnabled
                  THEN /\ qc' = [qc EXCEPT ![on[w]] = "PENDING"]
                       /\ UNCHANGED <<approved, credited, free, stock>>
                  ELSE Released(on[w], y)
          /\ run' = [run EXCEPT ![on[w]] = "COMPLETED"]
          /\ End(w)
          /\ UNCHANGED <<mix, qcEnabled, inspections, packVars, held, untracked, ticketVars, recallVars, formVars>>

\* inspectBatch: the status is read unlocked, written later whatever it has become.
InspectRead(w, b) ==
  /\ Start(w, "inspect", "inspect", b)
  /\ qcEnabled /\ qc[b] = "PENDING"
  /\ UNCHANGED <<data, locks, seen>>

InspectWrite(w) ==
  /\ pc[w] = "inspect" /\ batchLock[on[w]] = None
  /\ \E r \in 0..produced[on[w]] :
       LET b == on[w]
           n == produced[b] - r IN
       /\ qc' = [qc EXCEPT ![b] = IF r = 0 THEN "APPROVED"
                                  ELSE IF n = 0 THEN "REJECTED" ELSE "PARTIALLY_APPROVED"]
       /\ approved' = [approved EXCEPT ![b] = n]
       /\ Credit(b, n)
  /\ inspections' = [inspections EXCEPT ![on[w]] = @ + 1]
  /\ End(w)
  /\ UNCHANGED <<runVars, produced, packVars, held, untracked, ticketVars, recallVars, formVars>>

\* releaseBatchToPackaging: QC must be off, and the batch PENDING under its lock.
ReleaseLock(w, b) ==
  /\ Start(w, "release", "release", b)
  /\ ~qcEnabled /\ LockBatch(w, b)
  /\ UNCHANGED <<data, runLock, ticketLock, seen>>

\* Mutant of MayRelease: a batch may be released again.
MayReleaseAgain(b) == produced[b] > 0

MayRelease(b) == qc[b] = "PENDING" /\ produced[b] > 0

ReleaseWrite(w) ==
  /\ pc[w] = "release"
  /\ IF MayRelease(on[w])
     THEN /\ Released(on[w], produced[on[w]]) /\ End(w)
          /\ UNCHANGED <<runVars, produced, inspections, packVars, held, untracked, ticketVars, recallVars, formVars>>
     ELSE Abort(w)

\* The process restarts with the other setting: no request survives it.
SwitchQC ==
  /\ "switch" \in mix.ops /\ \A w \in Worker : pc[w] = "idle"
  /\ qcEnabled' = ~qcEnabled
  /\ UNCHANGED <<mix, material, run, batchVars, packVars, bulkVars, ticketVars, recallVars, formVars, locks, pc, on, seen>>

-----------------------------------------------------------------------------
(* Packaging in two phases. *)

\* startPackaging: the batch's status and recall are read under its lock.
TicketLock(w, b) ==
  /\ Start(w, "ticket", "ticket", b)
  /\ LockBatch(w, b) /\ qc[b] \in Packageable /\ ~recall[b]
  /\ UNCHANGED <<data, runLock, ticketLock, seen>>

\* The bulk item's stock, the batch's balance and its own APPROVED lots must cover n.
\* Mutant of Covers: consumeBulkSource takes whatever the pool holds.
CoversFromPool(b, n) == n <= stock

Covers(b, n) == n <= stock /\ n <= Balance(b) /\ n <= free[b] /\ packing[b] # "PACKAGED"

TicketWrite(w) ==
  /\ pc[w] = "ticket"
  /\ \E n \in Pack :
       LET b == on[w] IN
       IF Covers(b, n)
       THEN /\ \E t \in Ticket :
                 /\ tState[t] = "none" /\ tState' = [tState EXCEPT ![t] = "AWAITING_CONFIRMATION"]
                 /\ tBatch' = [tBatch EXCEPT ![t] = b] /\ tWeight' = [tWeight EXCEPT ![t] = n]
            /\ free' = [free EXCEPT ![b] = @ - n] /\ stock' = stock - n
            /\ End(w)
            /\ UNCHANGED <<runVars, batchVars, packVars, held, untracked, goodQty, lot, recallVars, formVars>>
       ELSE Abort(w)

\* savePackagingVerification: the status is read, then the counts are written.
VerifyRead(w, t) ==
  /\ Start(w, "verify", "verify", t)
  /\ tState[t] = "AWAITING_CONFIRMATION"
  /\ UNCHANGED <<data, locks, seen>>

VerifyWrite(w) ==
  /\ pc[w] = "verify" /\ ticketLock[on[w]] = None
  /\ \E g \in 0..tWeight[on[w]] : goodQty' = [goodQty EXCEPT ![on[w]] = g]
  /\ End(w)
  /\ UNCHANGED <<runVars, batchVars, packVars, bulkVars, tState, tBatch, tWeight, lot, recallVars, formVars>>

\* confirmPackaging locks the batch, then the ticket.
ConfirmLockBatch(w, t) ==
  /\ Start(w, "confirm", "confirmTicket", t)
  /\ tState[t] # "none" /\ LockBatch(w, tBatch[t])
  /\ UNCHANGED <<data, runLock, ticketLock, seen>>

MayConfirm(t) ==
  LET b == tBatch[t] IN
  /\ tState[t] = "AWAITING_CONFIRMATION" /\ t \notin tBlocked /\ ~recall[b]
  /\ packing[b] # "PACKAGED" /\ tWeight[t] <= approved[b] - packaged[b]

ConfirmLockTicket(w) ==
  /\ pc[w] = "confirmTicket" /\ ticketLock[on[w]] = None
  /\ IF MayConfirm(on[w])
     THEN /\ LockTicket(w, on[w])
          /\ See(w, [NothingSeen EXCEPT !.packed = packaged[tBatch[on[w]]]])
          /\ pc' = [pc EXCEPT ![w] = "confirm"]
          /\ UNCHANGED <<data, runLock, batchLock, on>>
     ELSE Abort(w)

\* Good packets become an APPROVED lot, the rest is waste; the batch's packaged
\* quantity is written as the value read plus the ticket's weight.
ConfirmWrite(w) ==
  /\ pc[w] = "confirm"
  /\ LET t == on[w]
         b == tBatch[t]
         n == seen[w].packed + tWeight[t] IN
     /\ \E g \in 0..tWeight[t] :
          goodQty' = [goodQty EXCEPT ![t] = g] /\ lot' = [lot EXCEPT ![t] = g]
     /\ tState' = [tState EXCEPT ![t] = "CONFIRMED"]
     /\ packaged' = [packaged EXCEPT ![b] = n]
     /\ packing' = [packing EXCEPT ![b] = PackingStatus(b, n)]
  /\ tBlocked' = tBlocked \ {on[w]}
  /\ End(w)
  /\ UNCHANGED <<runVars, batchVars, charged, wasted, bulkVars, tBatch, tWeight, recall, formVars>>

\* cancelPackaging locks the ticket only.
CancelTicketLock(w, t) ==
  /\ Start(w, "cancel", "cancelTicket", t)
  /\ tState[t] = "AWAITING_CONFIRMATION" /\ LockTicket(w, t)
  /\ UNCHANGED <<data, runLock, batchLock, seen>>

\* restoreToBatches: back into the lot the units came from, whatever its status.
CancelTicketWrite(w) ==
  /\ pc[w] = "cancelTicket"
  /\ LET t == on[w]
         b == tBatch[t] IN
     /\ IF t \in tBlocked
        THEN held' = [held EXCEPT ![b] = @ + tWeight[t]] /\ UNCHANGED free
        ELSE free' = [free EXCEPT ![b] = @ + tWeight[t]] /\ UNCHANGED held
     /\ stock' = stock + tWeight[t]
     /\ tState' = [tState EXCEPT ![t] = "CANCELLED"]
  /\ End(w)
  /\ UNCHANGED <<runVars, batchVars, packVars, untracked, tBatch, tWeight, goodQty, lot, recallVars, formVars>>

\* wasteBalance reads the balance under the batch's lock.
WasteLock(w, b) ==
  /\ Start(w, "waste", "waste", b)
  /\ qc[b] # "none" /\ packing[b] # "PACKAGED" /\ LockBatch(w, b)
  /\ See(w, [NothingSeen EXCEPT !.balance = Balance(b)])
  /\ UNCHANGED <<data, runLock, ticketLock>>

\* It is taken from the oldest lots of any batch.  What no lot covers is not
\* tracked, unless some stock is blocked: then nothing is wasted.
WasteWrite(w) ==
  /\ pc[w] = "waste"
  /\ LET b == on[w]
         n == Positive(seen[w].balance)
         f == Fifo(n) IN
     IF f.left > 0 /\ \E c \in Batch : held[c] > 0 THEN Abort(w)
     ELSE /\ free' = [c \in Batch |-> free[c] - f.took[c]]
          /\ stock' = stock - n /\ untracked' = untracked + f.left
          /\ wasted' = [wasted EXCEPT ![b] = @ + n]
          /\ packing' = [packing EXCEPT ![b] = "PACKAGED"]
          /\ End(w)
          /\ UNCHANGED <<runVars, batchVars, packaged, charged, held, ticketVars, recallVars, formVars>>

-----------------------------------------------------------------------------
(* Package and confirm in one request. *)

\* The page shows the packaged quantity; what it submits repeats it, retries included.
OpenForm(e, b, n) ==
  /\ "pack" \in mix.ops
  /\ form[e] = NoForm /\ qc[b] # "none"
  /\ form' = [form EXCEPT ![e] = [batch |-> b, expected |-> packaged[b], weight |-> n]]
  /\ UNCHANGED <<runVars, batchVars, packVars, bulkVars, ticketVars, recallVars, packs, locks, pc, on, seen>>

UpToDate(e) == packaged[form[e].batch] = form[e].expected

\* autoReleaseBlocker
Blocked(b) == qcEnabled \/ run[b] # "COMPLETED" \/ recall[b] \/ produced[b] = 0

\* packageAndConfirm: once the batch is locked its row, its run and its recall are read.
\* The recall is not locked: one that was cancelled may be initiated again before the
\* commit.  (A batch's first recall waits for the batch; here it need not.)
PackLock(w, e) ==
  /\ Start(w, "pack", "pack", e)
  /\ form[e] # NoForm /\ UpToDate(e)
  /\ LET b == form[e].batch IN
     /\ LockBatch(w, b) /\ packing[b] # "PACKAGED" /\ ~recall[b]
     /\ qc[b] \in Packageable \/ (qc[b] = "PENDING" /\ ~Blocked(b))
     /\ See(w, [NothingSeen EXCEPT !.packed = packaged[b]])
  /\ UNCHANGED <<data, runLock, ticketLock>>

\* computePackagingCosts: a share of the batch's expense by weight; the request that
\* finishes the batch takes what is left.
\* Mutant of Share: the request that finishes the batch takes the whole expense.
ShareOfWhole(b, n, total, yield) == IF packaged[b] + n >= yield THEN total ELSE (total * n) \div yield

Share(b, n, total, yield) ==
  LET left == Positive(SharedTotal - charged[b]) IN
  IF packaged[b] + n >= yield THEN left ELSE Lesser((total * n) \div yield, left)

\* An unreleased batch is released, bulk is reserved, costed and confirmed, all in one
\* transaction; the lots it takes from are locked until then.
PackWrite(w) ==
  /\ pc[w] = "pack"
  /\ LET e     == on[w]
         b     == form[e].batch
         n     == form[e].weight
         fresh == IF qc[b] = "PENDING" THEN produced[b] ELSE 0
         yield == approved[b] + fresh IN
     IF n > stock + fresh \/ n > free[b] + fresh \/ n > Balance(b) + fresh
     THEN Abort(w)
     ELSE /\ \E t \in Ticket, g \in 0..n :
               /\ tState[t] = "none" /\ tState' = [tState EXCEPT ![t] = "CONFIRMED"]
               /\ tBatch' = [tBatch EXCEPT ![t] = b] /\ tWeight' = [tWeight EXCEPT ![t] = n]
               /\ goodQty' = [goodQty EXCEPT ![t] = g] /\ lot' = [lot EXCEPT ![t] = g]
          /\ qc' = (IF fresh > 0 THEN [qc EXCEPT ![b] = "QC_NOT_REQUIRED"] ELSE qc)
          /\ approved' = [approved EXCEPT ![b] = yield]
          /\ free' = [free EXCEPT ![b] = @ + fresh - n] /\ stock' = stock + fresh - n
          /\ credited' = [credited EXCEPT ![b] = @ + fresh]
          /\ packaged' = [packaged EXCEPT ![b] = seen[w].packed + n]
          /\ packing' = [packing EXCEPT ![b] = IF seen[w].packed + n >= yield THEN "PACKAGED" ELSE "PARTIALLY_PACKED"]
          /\ charged' = [charged EXCEPT ![b] = @ + Share(b, n, SharedTotal, yield)]
          /\ packs' = [packs EXCEPT ![e] = @ + 1]
          /\ End(w)
          /\ UNCHANGED <<runVars, produced, inspections, wasted, held, untracked, recallVars, form>>

-----------------------------------------------------------------------------
(* Recalls, as packaging meets them: they lock lots, never the batch. *)

Recallable(b) ==
  /\ ~recall[b]
  /\ \/ qc[b] \in Packageable /\ approved[b] > 0
     \/ qc[b] = "PENDING" /\ ~qcEnabled /\ produced[b] > 0

RecallRead(w, b) ==
  /\ Start(w, "recall", "recall", b) /\ Recallable(b)
  /\ UNCHANGED <<data, locks, seen>>

BlockLots(b) ==
  /\ held' = [held EXCEPT ![b] = @ + free[b]] /\ free' = [free EXCEPT ![b] = 0]
  /\ tBlocked' = tBlocked \cup {t \in Ticket : tState[t] # "none" /\ tBatch[t] = b}

\* initiateRecall: the row is created once; every APPROVED lot of the batch is BLOCKED.
RecallWrite(w) ==
  /\ pc[w] = "recall"
  /\ LET b == on[w] IN
     IF recall[b] THEN Abort(w)
     ELSE /\ recall' = [recall EXCEPT ![b] = TRUE] /\ BlockLots(b)
          /\ End(w)
          /\ UNCHANGED <<runVars, batchVars, packVars, stock, untracked, ticketVars, formVars>>

\* cancelRecall: one locked row, one UPDATE of the lots.
CancelRecall(w, b) ==
  /\ "recall" \in mix.ops /\ pc[w] = "idle" /\ recall[b]
  /\ recall' = [recall EXCEPT ![b] = FALSE]
  /\ free' = [free EXCEPT ![b] = @ + held[b]] /\ held' = [held EXCEPT ![b] = 0]
  /\ tBlocked' = {t \in tBlocked : tBatch[t] # b}
  /\ UNCHANGED <<runVars, batchVars, packVars, stock, untracked, ticketVars, formVars, locks, pc, on, seen>>

-----------------------------------------------------------------------------

Step(w) ==
  \/ StartWrite(w) \/ ApproveWrite(w) \/ InspectWrite(w) \/ ReleaseWrite(w) \/ TicketWrite(w)
  \/ VerifyWrite(w) \/ ConfirmLockTicket(w) \/ ConfirmWrite(w) \/ CancelTicketWrite(w)
  \/ WasteWrite(w) \/ PackWrite(w) \/ RecallWrite(w)

Arrive(w) ==
  \/ StartRead(w)
  \/ \E b \in Batch, s \in RunStatus \ {"none"} : SetRun(w, b, s)
  \/ \E b \in Batch :
       \/ ApproveLock(w, b) \/ InspectRead(w, b) \/ ReleaseLock(w, b) \/ TicketLock(w, b)
       \/ WasteLock(w, b) \/ RecallRead(w, b) \/ CancelRecall(w, b)
  \/ \E t \in Ticket : VerifyRead(w, t) \/ ConfirmLockBatch(w, t) \/ CancelTicketLock(w, t)
  \/ \E e \in Entry : PackLock(w, e)

Next ==
  \/ \E w \in Worker : Arrive(w) \/ Step(w) \/ Timeout(w)
  \/ \E e \in Entry, b \in Batch, n \in Pack : OpenForm(e, b, n)
  \/ SwitchQC

Spec == Init /\ [][Next]_vars

-----------------------------------------------------------------------------
(* Properties. *)

TypeOK ==
  /\ qcEnabled \in BOOLEAN /\ material \in Int /\ run \in [Batch -> RunStatus]
  /\ qc \in [Batch -> QcStatus] /\ produced \in [Batch -> Units] /\ approved \in [Batch -> Units]
  /\ credited \in [Batch -> Nat] /\ inspections \in [Batch -> Nat]
  /\ packaged \in [Batch -> Nat] /\ packing \in [Batch -> PackedStatus]
  /\ charged \in [Batch -> Nat] /\ wasted \in [Batch -> Nat]
  /\ free \in [Batch -> Nat] /\ held \in [Batch -> Nat] /\ stock \in Int /\ untracked \in Nat
  /\ tState \in [Ticket -> TicketState] /\ tBatch \in [Ticket -> Batch] /\ tWeight \in [Ticket -> Units]
  /\ goodQty \in [Ticket -> Units] /\ lot \in [Ticket -> Units]
  /\ recall \in [Batch -> BOOLEAN] /\ tBlocked \subseteq Ticket
  /\ form \in [Entry -> [batch : Batch \cup {None}, expected : Nat, weight : Units]]
  /\ packs \in [Entry -> Nat]
  /\ runLock \in [Batch -> Worker \cup {None}] /\ batchLock \in [Batch -> Worker \cup {None}]
  /\ ticketLock \in [Ticket -> Worker \cup {None}]
  /\ pc \in [Worker -> PC] /\ on \in [Worker -> Batch \cup Ticket \cup Entry \cup {None}]
  /\ seen \in [Worker -> Seen]

\* The bulk item's stock is the sum of its lots, less what was wasted from none,
\* and every unit credited is in a lot, reserved by a ticket, packed or wasted:
\* over credits, tickets, confirmations, cancellations, waste and recalls that overlap.
BulkConserved ==
  LET lots    == SumOf(free, Batch) + SumOf(held, Batch)
      tickets == SumOf(tWeight, {t \in Ticket : tState[t] = "AWAITING_CONFIRMATION"}) IN
  /\ lots = stock + untracked
  /\ lots + tickets + SumOf(packaged, Batch) + SumOf(wasted, Batch) - untracked = SumOf(credited, Batch)

\* What is packed from a batch or reserved for it never exceeds what QC approved or
\* the release let through, whoever packs it and however requests interleave.  (Two
\* inspections that overlap break it: see DoubleCredit.)
PackedWithinApproved ==
  \A b \in Batch :
    inspections[b] <= 1 => packaged[b] + SumOf(tWeight, Awaiting(b)) <= approved[b]

\* "Stock was credited once at that time and cannot be re-applied": for a batch
\* released without QC, by whichever request, and for one inspected once.
CreditedOnce == \A b \in Batch : inspections[b] <= 1 => credited[b] = approved[b]

\* A submission of package-and-confirm packs once, however often it is retried.
PackedOnce == \A e \in Entry : packs[e] <= 1

\* Retried and overlapping requests are applied once.
AppliedOnce == CreditedOnce /\ PackedOnce

\* A batch marked PACKAGED is closed: nothing more is packed from it and no write
\* of an older value reopens it.
PackagedIsClosed ==
  [][\A b \in Batch : packing[b] = "PACKAGED" => packing'[b] = "PACKAGED" /\ packaged'[b] = packaged[b]]_vars

\* While a batch whose bulk is in stock is under recall no packaging of it starts,
\* although packaging reads the recall before it takes bulk, and the recall does not
\* lock the batch.  (A second inspection that overlaps the first puts bulk beside what
\* the recall blocked; a batch released as it is packed has none to block: see
\* RecallStopsAll.)
RecallStopsPackaging ==
  [][\A b \in Batch, t \in Ticket :
       recall[b] /\ qc[b] # "PENDING" /\ inspections[b] <= 1 /\ tState[t] = "none" /\ tState'[t] # "none"
         => tBatch'[t] # b]_vars

\* Packaging stops for good at the end of a batch and for a recall.
PackagingStops == PackagedIsClosed /\ RecallStopsPackaging

\* Sessions that share a batch's packaging expense never charge more than it, and
\* the one that finishes the batch leaves nothing uncharged.
SharedChargedOnce ==
  [][\A e \in Entry :
       LET b == form[e].batch IN
       packs'[e] > packs[e] =>
         /\ charged'[b] <= SharedTotal
         /\ packaged'[b] >= approved'[b] => charged'[b] = SharedTotal]_vars

\* Requests in several steps under partial locks have the effect of atomic ones.
Pool == INSTANCE BulkPool WITH
  Quantity <- Units, state <- tState, batch <- tBatch, weight <- tWeight, packed <- packaged

ImplementsPool == Pool!PoolSpec

-----------------------------------------------------------------------------
(* What the code's comments and messages say and the model refutes. *)

\* production.service.ts:595: "credited exactly once, at QC acceptance (inspectBatch,
\* guarded against re-inspection)": two inspections that overlap credit twice.
DoubleCredit == \A b \in Batch : credited[b] <= produced[b]

\* bulk-stock.ts:4 "never another batch's FIFO pool": wasting a balance takes the
\* oldest lots of the item, another batch's included.
WasteFromOwnBatch ==
  [][\A b, c \in Batch : wasted'[b] > wasted[b] /\ c # b => free'[c] = free[c]]_vars

\* production.service.ts:1176: "Packaging blocked — batch is under recall": the batch a
\* request releases as it packs it may be recalled again before the request commits.
RecallStopsAll ==
  [][\A b \in Batch, t \in Ticket :
       recall[b] /\ inspections[b] <= 1 /\ tState[t] = "none" /\ tState'[t] # "none" => tBatch'[t] # b]_vars

\* production.service.ts:1384: recall is checked again at confirmation, before it is
\* written: the lot made meanwhile is sellable while its batch is under recall.
RecalledPacketsBlocked ==
  \A t \in Ticket : tState[t] = "CONFIRMED" /\ lot[t] > 0 /\ recall[tBatch[t]] => t \in tBlocked

\* A batch whose balance was wasted can no longer confirm the tickets still open.
OpenTicketsConfirmable ==
  \A t \in Ticket : tState[t] = "AWAITING_CONFIRMATION" => packing[tBatch[t]] # "PACKAGED"

\* A verification saved while the ticket is being confirmed rewrites its good packets.
NotedIsCredited == \A t \in Ticket : tState[t] = "CONFIRMED" => goodQty[t] = lot[t]

\* production.service.ts:206: "Insufficient stock": the check is not locked.
MaterialNotOverdrawn == material >= 0

=============================================================================
