---------------------------- MODULE ProductionProofs --------------------------
(***************************************************************************)
(* Proofs about Production, for any batches, tickets, submissions and      *)
(* requests in flight.                                                     *)
(*                                                                         *)
(* As in LotStockProofs, the invariant says what a request may rely on at  *)
(* each place it can be at.  It mostly relies on the batch it locked; what *)
(* QC inspection, recalls and the cancelling of a ticket write without     *)
(* that lock is the subject of the other parts.                            *)
(***************************************************************************)
EXTENDS Production, SumLemmas

-----------------------------------------------------------------------------
(* Types. *)

BatchesOK ==
  /\ qc \in [Batch -> QcStatus] /\ produced \in [Batch -> Units] /\ approved \in [Batch -> Units]
  /\ credited \in [Batch -> Nat] /\ inspections \in [Batch -> Nat]
  /\ packaged \in [Batch -> Nat] /\ packing \in [Batch -> PackedStatus]
  /\ charged \in [Batch -> Nat] /\ wasted \in [Batch -> Nat] /\ recall \in [Batch -> BOOLEAN]
RunsOK == qcEnabled \in BOOLEAN /\ material \in Int /\ run \in [Batch -> RunStatus] /\ mix \in Mixes
BulkOK == free \in [Batch -> Nat] /\ held \in [Batch -> Nat] /\ stock \in Int /\ untracked \in Nat
TicketsOK ==
  /\ tState \in [Ticket -> TicketState] /\ tBatch \in [Ticket -> Batch] /\ tWeight \in [Ticket -> Units]
  /\ goodQty \in [Ticket -> Units] /\ lot \in [Ticket -> Units] /\ tBlocked \subseteq Ticket
FormsOK ==
  /\ form \in [Entry -> [batch : Batch \cup {None}, expected : Nat, weight : Units]]
  /\ packs \in [Entry -> Nat]
DataOK == BatchesOK /\ RunsOK /\ BulkOK /\ TicketsOK /\ FormsOK
LocksOK ==
  /\ runLock \in [Batch -> Worker \cup {None}] /\ batchLock \in [Batch -> Worker \cup {None}]
  /\ ticketLock \in [Ticket -> Worker \cup {None}]
Row == Batch \cup Ticket \cup Entry \cup {None}
RequestsOK == pc \in [Worker -> PC] /\ on \in [Worker -> Row] /\ seen \in [Worker -> Seen]

-----------------------------------------------------------------------------
(* What a request may rely on. *)

Reserved(b) == SumOf(tWeight, Awaiting(b))
New(b) == qc[b] \in {"none", "PENDING"}

\* A recall found all the bulk of a batch that was inspected at most once.
Emptied(b) == recall[b] /\ inspections[b] <= 1 => free[b] = 0

\* Making and releasing: an inspection that is the first still finds its batch PENDING.
OnBatch(w) ==
  /\ pc[w] \in {"approve", "inspect", "release", "recall", "ticket", "waste"} => on[w] \in Batch
  /\ pc[w] = "inspect" => qcEnabled /\ (inspections[on[w]] = 0 => qc[on[w]] = "PENDING")
  /\ pc[w] = "release" => ~qcEnabled /\ batchLock[on[w]] = w
  /\ pc[w] = "ticket" => batchLock[on[w]] = w /\ ~New(on[w]) /\ Emptied(on[w])
  /\ pc[w] = "waste" => batchLock[on[w]] = w /\ seen[w].balance <= MaxUnits

\* Confirming and cancelling: the ticket locked is still open, and the batch as it was read.
OnTicket(w) ==
  /\ pc[w] \in {"verify", "confirmTicket", "confirm", "cancelTicket"} => on[w] \in Ticket
  /\ pc[w] \in {"confirmTicket", "confirm"} => tState[on[w]] # "none" /\ batchLock[tBatch[on[w]]] = w
  /\ pc[w] \in {"confirm", "cancelTicket"} => ticketLock[on[w]] = w /\ tState[on[w]] = "AWAITING_CONFIRMATION"
  /\ pc[w] = "confirm" => seen[w].packed = packaged[tBatch[on[w]]] /\ packing[tBatch[on[w]]] # "PACKAGED"

\* What a recall of a batch that may be packed found there: all the bulk, or none yet.
Packable(b) ==
  \/ qc[b] \in Packageable /\ Emptied(b)
  \/ qc[b] = "PENDING" /\ ~qcEnabled /\ produced[b] > 0

\* A submission's batch is as the page showed it, and may be packed.
OnEntry(w) ==
  pc[w] = "pack" =>
    /\ on[w] \in Entry /\ form[on[w]] # NoForm /\ batchLock[form[on[w]].batch] = w
    /\ seen[w].packed = packaged[form[on[w]].batch] /\ UpToDate(on[w])
    /\ packing[form[on[w]].batch] # "PACKAGED" /\ Packable(form[on[w]].batch)

Relied(w) == OnBatch(w) /\ OnTicket(w) /\ OnEntry(w)

-----------------------------------------------------------------------------
(* What holds of the batches and of the submissions. *)

Fresh(b) ==
  New(b) =>
    /\ approved[b] = 0 /\ packaged[b] = 0 /\ credited[b] = 0 /\ inspections[b] = 0
    /\ \A t \in Ticket : tState[t] # "none" => tBatch[t] # b

\* Quantities of a batch inspected at most once, and its open tickets under a recall.
Sound(b) ==
  inspections[b] <= 1 =>
    /\ packaged[b] + Reserved(b) <= approved[b] /\ credited[b] = approved[b]
    /\ recall[b] => Awaiting(b) \subseteq tBlocked

BatchSound(b) == Fresh(b) /\ Sound(b) /\ charged[b] <= SharedTotal

\* What a submission packed makes the page it repeats out of date.
Submitted(e) ==
  \/ form[e] = NoForm /\ packs[e] = 0
  \/ /\ form[e].batch \in Batch /\ form[e].weight \in Pack
     /\ packs[e] = 0 \/ (packs[e] = 1 /\ packaged[form[e].batch] > form[e].expected)

IInv ==
  /\ DataOK /\ LocksOK /\ RequestsOK
  /\ \A w \in Worker : Relied(w)
  /\ \A b \in Batch : BatchSound(b)
  /\ \A e \in Entry : Submitted(e)
  /\ BulkConserved
-----------------------------------------------------------------------------
(* Quantities. *)

USE ProductionAssumption

\* The batches are finitely many, each at one place in the order.
LEMMA BatchesInOrder ==
  /\ IsFiniteSet(Batch) /\ BatchOrder[1] \in Batch
  /\ \E n \in Nat : DOMAIN BatchOrder = 1..n /\ \A i, j \in 1..n : BatchOrder[i] = BatchOrder[j] => i = j
<1>1. Len(BatchOrder) \in Nat /\ DOMAIN BatchOrder = 1..Len(BatchOrder)
  BY DEF ProductionAssumption
<1>2. \A i, j \in 1..Len(BatchOrder) : BatchOrder[i] = BatchOrder[j] => i = j
  BY <1>1 DEF ProductionAssumption, IsInjective
<1>3. Nats([b \in Batch |-> 0], Range(BatchOrder))
  BY DEF Nats, Batch
<1>4. IsFiniteSet(Range(BatchOrder))
  BY <1>1, <1>2, <1>3, InTurnSum
<1>5. BatchOrder[1] \in Batch
  <2>1. PICK i \in DOMAIN BatchOrder : TRUE
    BY DEF ProductionAssumption, Batch, Range
  <2>2. 1 \in DOMAIN BatchOrder
    BY <1>1, <2>1
  <2> QED
    BY <2>2 DEF Batch, Range
<1> QED
  BY <1>1, <1>2, <1>4, <1>5 DEF Batch

\* What Fifo takes is there, and with what it is left short of is what was asked for.
LEMMA FifoTakes ==
  ASSUME free \in [Batch -> Nat], NEW q \in Nat
  PROVE  /\ Fifo(q).took \in [Batch -> Nat] /\ Fifo(q).left \in Nat
         /\ SumOf(Fifo(q).took, Batch) + Fifo(q).left = q
         /\ \A b \in Batch : Fifo(q).took[b] <= free[b]
<1> DEFINE took == InTurn(BatchOrder, free, q)
           left == Positive(q - SumOf(free, Batch))
<1>1. Fifo(q).took = took /\ Fifo(q).left = left
  BY DEF Fifo
<1>2. Nats(free, Range(BatchOrder))
  BY DEF Nats, Batch
<1>3. /\ took \in [Batch -> Nat] /\ \A b \in Batch : took[b] <= free[b]
      /\ SumOf(took, Batch) = IF SumOf(free, Batch) < q THEN SumOf(free, Batch) ELSE q
  <2> HIDE DEF took
  <2> QED
    BY <1>2, BatchesInOrder, InTurnSum DEF Batch, took
<1>4. SumOf(free, Batch) \in Nat
  BY <1>2, BatchesInOrder, SumNat DEF Batch
<1>5. left \in Nat /\ SumOf(took, Batch) + left = q
  BY <1>3, <1>4 DEF Positive
<1> QED
  BY <1>1, <1>3, <1>5

\* The total of the batches moves with the batch that moves.
LEMMA TotalChange ==
  ASSUME NEW f \in [Batch -> Int], NEW b \in Batch, NEW v \in Int
  PROVE  /\ SumOf(f, Batch) \in Int
         /\ SumOf([f EXCEPT ![b] = v], Batch) = SumOf(f, Batch) + v - f[b]
<1> DEFINE g == [f EXCEPT ![b] = v]
<1>1. IsFiniteSet(Batch) /\ Ints(f, Batch)
  BY BatchesInOrder DEF Ints
<1>2. g[b] \in Int /\ g[b] = v /\ \A c \in Batch \ {b} : g[c] = f[c]
  OBVIOUS
<1> HIDE DEF g
<1>3. SumOf(g, Batch) = SumOf(f, Batch) + g[b] - f[b]
  BY ONLY <1>1, <1>2, b \in Batch, SumChange
<1> QED
  BY <1>1, <1>2, <1>3, SumInt DEF g

\* What is taken from each batch is taken from the total.
LEMMA TotalTaken ==
  ASSUME NEW f \in [Batch -> Int], NEW g \in [Batch -> Int], NEW h, \A c \in Batch : h[c] = f[c] - g[c]
  PROVE  SumOf(h, Batch) = SumOf(f, Batch) - SumOf(g, Batch)
<1>1. IsFiniteSet(Batch) /\ Ints(h, Batch) /\ Ints(g, Batch) /\ Ints(f, Batch)
  BY BatchesInOrder DEF Ints
<1>2. \A c \in Batch : f[c] = h[c] + g[c]
  BY <1>1 DEF Ints
<1>3. SumOf(f, Batch) = SumOf(h, Batch) + SumOf(g, Batch)
  BY ONLY <1>1, <1>2, SumPlus
<1>4. SumOf(f, Batch) \in Int /\ SumOf(g, Batch) \in Int /\ SumOf(h, Batch) \in Int
  BY <1>1, SumInt
<1> QED
  BY <1>3, <1>4

\* The weights of a set of tickets.
LEMMA WeightNat ==
  ASSUME NEW f \in [Ticket -> Units], NEW S \in SUBSET Ticket
  PROVE  SumOf(f, S) \in Nat /\ IsFiniteSet(S) /\ Ints(f, S) /\ Nats(f, S)
<1>1. IsFiniteSet(S) /\ Nats(f, S) /\ Ints(f, S)
  BY FS_Subset DEF ProductionAssumption, Nats, Ints, Units
<1> QED
  BY <1>1, SumNat

\* A ticket that is opened adds its weight, and its weight counts nowhere else.
LEMMA WeightAdded ==
  ASSUME NEW f \in [Ticket -> Units], NEW g \in [Ticket -> Units], NEW S \in SUBSET Ticket,
         NEW t \in Ticket \ S, \A x \in S : g[x] = f[x]
  PROVE  SumOf(g, S) = SumOf(f, S) /\ SumOf(g, S \cup {t}) = SumOf(f, S) + g[t]
<1>1. IsFiniteSet(S) /\ Ints(f, S) /\ Ints(g, S \cup {t}) /\ SumOf(f, S) \in Nat /\ g[t] \in Nat
  BY SMTT(30), WeightNat DEF Units
<1>2. SumOf(g, S) = SumOf(f, S)
  BY <1>1, SumSame
<1>3. SumOf(g, S \cup {t}) = g[t] + SumOf(g, S)
  BY <1>1, SumAdd
<1> QED
  BY <1>1, <1>2, <1>3

\* A ticket that is closed takes its weight with it.
LEMMA WeightRemoved ==
  ASSUME NEW f \in [Ticket -> Units], NEW S \in SUBSET Ticket, NEW t \in S
  PROVE  SumOf(f, S \ {t}) = SumOf(f, S) - f[t] /\ f[t] \in Nat
<1>1. IsFiniteSet(S) /\ Ints(f, S) /\ SumOf(f, S) \in Nat /\ SumOf(f, S \ {t}) \in Nat /\ f[t] \in Nat
  BY WeightNat DEF Units
<1>2. SumOf(f, S) = f[t] + SumOf(f, S \ {t})
  BY <1>1, SumRemove
<1> QED
  BY <1>1, <1>2
-----------------------------------------------------------------------------
(* What a step leaves to the others. *)

\* Locks of others stay theirs.
KeepsLocks(w) ==
  /\ \A b \in Batch : batchLock[b] \notin {None, w} => batchLock'[b] = batchLock[b]
  /\ \A t \in Ticket : ticketLock[t] \notin {None, w} => ticketLock'[t] = ticketLock[t]

\* What others locked is not written, and what they rely on without a lock only
\* moves the way they expect.
KeepsData(w) ==
  /\ qcEnabled' = qcEnabled
  /\ \A b \in Batch : ~New(b) => ~New(b)'
  /\ \A b \in Batch : qcEnabled /\ inspections'[b] = 0 => inspections[b] = 0 /\ (qc[b] = "PENDING" => qc'[b] = "PENDING")
  /\ \A b \in Batch : batchLock[b] \notin {None, w} =>
       /\ packaged'[b] = packaged[b] /\ packing'[b] = packing[b] /\ (~New(b) /\ Emptied(b) => Emptied(b)')
       /\ qc[b] # "none" => qc'[b] = qc[b] /\ produced'[b] = produced[b]
  /\ \A t \in Ticket : tState[t] # "none" => tState'[t] # "none" /\ tBatch'[t] = tBatch[t]
  /\ \A t \in Ticket : ticketLock[t] \notin {None, w} /\ tState[t] = "AWAITING_CONFIRMATION" => tState'[t] = tState[t]
  /\ \A e \in Entry : form[e] # NoForm => form'[e] = form[e]

Steady(v) == pc'[v] = pc[v] /\ on'[v] = on[v] /\ seen'[v] = seen[v]

\* What another request relies on survives a step that respects it.
LEMMA OthersKeep ==
  ASSUME IInv, NEW w \in Worker, NEW v \in Worker, v # w, Steady(v), KeepsLocks(w), KeepsData(w)
  PROVE  Relied(v)'
<1>1. v \notin {None, w} /\ Relied(v)
  BY DEF IInv, ProductionAssumption
<1>2. OnBatch(v)'
  BY <1>1 DEF Relied, OnBatch, Steady, KeepsLocks, KeepsData
<1>3. OnTicket(v)'
  <2>1. ASSUME NEW t \in Ticket, t = on[v], pc[v] \in {"confirmTicket", "confirm"}
        PROVE  /\ tState'[t] # "none" /\ batchLock'[tBatch'[t]] = v /\ tBatch'[t] = tBatch[t]
               /\ packaged'[tBatch[t]] = packaged[tBatch[t]] /\ packing'[tBatch[t]] = packing[tBatch[t]]
    <3>1. tState[t] # "none" /\ batchLock[tBatch[t]] = v /\ tBatch[t] \in Batch
      BY <1>1, <2>1 DEF Relied, OnTicket, IInv, DataOK, TicketsOK
    <3> QED
      BY <1>1, <3>1 DEF KeepsLocks, KeepsData
  <2>2. pc[v] \in {"verify", "confirmTicket", "confirm", "cancelTicket"} => on[v] \in Ticket
    BY <1>1 DEF Relied, OnTicket
  <2>3. ASSUME pc[v] \in {"confirm", "cancelTicket"}
        PROVE  ticketLock'[on[v]] = v /\ tState'[on[v]] = "AWAITING_CONFIRMATION"
    BY <1>1, <2>3 DEF Relied, OnTicket, KeepsLocks, KeepsData
  <2> QED
    BY <1>1, <2>1, <2>2, <2>3 DEF Relied, OnTicket, Steady
<1>4. OnEntry(v)'
  <2> SUFFICES ASSUME pc[v] = "pack" PROVE OnEntry(v)'
    BY DEF OnEntry, Steady
  <2>1. /\ on[v] \in Entry /\ form[on[v]] # NoForm /\ batchLock[form[on[v]].batch] = v
        /\ form[on[v]].batch \in Batch
    BY <1>1 DEF Relied, OnEntry, IInv, Submitted
  <2> QED
    BY <1>1, <2>1 DEF Relied, OnEntry, UpToDate, Packable, Packageable, New, Steady, KeepsLocks, KeepsData
<1> QED
  BY <1>2, <1>3, <1>4 DEF Relied

-----------------------------------------------------------------------------
(* How a step preserves the invariant. *)

\* A request at rest relies on nothing.
LEMMA IdleRelies ==
  ASSUME NEW w \in Worker, pc'[w] \in {"idle", "start"}
  PROVE  Relied(w)'
BY DEF Relied, OnBatch, OnTicket, OnEntry

\* The end of a request frees what it locked and nothing else.
LEMMA Ends ==
  ASSUME IInv, NEW w \in Worker, End(w)
  PROVE  /\ LocksOK' /\ RequestsOK' /\ KeepsLocks(w) /\ pc'[w] = "idle"
         /\ \A v \in Worker \ {w} : Steady(v)
<1>1. NothingSeen \in Seen
  BY DEF NothingSeen, Seen
<1>2. RequestsOK'
  BY <1>1 DEF IInv, RequestsOK, End, See, PC, Row
<1>3. LocksOK'
  BY DEF IInv, LocksOK, End, Freed
<1>4. KeepsLocks(w)
  BY DEF IInv, LocksOK, KeepsLocks, End, Freed
<1>5. \A v \in Worker \ {w} : Steady(v)
  BY DEF IInv, RequestsOK, Steady, End, See
<1> QED
  BY <1>2, <1>3, <1>4, <1>5 DEF IInv, RequestsOK, End, See

\* The end of a request that wrote its data.
LEMMA WriteKeeps ==
  ASSUME IInv, NEW w \in Worker, End(w), KeepsData(w), DataOK',
         \A b \in Batch : BatchSound(b)', \A e \in Entry : Submitted(e)', BulkConserved'
  PROVE  IInv'
<1>1. \A v \in Worker : Relied(v)'
  BY Ends, IdleRelies, OthersKeep
<1> QED
  BY <1>1, Ends DEF IInv

\* What a step that writes no data leaves.
LEMMA QuietKeeps ==
  ASSUME IInv, NEW w, UNCHANGED data
  PROVE  /\ KeepsData(w) /\ DataOK' /\ (\A b \in Batch : BatchSound(b)') /\ (\A e \in Entry : Submitted(e)')
         /\ BulkConserved'
<1> USE DEF data, runVars, batchVars, packVars, bulkVars, ticketVars, recallVars, formVars
<1>1. KeepsData(w)
  BY DEF KeepsData, New, Emptied
<1>2. DataOK'
  BY DEF IInv, DataOK, BatchesOK, RunsOK, BulkOK, TicketsOK, FormsOK
<1>3. \A b \in Batch : Awaiting(b)' = Awaiting(b) /\ Reserved(b)' = Reserved(b)
  BY DEF Awaiting, Reserved
<1>4. \A b \in Batch : BatchSound(b)'
  BY <1>3 DEF IInv, BatchSound, Fresh, Sound, New
<1>5. \A e \in Entry : Submitted(e)'
  BY DEF IInv, Submitted
<1>6. BulkConserved'
  BY DEF IInv, BulkConserved
<1> QED
  BY <1>1, <1>2, <1>4, <1>5, <1>6

\* A request that is rolled back.
LEMMA AbortKeeps ==
  ASSUME IInv, NEW w \in Worker, Abort(w)
  PROVE  IInv'
BY QuietKeeps, WriteKeeps DEF Abort

\* A step that only reads, locks or decides.
LEMMA ControlKeeps ==
  ASSUME IInv, NEW w \in Worker, UNCHANGED data, LocksOK', KeepsLocks(w), Relied(w)',
         NEW p \in PC, NEW d \in Row, NEW r \in Seen,
         pc' = [pc EXCEPT ![w] = p],
         on' = [on EXCEPT ![w] = d] \/ on' = on,
         seen' = [seen EXCEPT ![w] = r] \/ seen' = seen
  PROVE  IInv'
<1>1. pc \in [Worker -> PC] /\ on \in [Worker -> Row] /\ seen \in [Worker -> Seen]
  BY DEF IInv, RequestsOK
<1>2. RequestsOK' /\ \A v \in Worker \ {w} : Steady(v)
  BY <1>1 DEF RequestsOK, Steady
<1>3. \A v \in Worker : Relied(v)'
  BY <1>2, QuietKeeps, OthersKeep
<1> QED
  BY <1>2, <1>3, QuietKeeps DEF IInv

\* What a step locks.
LEMMA BatchLocking ==
  ASSUME IInv, NEW w \in Worker, NEW b \in Batch, LockBatch(w, b), UNCHANGED <<runLock, ticketLock>>
  PROVE  LocksOK' /\ KeepsLocks(w) /\ batchLock'[b] = w
BY DEF IInv, LocksOK, KeepsLocks, LockBatch

\* The locks when none is taken.
LEMMA NoLocking ==
  ASSUME IInv, NEW w \in Worker, UNCHANGED <<batchLock, ticketLock>>,
         runLock' = runLock \/ \E b \in Batch : runLock' = [runLock EXCEPT ![b] = w]
  PROVE  LocksOK' /\ KeepsLocks(w)
BY DEF IInv, LocksOK, KeepsLocks

\* The types of one request and of the data.
LEMMA Typed ==
  ASSUME IInv, NEW w \in Worker
  PROVE  /\ seen[w] \in Seen /\ on[w] \in Row /\ Relied(w) /\ NothingSeen \in Seen
         /\ seen[w].packed \in Nat /\ seen[w].balance \in Int
         /\ DataOK /\ LocksOK /\ pc \in [Worker -> PC] /\ on \in [Worker -> Row] /\ seen \in [Worker -> Seen]
         /\ None \in Row /\ Batch \subseteq Row /\ Ticket \subseteq Row /\ Entry \subseteq Row
<1>1. NothingSeen \in Seen
  BY DEF NothingSeen, Seen
<1> QED
  BY <1>1 DEF IInv, RequestsOK, Seen, Row

\* What is reserved of a batch is not negative.
LEMMA ReservedNat ==
  ASSUME IInv, NEW b \in Batch
  PROVE  Reserved(b) \in Nat /\ Awaiting(b) \in SUBSET Ticket
<1>1. tWeight \in [Ticket -> Units] /\ Awaiting(b) \in SUBSET Ticket
  BY DEF IInv, DataOK, TicketsOK, Awaiting
<1> QED
  BY <1>1, WeightNat DEF Reserved

-----------------------------------------------------------------------------
(* Steps that only read, lock or decide. *)

\* What a request that starts sees of itself.
LEMMA Starts ==
  ASSUME IInv, NEW w \in Worker, NEW op, NEW p \in PC, NEW d \in Row, Start(w, op, p, d)
  PROVE  pc'[w] = p /\ on'[w] = d /\ pc' = [pc EXCEPT ![w] = p] /\ on' = [on EXCEPT ![w] = d]
BY Typed DEF Start

\* A start of production is checked against the material before anything is written.
LEMMA StartReadKeeps ==
  ASSUME IInv, NEW w \in Worker, StartRead(w)
  PROVE  IInv'
<1>1. "start" \in PC /\ None \in Row /\ NothingSeen \in Seen
  BY Typed DEF PC
<1>2. pc'[w] = "start" /\ pc' = [pc EXCEPT ![w] = "start"] /\ on' = [on EXCEPT ![w] = None]
  BY <1>1, Starts DEF StartRead
<1>3. UNCHANGED <<data, locks, seen>>
  BY DEF StartRead
<1>4. LocksOK' /\ KeepsLocks(w)
  BY <1>3, NoLocking DEF locks
<1> QED
  BY <1>1, <1>2, <1>3, <1>4, IdleRelies, ControlKeeps

\* An approval holds the run.
LEMMA ApproveLockKeeps ==
  ASSUME IInv, NEW w \in Worker, NEW b \in Batch, ApproveLock(w, b)
  PROVE  IInv'
<1>1. "approve" \in PC /\ b \in Row /\ NothingSeen \in Seen
  BY Typed DEF PC
<1>2. pc'[w] = "approve" /\ on'[w] = b /\ pc' = [pc EXCEPT ![w] = "approve"] /\ on' = [on EXCEPT ![w] = b]
  BY <1>1, Starts DEF ApproveLock
<1>3. UNCHANGED <<data, seen>>
  BY DEF ApproveLock
<1>4. LocksOK' /\ KeepsLocks(w)
  BY NoLocking DEF ApproveLock
<1>5. Relied(w)'
  BY <1>2, <1>3, <1>4 DEF ApproveLock, Relied, OnBatch, OnTicket, OnEntry, data, runVars, batchVars, packVars, bulkVars, ticketVars, recallVars, formVars
<1> QED
  BY <1>1, <1>2, <1>3, <1>4, <1>5, ControlKeeps

\* An inspection found its batch PENDING.
LEMMA InspectReadKeeps ==
  ASSUME IInv, NEW w \in Worker, NEW b \in Batch, InspectRead(w, b)
  PROVE  IInv'
<1>1. "inspect" \in PC /\ b \in Row /\ NothingSeen \in Seen
  BY Typed DEF PC
<1>2. pc'[w] = "inspect" /\ on'[w] = b /\ pc' = [pc EXCEPT ![w] = "inspect"] /\ on' = [on EXCEPT ![w] = b]
  BY <1>1, Starts DEF InspectRead
<1>3. UNCHANGED <<data, seen>>
  BY DEF InspectRead
<1>4. LocksOK' /\ KeepsLocks(w)
  BY NoLocking DEF InspectRead, locks
<1>5. Relied(w)'
  BY <1>2, <1>3, <1>4 DEF InspectRead, Relied, OnBatch, OnTicket, OnEntry, data, runVars, batchVars, packVars, bulkVars, ticketVars, recallVars, formVars
<1> QED
  BY <1>1, <1>2, <1>3, <1>4, <1>5, ControlKeeps

\* A release found QC off.
LEMMA ReleaseLockKeeps ==
  ASSUME IInv, NEW w \in Worker, NEW b \in Batch, ReleaseLock(w, b)
  PROVE  IInv'
<1>1. "release" \in PC /\ b \in Row /\ NothingSeen \in Seen
  BY Typed DEF PC
<1>2. pc'[w] = "release" /\ on'[w] = b /\ pc' = [pc EXCEPT ![w] = "release"] /\ on' = [on EXCEPT ![w] = b]
  BY <1>1, Starts DEF ReleaseLock
<1>3. UNCHANGED <<data, seen>>
  BY DEF ReleaseLock
<1>4. LocksOK' /\ KeepsLocks(w) /\ batchLock'[b] = w
  BY BatchLocking DEF ReleaseLock
<1>5. Relied(w)'
  BY <1>2, <1>3, <1>4 DEF ReleaseLock, Relied, OnBatch, OnTicket, OnEntry, data, runVars, batchVars, packVars, bulkVars, ticketVars, recallVars, formVars
<1> QED
  BY <1>1, <1>2, <1>3, <1>4, <1>5, ControlKeeps

\* A packaging that starts found its batch released and not recalled.
LEMMA TicketLockKeeps ==
  ASSUME IInv, NEW w \in Worker, NEW b \in Batch, TicketLock(w, b)
  PROVE  IInv'
<1>1. "ticket" \in PC /\ b \in Row /\ NothingSeen \in Seen
  BY Typed DEF PC
<1>2. pc'[w] = "ticket" /\ on'[w] = b /\ pc' = [pc EXCEPT ![w] = "ticket"] /\ on' = [on EXCEPT ![w] = b]
  BY <1>1, Starts DEF TicketLock
<1>3. UNCHANGED <<data, seen>>
  BY DEF TicketLock
<1>4. LocksOK' /\ KeepsLocks(w) /\ batchLock'[b] = w
  BY BatchLocking DEF TicketLock
<1>5. Relied(w)'
  BY <1>2, <1>3, <1>4 DEF TicketLock, New, Emptied, Packageable, Relied, OnBatch, OnTicket, OnEntry, data, runVars, batchVars, packVars, bulkVars, ticketVars, recallVars, formVars
<1> QED
  BY <1>1, <1>2, <1>3, <1>4, <1>5, ControlKeeps

\* A verification relies on nothing.
LEMMA VerifyReadKeeps ==
  ASSUME IInv, NEW w \in Worker, NEW t \in Ticket, VerifyRead(w, t)
  PROVE  IInv'
<1>1. "verify" \in PC /\ t \in Row /\ NothingSeen \in Seen
  BY Typed DEF PC
<1>2. pc'[w] = "verify" /\ on'[w] = t /\ pc' = [pc EXCEPT ![w] = "verify"] /\ on' = [on EXCEPT ![w] = t]
  BY <1>1, Starts DEF VerifyRead
<1>3. UNCHANGED <<data, seen>>
  BY DEF VerifyRead
<1>4. LocksOK' /\ KeepsLocks(w)
  BY NoLocking DEF VerifyRead, locks
<1>5. Relied(w)'
  BY <1>2, <1>3, <1>4 DEF VerifyRead, Relied, OnBatch, OnTicket, OnEntry, data, runVars, batchVars, packVars, bulkVars, ticketVars, recallVars, formVars
<1> QED
  BY <1>1, <1>2, <1>3, <1>4, <1>5, ControlKeeps

\* A confirmation holds the batch of its ticket.
LEMMA ConfirmLockBatchKeeps ==
  ASSUME IInv, NEW w \in Worker, NEW t \in Ticket, ConfirmLockBatch(w, t)
  PROVE  IInv'
<1>1. "confirmTicket" \in PC /\ t \in Row /\ NothingSeen \in Seen
  BY Typed DEF PC
<1>2. pc'[w] = "confirmTicket" /\ on'[w] = t /\ pc' = [pc EXCEPT ![w] = "confirmTicket"] /\ on' = [on EXCEPT ![w] = t]
  BY <1>1, Starts DEF ConfirmLockBatch
<1>3. UNCHANGED <<data, seen>>
  BY DEF ConfirmLockBatch
<1>4. LocksOK' /\ KeepsLocks(w) /\ batchLock'[tBatch[t]] = w
  BY BatchLocking, Typed DEF ConfirmLockBatch, DataOK, TicketsOK
<1>5. Relied(w)'
  BY <1>2, <1>3, <1>4 DEF ConfirmLockBatch, Relied, OnBatch, OnTicket, OnEntry, data, runVars, batchVars, packVars, bulkVars, ticketVars, recallVars, formVars
<1> QED
  BY <1>1, <1>2, <1>3, <1>4, <1>5, ControlKeeps

\* A cancellation holds its ticket, which is open.
LEMMA CancelTicketLockKeeps ==
  ASSUME IInv, NEW w \in Worker, NEW t \in Ticket, CancelTicketLock(w, t)
  PROVE  IInv'
<1>1. "cancelTicket" \in PC /\ t \in Row /\ NothingSeen \in Seen
  BY Typed DEF PC
<1>2. pc'[w] = "cancelTicket" /\ on'[w] = t /\ pc' = [pc EXCEPT ![w] = "cancelTicket"] /\ on' = [on EXCEPT ![w] = t]
  BY <1>1, Starts DEF CancelTicketLock
<1>3. UNCHANGED <<data, seen>>
  BY DEF CancelTicketLock
<1>4. LocksOK' /\ KeepsLocks(w) /\ ticketLock'[t] = w
  BY DEF IInv, LocksOK, KeepsLocks, CancelTicketLock, LockTicket
<1>5. Relied(w)'
  BY <1>2, <1>3, <1>4 DEF CancelTicketLock, Relied, OnBatch, OnTicket, OnEntry, data, runVars, batchVars, packVars, bulkVars, ticketVars, recallVars, formVars
<1> QED
  BY <1>1, <1>2, <1>3, <1>4, <1>5, ControlKeeps

\* A recall relies on nothing it read.
LEMMA RecallReadKeeps ==
  ASSUME IInv, NEW w \in Worker, NEW b \in Batch, RecallRead(w, b)
  PROVE  IInv'
<1>1. "recall" \in PC /\ b \in Row /\ NothingSeen \in Seen
  BY Typed DEF PC
<1>2. pc'[w] = "recall" /\ on'[w] = b /\ pc' = [pc EXCEPT ![w] = "recall"] /\ on' = [on EXCEPT ![w] = b]
  BY <1>1, Starts DEF RecallRead
<1>3. UNCHANGED <<data, seen>>
  BY DEF RecallRead
<1>4. LocksOK' /\ KeepsLocks(w)
  BY NoLocking DEF RecallRead, locks
<1>5. Relied(w)'
  BY <1>2, <1>3, <1>4 DEF RecallRead, Relied, OnBatch, OnTicket, OnEntry, data, runVars, batchVars, packVars, bulkVars, ticketVars, recallVars, formVars
<1> QED
  BY <1>1, <1>2, <1>3, <1>4, <1>5, ControlKeeps

\* A confirmation that may proceed holds its ticket and has read what was packed.
LEMMA ConfirmLockTicketKeeps ==
  ASSUME IInv, NEW w \in Worker, ConfirmLockTicket(w)
  PROVE  IInv'
<1>1. CASE ~ MayConfirm(on[w])
  BY <1>1, AbortKeeps DEF ConfirmLockTicket
<1>2. CASE MayConfirm(on[w])
  <2> DEFINE t == on[w]
             r == [NothingSeen EXCEPT !.packed = packaged[tBatch[t]]]
  <2>1. t \in Ticket /\ tState[t] # "none" /\ batchLock[tBatch[t]] = w /\ tBatch[t] \in Batch
    BY Typed DEF Relied, OnTicket, ConfirmLockTicket, DataOK, TicketsOK
  <2>2. packaged[tBatch[t]] \in Nat
    BY <2>1, Typed DEF DataOK, BatchesOK
  <2>3. r \in Seen /\ r.packed = packaged[tBatch[t]]
    BY <2>2 DEF Seen, NothingSeen
  <2>4. /\ LockTicket(w, t) /\ pc' = [pc EXCEPT ![w] = "confirm"] /\ UNCHANGED <<data, runLock, batchLock, on>>
        /\ seen' = [seen EXCEPT ![w] = r]
    BY <1>2 DEF ConfirmLockTicket, See
  <2>5. tState[t] = "AWAITING_CONFIRMATION" /\ packing[tBatch[t]] # "PACKAGED"
    BY <1>2 DEF MayConfirm
  <2>6. LocksOK' /\ KeepsLocks(w) /\ ticketLock'[t] = w
    BY <2>1, <2>4 DEF IInv, LocksOK, KeepsLocks, LockTicket
  <2>7. "confirm" \in PC /\ pc'[w] = "confirm" /\ seen'[w] = r /\ on'[w] = t /\ t \in Row
    BY <2>3, <2>4, Typed DEF PC
  <2> HIDE DEF r
  <2>8. Relied(w)'
    BY <2>1, <2>3, <2>4, <2>5, <2>6, <2>7
       DEF Relied, OnBatch, OnTicket, OnEntry, data, packVars, ticketVars
  <2> QED
    BY <2>3, <2>4, <2>6, <2>7, <2>8, ControlKeeps
<1> QED
  BY <1>1, <1>2

\* The balance to waste is no more than what was approved.
LEMMA WasteLockKeeps ==
  ASSUME IInv, NEW w \in Worker, NEW b \in Batch, WasteLock(w, b)
  PROVE  IInv'
<1> DEFINE r == [NothingSeen EXCEPT !.balance = Balance(b)]
<1>1. approved[b] \in Units /\ packaged[b] \in Nat /\ Reserved(b) \in Nat
  BY Typed, ReservedNat DEF DataOK, BatchesOK
<1>2. Balance(b) \in Int /\ Balance(b) <= MaxUnits
  BY <1>1 DEF Balance, Reserved, Units, ProductionAssumption
<1>3. r \in Seen /\ r.balance = Balance(b)
  BY <1>2 DEF Seen, NothingSeen
<1>4. "waste" \in PC /\ b \in Row
  BY Typed DEF PC
<1>5. pc'[w] = "waste" /\ on'[w] = b /\ pc' = [pc EXCEPT ![w] = "waste"] /\ on' = [on EXCEPT ![w] = b]
  BY <1>4, Starts DEF WasteLock
<1>6. UNCHANGED data /\ seen' = [seen EXCEPT ![w] = r]
  BY DEF WasteLock, See
<1>7. LocksOK' /\ KeepsLocks(w) /\ batchLock'[b] = w
  BY BatchLocking DEF WasteLock
<1>8. seen'[w] = r
  BY <1>6, Typed
<1> HIDE DEF r
<1>9. Relied(w)'
  BY <1>2, <1>3, <1>5, <1>7, <1>8 DEF Relied, OnBatch, OnTicket, OnEntry
<1> QED
  BY <1>3, <1>4, <1>5, <1>6, <1>7, <1>9, ControlKeeps

\* A submission that may proceed holds its batch, which is as the page showed it.
LEMMA PackLockKeeps ==
  ASSUME IInv, NEW w \in Worker, NEW e \in Entry, PackLock(w, e)
  PROVE  IInv'
<1> DEFINE b == form[e].batch
           r == [NothingSeen EXCEPT !.packed = packaged[b]]
<1>1. /\ form[e] # NoForm /\ UpToDate(e) /\ LockBatch(w, b) /\ packing[b] # "PACKAGED"
      /\ ~recall[b] /\ (qc[b] \in Packageable \/ (qc[b] = "PENDING" /\ ~Blocked(b)))
  BY DEF PackLock
<1>2. b \in Batch
  BY <1>1 DEF IInv, Submitted
<1>3. packaged[b] \in Nat
  BY <1>2, Typed DEF DataOK, BatchesOK
<1>4. r \in Seen /\ r.packed = packaged[b]
  BY <1>3 DEF Seen, NothingSeen
<1>5. "pack" \in PC /\ e \in Row
  BY Typed DEF PC
<1>6. pc'[w] = "pack" /\ on'[w] = e /\ pc' = [pc EXCEPT ![w] = "pack"] /\ on' = [on EXCEPT ![w] = e]
  BY <1>5, Starts DEF PackLock
<1>7. UNCHANGED data /\ seen' = [seen EXCEPT ![w] = r]
  BY DEF PackLock, See
<1>8. LocksOK' /\ KeepsLocks(w) /\ batchLock'[b] = w
  BY <1>2, BatchLocking DEF PackLock
<1>9. seen'[w] = r /\ form' = form /\ packaged' = packaged /\ packing' = packing
  BY <1>7, Typed DEF data, packVars, formVars
<1>11. Packable(b)'
  <2>1. produced[b] \in Nat
    <3>1. produced \in [Batch -> Units] /\ Units \subseteq Nat
      BY Typed DEF DataOK, BatchesOK, Units
    <3> HIDE DEF b
    <3> QED
      BY ONLY <1>2, <3>1
  <2>2. produced[b] # 0 => produced[b] > 0
    BY <2>1
  <2>3. Packable(b)
    BY <1>1, <2>2 DEF Packable, Emptied, Blocked
  <2> QED
    BY <1>7, <2>3 DEF Packable, Emptied, data, batchVars, runVars, bulkVars, recallVars, formVars
<1> HIDE DEF r
<1>10. Relied(w)'
  BY <1>1, <1>4, <1>6, <1>8, <1>9, <1>11 DEF Relied, OnBatch, OnTicket, OnEntry, UpToDate
<1> QED
  BY <1>4, <1>5, <1>6, <1>7, <1>8, <1>10, ControlKeeps

\* The status of a run concerns none of this.
LEMMA SetRunKeeps ==
  ASSUME IInv, NEW w \in Worker, NEW b \in Batch, NEW s \in RunStatus, SetRun(w, b, s)
  PROVE  IInv'
<1> USE DEF batchVars, packVars, bulkVars, ticketVars, recallVars, formVars, SetRun
<1>1. DataOK'
  BY DEF IInv, DataOK, BatchesOK, RunsOK, BulkOK, TicketsOK, FormsOK
<1>2. \A c \in Batch : Awaiting(c)' = Awaiting(c) /\ Reserved(c)' = Reserved(c)
  BY DEF Awaiting, Reserved
<1>3. \A c \in Batch : BatchSound(c)'
  BY <1>2 DEF IInv, BatchSound, Fresh, Sound, New
<1>4. \A e \in Entry : Submitted(e)'
  BY DEF IInv, Submitted
<1>5. BulkConserved'
  BY DEF IInv, BulkConserved
<1>6. \A v \in Worker : Relied(v)'
  BY DEF IInv, Relied, OnBatch, OnTicket, OnEntry, New, Emptied, Packable, UpToDate, locks
<1>7. LocksOK' /\ RequestsOK'
  BY DEF IInv, LocksOK, RequestsOK, locks
<1> QED
  BY <1>1, <1>3, <1>4, <1>5, <1>6, <1>7 DEF IInv

\* A page is opened once, for a batch there is.
LEMMA OpenFormKeeps ==
  ASSUME IInv, NEW e \in Entry, NEW b \in Batch, NEW n \in Pack, OpenForm(e, b, n)
  PROVE  IInv'
<1> DEFINE p == [batch |-> b, expected |-> packaged[b], weight |-> n]
<1>0. form[e] = NoForm /\ form' = [form EXCEPT ![e] = p]
      /\ UNCHANGED <<runVars, batchVars, packVars, bulkVars, ticketVars, recallVars, packs, locks, pc, on, seen>>
  BY DEF OpenForm
<1>1. packaged[b] \in Nat /\ n \in Units
  <2>1. Pack \subseteq 1..MaxUnits /\ MaxUnits \in Nat
    BY DEF ProductionAssumption
  <2>2. n \in Units
    BY ONLY n \in Pack, <2>1 DEF Units
  <2> QED
    BY <2>2 DEF IInv, DataOK, BatchesOK
<1>2. p \in [batch : Batch \cup {None}, expected : Nat, weight : Units] /\ p.batch = b /\ p.weight = n
  BY <1>1
<1> HIDE DEF p
<1> USE DEF runVars, batchVars, packVars, bulkVars, ticketVars, recallVars, locks
<1>3. FormsOK' /\ form'[e] = p /\ \A d \in Entry \ {e} : form'[d] = form[d]
  BY <1>0, <1>2 DEF IInv, DataOK, FormsOK
<1>4. DataOK'
  BY <1>0, <1>3 DEF IInv, DataOK, BatchesOK, RunsOK, BulkOK, TicketsOK
<1>5. \A c \in Batch : Awaiting(c)' = Awaiting(c) /\ Reserved(c)' = Reserved(c)
  BY <1>0 DEF Awaiting, Reserved
<1>6. \A c \in Batch : BatchSound(c)'
  BY <1>0, <1>5 DEF IInv, BatchSound, Fresh, Sound, New
<1>7. ASSUME NEW d \in Entry PROVE Submitted(d)'
  <2>1. CASE d = e
    <3>1. packs[e] = 0
      BY <1>0, <1>2 DEF IInv, Submitted, NoForm, ProductionAssumption
    <3> QED
      BY <1>0, <1>2, <1>3, <2>1, <3>1 DEF Submitted
  <2>2. CASE d # e
    BY <1>0, <1>3, <2>2 DEF IInv, Submitted
  <2> QED
    BY <2>1, <2>2
<1>8. BulkConserved'
  BY <1>0 DEF IInv, BulkConserved
<1>9. ASSUME NEW v \in Worker PROVE Relied(v)'
  <2>1. OnBatch(v)' /\ OnTicket(v)'
    BY <1>0 DEF IInv, Relied, OnBatch, OnTicket, New, Emptied
  <2>2. pc[v] = "pack" => on[v] \in Entry \ {e}
    BY <1>0 DEF IInv, Relied, OnEntry
  <2>3. OnEntry(v)'
    BY <1>0, <1>3, <2>2 DEF IInv, Relied, OnEntry, UpToDate, Packable, Emptied
  <2> QED
    BY <2>1, <2>3 DEF Relied
<1>10. LocksOK' /\ RequestsOK'
  BY <1>0 DEF IInv, LocksOK, RequestsOK
<1> QED
  BY <1>4, <1>6, <1>7, <1>8, <1>9, <1>10 DEF IInv

\* The process restarts between requests only.
LEMMA SwitchKeeps ==
  ASSUME IInv, SwitchQC
  PROVE  IInv'
<1> USE DEF batchVars, packVars, bulkVars, ticketVars, recallVars, formVars, SwitchQC
<1>1. DataOK'
  BY DEF IInv, DataOK, BatchesOK, RunsOK, BulkOK, TicketsOK, FormsOK
<1>2. \A c \in Batch : Awaiting(c)' = Awaiting(c) /\ Reserved(c)' = Reserved(c)
  BY DEF Awaiting, Reserved
<1>3. \A c \in Batch : BatchSound(c)'
  BY <1>2 DEF IInv, BatchSound, Fresh, Sound, New
<1>4. \A e \in Entry : Submitted(e)'
  BY DEF IInv, Submitted
<1>5. BulkConserved'
  BY DEF IInv, BulkConserved
<1>6. \A v \in Worker : Relied(v)'
  BY IdleRelies
<1>7. LocksOK' /\ RequestsOK'
  BY DEF IInv, LocksOK, RequestsOK, locks
<1> QED
  BY <1>1, <1>3, <1>4, <1>5, <1>6, <1>7 DEF IInv
-----------------------------------------------------------------------------
(* What a write leaves alone. *)

\* The tickets of a batch are the same, and what they weigh.
SameTickets(c) ==
  \A t \in Ticket :
    /\ (tState'[t] # "none" /\ tBatch'[t] = c) <=> (tState[t] # "none" /\ tBatch[t] = c)
    /\ tState[t] # "none" /\ tBatch[t] = c => tState'[t] = tState[t] /\ tWeight'[t] = tWeight[t]

SameBatch(c) ==
  /\ qc'[c] = qc[c] /\ approved'[c] = approved[c] /\ packaged'[c] = packaged[c] /\ credited'[c] = credited[c]
  /\ inspections'[c] = inspections[c] /\ charged'[c] = charged[c] /\ recall'[c] = recall[c]

\* The reserved bulk of a batch whose tickets a step leaves alone.
LEMMA TicketsSame ==
  ASSUME IInv, NEW c \in Batch, SameTickets(c)
  PROVE  Awaiting(c)' = Awaiting(c) /\ Reserved(c)' = Reserved(c)
<1>1. Awaiting(c)' = Awaiting(c)
  BY DEF Awaiting, SameTickets
<1>2. \A t \in Awaiting(c) : tWeight'[t] = tWeight[t]
  BY DEF Awaiting, SameTickets
<1>3. IsFiniteSet(Awaiting(c)) /\ Ints(tWeight, Awaiting(c))
  BY ReservedNat, WeightNat DEF IInv, DataOK, TicketsOK
<1>4. SumOf(tWeight', Awaiting(c)) = SumOf(tWeight, Awaiting(c))
  BY <1>2, <1>3, SumSame
<1> QED
  BY <1>1, <1>4 DEF Reserved

\* A batch whose tickets only a recall may block stays sound.
LEMMA Elsewhere ==
  ASSUME IInv, NEW c \in Batch, SameBatch(c), SameTickets(c),
         \A t \in tBlocked : tBatch[t] = c => t \in tBlocked'
  PROVE  BatchSound(c)'
<1>1. Awaiting(c)' = Awaiting(c) /\ Reserved(c)' = Reserved(c)
  BY TicketsSame
<1>2. BatchSound(c)
  BY DEF IInv
<1>3. Fresh(c)'
  BY <1>2 DEF BatchSound, Fresh, New, SameBatch, SameTickets
<1>4. Sound(c)'
  <2>1. recall[c] /\ inspections[c] <= 1 => Awaiting(c) \subseteq tBlocked'
    BY <1>2 DEF BatchSound, Sound, Awaiting
  <2> QED
    BY <1>1, <1>2, <2>1 DEF BatchSound, Sound, SameBatch
<1> QED
  BY <1>2, <1>3, <1>4 DEF BatchSound, SameBatch

\* Where no ticket and no recall is written.
LEMMA TicketsKept ==
  ASSUME UNCHANGED <<tState, tBatch, tWeight, tBlocked>>, NEW c
  PROVE  SameTickets(c) /\ \A t \in tBlocked : t \in tBlocked'
BY DEF SameTickets

\* A submission stands as long as no packaged quantity falls.
LEMMA SubmittedKept ==
  ASSUME IInv, DataOK', UNCHANGED formVars, \A b \in Batch : packaged'[b] >= packaged[b], NEW e \in Entry
  PROVE  Submitted(e)'
<1>1. Submitted(e) /\ form' = form /\ packs' = packs
  BY DEF IInv, formVars
<1>2. CASE form[e] = NoForm /\ packs[e] = 0
  BY <1>1, <1>2 DEF Submitted
<1>3. CASE ~ (form[e] = NoForm /\ packs[e] = 0)
  <2> DEFINE b == form[e].batch
             x == form[e].expected
  <2>1. b \in Batch /\ form[e].weight \in Pack /\ (packs[e] = 0 \/ (packs[e] = 1 /\ packaged[b] > x))
    BY <1>1, <1>3 DEF Submitted
  <2>2. packaged[b] \in Nat /\ packaged'[b] \in Nat /\ packaged'[b] >= packaged[b] /\ x \in Nat
    BY <2>1 DEF IInv, DataOK, BatchesOK, FormsOK
  <2> HIDE DEF b, x
  <2>3. packs[e] = 0 \/ (packs[e] = 1 /\ packaged'[b] > x)
    BY <2>1, <2>2
  <2> QED
    BY <1>1, <2>1, <2>3 DEF Submitted, b, x
<1> QED
  BY <1>2, <1>3

\* The tickets whose bulk is reserved.
Open == {t \in Ticket : tState[t] = "AWAITING_CONFIRMATION"}

\* The totals are integers.
LEMMA Totals ==
  ASSUME IInv
  PROVE  /\ SumOf(free, Batch) \in Int /\ SumOf(held, Batch) \in Int /\ SumOf(packaged, Batch) \in Int
         /\ SumOf(wasted, Batch) \in Int /\ SumOf(credited, Batch) \in Int
         /\ SumOf(tWeight, Open) \in Int
         /\ free \in [Batch -> Int] /\ held \in [Batch -> Int] /\ packaged \in [Batch -> Int]
         /\ wasted \in [Batch -> Int] /\ credited \in [Batch -> Int] /\ stock \in Int /\ untracked \in Int
         /\ tWeight \in [Ticket -> Units]
<1>1. /\ free \in [Batch -> Int] /\ held \in [Batch -> Int] /\ packaged \in [Batch -> Int]
      /\ wasted \in [Batch -> Int] /\ credited \in [Batch -> Int] /\ stock \in Int /\ untracked \in Int
  BY DEF IInv, DataOK, BatchesOK, BulkOK
<1>2. ASSUME NEW f \in [Batch -> Int] PROVE SumOf(f, Batch) \in Int
  BY BatchesInOrder, SumInt DEF Ints
<1>3. tWeight \in [Ticket -> Units] /\ Open \in SUBSET Ticket
  BY DEF IInv, DataOK, TicketsOK, Open
<1>4. SumOf(tWeight, Open) \in Nat
  BY <1>3, WeightNat
<1> QED
  BY <1>1, <1>2, <1>3, <1>4

\* A change of every total that balances.
LEMMA Conserves ==
  ASSUME IInv, NEW f \in Int, NEW h \in Int, NEW s \in Int, NEW u \in Int,
         NEW t \in Int, NEW p \in Int, NEW x \in Int, NEW c \in Int,
         SumOf(free', Batch) = SumOf(free, Batch) + f, SumOf(held', Batch) = SumOf(held, Batch) + h,
         stock' = stock + s, untracked' = untracked + u,
         SumOf(tWeight', Open') = SumOf(tWeight, Open) + t,
         SumOf(packaged', Batch) = SumOf(packaged, Batch) + p,
         SumOf(wasted', Batch) = SumOf(wasted, Batch) + x,
         SumOf(credited', Batch) = SumOf(credited, Batch) + c,
         f + h = s + u, f + h + t + p + x - u = c
  PROVE  BulkConserved'
<1> DEFINE F == SumOf(free, Batch)
           F1 == SumOf(free', Batch)
           H == SumOf(held, Batch)
           H1 == SumOf(held', Batch)
           T == SumOf(tWeight, Open)
           T1 == SumOf(tWeight', Open')
           P == SumOf(packaged, Batch)
           P1 == SumOf(packaged', Batch)
           W == SumOf(wasted, Batch)
           W1 == SumOf(wasted', Batch)
           C == SumOf(credited, Batch)
           C1 == SumOf(credited', Batch)
<1>1. BulkConserved
  BY DEF IInv
<1>2. /\ F + H = stock + untracked /\ F + H + T + P + W - untracked = C
      /\ F \in Int /\ C \in Int /\ H \in Int /\ T \in Int /\ P \in Int /\ W \in Int
      /\ stock \in Int /\ untracked \in Int
  BY <1>1, Totals DEF BulkConserved, Open
<1>3. F1 = F + f /\ H1 = H + h /\ T1 = T + t /\ P1 = P + p /\ W1 = W + x /\ C1 = C + c
  OBVIOUS
<1>4. BulkConserved' <=> F1 + H1 = stock' + untracked' /\ F1 + H1 + T1 + P1 + W1 - untracked' = C1
  BY DEF BulkConserved, Open
<1>5. f \in Int /\ h \in Int /\ s \in Int /\ u \in Int /\ t \in Int /\ p \in Int /\ x \in Int /\ c \in Int
      /\ f + h = s + u /\ f + h + t + p + x - u = c /\ stock' = stock + s /\ untracked' = untracked + u
  OBVIOUS
<1> HIDE DEF F, F1, H, H1, T, T1, P, P1, W, W1, C, C1
<1>6. F1 + H1 = stock' + untracked' /\ F1 + H1 + T1 + P1 + W1 - untracked' = C1
  BY ONLY <1>2, <1>3, <1>5
<1> QED
  BY <1>4, <1>6

\* Of what a batch gains the total gains as much.
LEMMA TotalPlus ==
  ASSUME NEW f \in [Batch -> Int], NEW b \in Batch, NEW n \in Int, NEW g,
         g[b] = f[b] + n, \A c \in Batch \ {b} : g[c] = f[c]
  PROVE  SumOf(g, Batch) = SumOf(f, Batch) + n
<1> DEFINE F == SumOf(f, Batch)
           G == SumOf(g, Batch)
           x == f[b]
           y == g[b]
<1>1. IsFiniteSet(Batch) /\ Ints(f, Batch) /\ y \in Int /\ x \in Int /\ y = x + n
  BY BatchesInOrder DEF Ints
<1>2. G = F + y - x
  BY <1>1, SumChange
<1>3. F \in Int
  BY <1>1, SumInt
<1> HIDE DEF F, G, x, y
<1>4. G = F + n
  BY <1>1, <1>2, <1>3
<1> QED
  BY <1>4 DEF F, G

\* n units that enter a lot of b and are counted as credited are conserved.
LEMMA CreditConserves ==
  ASSUME IInv, NEW b \in Batch, NEW n \in Nat, Credit(b, n),
         UNCHANGED <<held, untracked, packaged, wasted, tState, tWeight>>
  PROVE  BulkConserved'
<1>1. free \in [Batch -> Int] /\ credited \in [Batch -> Int]
  BY Totals
<1>2. n \in Int /\ 0 \in Int /\ n + 0 = n + 0 /\ n + 0 + 0 + 0 + 0 - 0 = n
  OBVIOUS
<1>3. SumOf(free', Batch) = SumOf(free, Batch) + n /\ SumOf(credited', Batch) = SumOf(credited, Batch) + n
      /\ stock' = stock + n
  <2>1. free'[b] = free[b] + n /\ \A c \in Batch \ {b} : free'[c] = free[c]
    BY <1>1 DEF Credit
  <2>2. credited'[b] = credited[b] + n /\ \A c \in Batch \ {b} : credited'[c] = credited[c]
    BY <1>1 DEF Credit
  <2>3. SumOf(free', Batch) = SumOf(free, Batch) + n
    BY ONLY <1>1, <1>2, <2>1, b \in Batch, TotalPlus
  <2>4. SumOf(credited', Batch) = SumOf(credited, Batch) + n
    BY ONLY <1>1, <1>2, <2>2, b \in Batch, TotalPlus
  <2> QED
    BY <2>3, <2>4 DEF Credit
<1>4. Open' = Open
  BY DEF Open
<1>5. \A i \in Int : i = i + 0
  OBVIOUS
<1>6. /\ SumOf(held', Batch) = SumOf(held, Batch) + 0 /\ SumOf(packaged', Batch) = SumOf(packaged, Batch) + 0
      /\ SumOf(wasted', Batch) = SumOf(wasted, Batch) + 0 /\ untracked' = untracked + 0
      /\ SumOf(tWeight', Open') = SumOf(tWeight, Open) + 0
  BY <1>4, <1>5, Totals
<1> QED
  BY ONLY IInv, <1>2, <1>3, <1>6, Conserves
-----------------------------------------------------------------------------
(* Production runs, release and inspection. *)

\* A run starts and takes its material, whatever has become of the stock.
LEMMA StartWriteKeeps ==
  ASSUME IInv, NEW w \in Worker, StartWrite(w)
  PROVE  IInv'
<1> USE DEF batchVars, packVars, bulkVars, ticketVars, recallVars
<1>1. End(w) /\ UNCHANGED <<mix, qcEnabled, batchVars, packVars, bulkVars, ticketVars, recallVars, formVars>>
  BY DEF StartWrite
<1>2. material' \in Int /\ run' \in [Batch -> RunStatus]
  <2>1. material \in Int /\ run \in [Batch -> RunStatus] /\ "IN_PROGRESS" \in RunStatus
    BY DEF IInv, DataOK, RunsOK, RunStatus
  <2>2. material' = material - 1
    BY DEF StartWrite
  <2>3. PICK i \in 1..mix.runs : run' = [run EXCEPT ![BatchOrder[i]] = "IN_PROGRESS"]
    BY DEF StartWrite
  <2>4. material' \in Int
    BY <2>1, <2>2
  <2> QED
    BY <2>1, <2>3, <2>4
<1>3. DataOK'
  BY <1>1, <1>2 DEF IInv, DataOK, BatchesOK, RunsOK, BulkOK, TicketsOK, FormsOK, formVars
<1>4. KeepsData(w)
  BY <1>1 DEF KeepsData, New, Emptied, formVars
<1>5. \A c \in Batch : BatchSound(c)'
  BY <1>1, TicketsKept, Elsewhere DEF SameBatch
<1>6. \A e \in Entry : Submitted(e)'
  BY <1>1 DEF IInv, Submitted, formVars
<1>7. BulkConserved'
  BY <1>1 DEF IInv, BulkConserved
<1> QED
  BY <1>1, <1>3, <1>4, <1>5, <1>6, <1>7, WriteKeeps

\* Counts noted on a ticket.
LEMMA VerifyWriteKeeps ==
  ASSUME IInv, NEW w \in Worker, VerifyWrite(w)
  PROVE  IInv'
<1> USE DEF runVars, batchVars, packVars, bulkVars, recallVars
<1>1. End(w) /\ UNCHANGED <<runVars, batchVars, packVars, bulkVars, tState, tBatch, tWeight, lot, recallVars, formVars>>
  BY DEF VerifyWrite
<1>2. goodQty' \in [Ticket -> Units]
  <2>1. on[w] \in Ticket
    BY Typed DEF Relied, OnTicket, VerifyWrite
  <2>2. PICK g \in 0..tWeight[on[w]] : goodQty' = [goodQty EXCEPT ![on[w]] = g]
    BY DEF VerifyWrite
  <2>3. tWeight[on[w]] \in Units /\ goodQty \in [Ticket -> Units]
    BY <2>1 DEF IInv, DataOK, TicketsOK
  <2>4. g \in Units
    BY <2>2, <2>3 DEF Units, ProductionAssumption
  <2> QED
    BY <2>2, <2>3, <2>4
<1>3. DataOK'
  BY <1>1, <1>2 DEF IInv, DataOK, BatchesOK, RunsOK, BulkOK, TicketsOK, FormsOK, formVars
<1>4. KeepsData(w)
  BY <1>1 DEF KeepsData, New, Emptied, formVars
<1>5. \A c \in Batch : BatchSound(c)'
  BY <1>1, TicketsKept, Elsewhere DEF SameBatch
<1>6. \A e \in Entry : Submitted(e)'
  BY <1>1 DEF IInv, Submitted, formVars
<1>7. BulkConserved'
  BY <1>1 DEF IInv, BulkConserved
<1> QED
  BY <1>1, <1>3, <1>4, <1>5, <1>6, <1>7, WriteKeeps

\* A batch released as a whole was not credited, packed or inspected before.
LEMMA ReleasedKeeps ==
  ASSUME IInv, NEW w \in Worker, NEW b \in Batch, New(b), ~qcEnabled, NEW n \in Units, Released(b, n), End(w),
         UNCHANGED <<mix, qcEnabled, inspections, packVars, held, untracked, ticketVars, recallVars, formVars>>,
         produced' \in [Batch -> Units], material' \in Int, run' \in [Batch -> RunStatus],
         batchLock[b] = w \/ qc[b] = "none", \A c \in Batch : qc[c] # "none" => produced'[c] = produced[c]
  PROVE  IInv'
<1> USE DEF packVars, ticketVars, recallVars
<1>0. n \in Nat
  BY DEF Units
<1>1. /\ qc' \in [Batch -> QcStatus] /\ approved' \in [Batch -> Units] /\ credited' \in [Batch -> Nat]
      /\ free' \in [Batch -> Nat] /\ stock' \in Int
      /\ qc'[b] = "QC_NOT_REQUIRED" /\ approved'[b] = n /\ credited'[b] = credited[b] + n
      /\ \A c \in Batch \ {b} : /\ qc'[c] = qc[c] /\ approved'[c] = approved[c] /\ credited'[c] = credited[c]
                                /\ free'[c] = free[c]
  <2>1. /\ qc \in [Batch -> QcStatus] /\ approved \in [Batch -> Units] /\ credited \in [Batch -> Nat]
        /\ free \in [Batch -> Nat] /\ stock \in Int /\ "QC_NOT_REQUIRED" \in QcStatus
    BY DEF IInv, DataOK, BatchesOK, BulkOK, QcStatus
  <2>2. /\ qc' = [qc EXCEPT ![b] = "QC_NOT_REQUIRED"] /\ approved' = [approved EXCEPT ![b] = n]
        /\ free' = [free EXCEPT ![b] = @ + n] /\ credited' = [credited EXCEPT ![b] = @ + n] /\ stock' = stock + n
    BY DEF Released, Credit
  <2>3. qc' \in [Batch -> QcStatus] /\ qc'[b] = "QC_NOT_REQUIRED" /\ \A c \in Batch \ {b} : qc'[c] = qc[c]
    BY <2>1, <2>2
  <2>4. approved' \in [Batch -> Units] /\ approved'[b] = n /\ \A c \in Batch \ {b} : approved'[c] = approved[c]
    BY <2>1, <2>2
  <2>5. /\ credited' \in [Batch -> Nat] /\ credited'[b] = credited[b] + n
        /\ \A c \in Batch \ {b} : credited'[c] = credited[c]
    BY <1>0, <2>1, <2>2
  <2>6. free' \in [Batch -> Nat] /\ \A c \in Batch \ {b} : free'[c] = free[c]
    BY <1>0, <2>1, <2>2
  <2>7. stock' \in Int
    BY <1>0, <2>1, <2>2
  <2> QED
    BY <2>3, <2>4, <2>5, <2>6, <2>7
<1>2. DataOK'
  BY <1>1 DEF IInv, DataOK, BatchesOK, RunsOK, BulkOK, TicketsOK, FormsOK, formVars
<1>3. KeepsData(w)
  BY <1>1 DEF KeepsData, New, Emptied, formVars
<1>4. BatchSound(b)'
  <2>1. Awaiting(b)' = Awaiting(b) /\ Reserved(b)' = Reserved(b)
    BY TicketsKept, TicketsSame
  <2>2. /\ approved[b] = 0 /\ packaged[b] = 0 /\ credited[b] = 0 /\ inspections[b] = 0
        /\ packaged[b] + Reserved(b) <= approved[b]
        /\ (recall[b] => Awaiting(b) \subseteq tBlocked) /\ charged[b] <= SharedTotal
    BY DEF IInv, BatchSound, Fresh, Sound
  <2>3. Reserved(b) \in Nat
    BY ReservedNat
  <2>4. Fresh(b)'
    BY <1>1 DEF Fresh, New
  <2>5. Sound(b)'
    BY <1>0, <1>1, <2>1, <2>2, <2>3 DEF Sound
  <2> QED
    BY <2>2, <2>4, <2>5 DEF BatchSound
<1>5. ASSUME NEW c \in Batch \ {b} PROVE BatchSound(c)'
  BY <1>1, TicketsKept, Elsewhere DEF SameBatch
<1>6. \A e \in Entry : Submitted(e)'
  BY DEF IInv, Submitted, formVars
<1>7. BulkConserved'
  BY <1>0, CreditConserves DEF Released
<1> QED
  BY <1>2, <1>3, <1>4, <1>5, <1>6, <1>7, WriteKeeps

\* A release finds its batch PENDING under its lock, or does nothing.
LEMMA ReleaseWriteKeeps ==
  ASSUME IInv, NEW w \in Worker, ReleaseWrite(w)
  PROVE  IInv'
<1>1. CASE ~ MayRelease(on[w])
  BY <1>1, AbortKeeps DEF ReleaseWrite
<1>2. CASE MayRelease(on[w])
  <2>1. on[w] \in Batch /\ ~qcEnabled /\ batchLock[on[w]] = w
    BY Typed DEF Relied, OnBatch, ReleaseWrite
  <2>2. produced[on[w]] \in Units /\ New(on[w])
    BY <1>2, <2>1 DEF IInv, DataOK, BatchesOK, MayRelease, New
  <2>3. /\ Released(on[w], produced[on[w]]) /\ End(w)
        /\ UNCHANGED <<runVars, produced, inspections, packVars, held, untracked, ticketVars, recallVars, formVars>>
    BY <1>2 DEF ReleaseWrite
  <2>4. UNCHANGED <<mix, qcEnabled, inspections, packVars, held, untracked, ticketVars, recallVars, formVars>>
        /\ produced' \in [Batch -> Units] /\ material' \in Int /\ run' \in [Batch -> RunStatus]
        /\ \A c \in Batch : produced'[c] = produced[c]
    BY <2>3 DEF runVars, IInv, DataOK, BatchesOK, RunsOK
  <2> QED
    BY <2>1, <2>2, <2>3, <2>4, ReleasedKeeps
<1> QED
  BY <1>1, <1>2

\* The first approval of a run makes its batch; with QC off it releases it.
LEMMA ApproveWriteKeeps ==
  ASSUME IInv, NEW w \in Worker, ApproveWrite(w)
  PROVE  IInv'
<1>1. CASE qc[on[w]] # "none"
  BY <1>1, AbortKeeps DEF ApproveWrite
<1>2. CASE qc[on[w]] = "none"
  <2>1. PICK b \in Batch : b = on[w] /\ New(b)
    BY <1>2, Typed DEF Relied, OnBatch, ApproveWrite, New
  <2>2. PICK y \in Yield, x \in Extra :
          /\ material' = material - x /\ produced' = [produced EXCEPT ![b] = y]
          /\ IF qcEnabled
             THEN qc' = [qc EXCEPT ![b] = "PENDING"] /\ UNCHANGED <<approved, credited, free, stock>>
             ELSE Released(b, y)
    BY <1>2, <2>1 DEF ApproveWrite
  <2>3. /\ run' = [run EXCEPT ![b] = "COMPLETED"] /\ End(w)
        /\ UNCHANGED <<mix, qcEnabled, inspections, packVars, held, untracked, ticketVars, recallVars, formVars>>
    BY <1>2, <2>1 DEF ApproveWrite
  <2>4. y \in Units /\ x \in Int
    <3>1. Yield \subseteq 1..MaxUnits /\ Extra \subseteq Nat /\ MaxUnits \in Nat
      BY DEF ProductionAssumption
    <3> QED
      BY ONLY y \in Yield, x \in Extra, <3>1 DEF Units
  <2>5. produced' \in [Batch -> Units] /\ material' \in Int /\ run' \in [Batch -> RunStatus]
    BY SMTT(30), <2>1, <2>2, <2>3, <2>4 DEF IInv, DataOK, BatchesOK, RunsOK, RunStatus
  <2>8. qc[b] = "none" /\ \A c \in Batch : qc[c] # "none" => produced'[c] = produced[c]
    BY <1>2, <2>1, <2>2 DEF IInv, DataOK, BatchesOK
  <2>6. CASE ~qcEnabled
    BY <2>1, <2>2, <2>3, <2>4, <2>5, <2>6, <2>8, ReleasedKeeps
  <2>7. CASE qcEnabled
    <3> USE DEF packVars, ticketVars, recallVars
    <3>1. qc' = [qc EXCEPT ![b] = "PENDING"] /\ UNCHANGED <<approved, credited, free, stock>>
      BY <2>2, <2>7
    <3>2. qc' \in [Batch -> QcStatus] /\ qc'[b] = "PENDING" /\ \A c \in Batch \ {b} : qc'[c] = qc[c]
      BY <2>1, <3>1 DEF IInv, DataOK, BatchesOK, QcStatus
    <3>3. DataOK'
      BY <2>3, <2>5, <3>1, <3>2 DEF IInv, DataOK, BatchesOK, RunsOK, BulkOK, TicketsOK, FormsOK, formVars
    <3>4. KeepsData(w)
      BY <2>1, <2>3, <2>8, <3>1, <3>2 DEF KeepsData, New, Emptied, formVars
    <3>5. ASSUME NEW c \in Batch \ {b} PROVE BatchSound(c)'
      BY <2>3, <3>1, <3>2, TicketsKept, Elsewhere DEF SameBatch
    <3>6. BatchSound(b)'
      <4>1. Awaiting(b)' = Awaiting(b) /\ Reserved(b)' = Reserved(b)
        BY <2>1, <2>3, TicketsKept, TicketsSame
      <4> QED
        BY <2>1, <2>3, <3>1, <3>2, <4>1 DEF IInv, BatchSound, Fresh, Sound, New
    <3>7. \A e \in Entry : Submitted(e)'
      BY <2>3 DEF IInv, Submitted, formVars
    <3>8. BulkConserved'
      BY <2>3, <3>1 DEF IInv, BulkConserved
    <3> QED
      BY <2>3, <3>3, <3>4, <3>5, <3>6, <3>7, <3>8, WriteKeeps
  <2> QED
    BY <2>6, <2>7
<1> QED
  BY <1>1, <1>2

\* Of two inspections that overlap only the first is promised anything.
LEMMA InspectWriteKeeps ==
  ASSUME IInv, NEW w \in Worker, InspectWrite(w)
  PROVE  IInv'
<1> USE DEF packVars, ticketVars, recallVars, runVars
<1>1. PICK b \in Batch : b = on[w]
  BY Typed DEF Relied, OnBatch, InspectWrite
<1>2. qcEnabled /\ (inspections[b] = 0 => qc[b] = "PENDING") /\ batchLock[b] = None
  BY <1>1, Typed DEF Relied, OnBatch, InspectWrite
<1>3. PICK r \in 0..produced[b] :
        /\ qc' = [qc EXCEPT ![b] = IF r = 0 THEN "APPROVED"
                                   ELSE IF produced[b] - r = 0 THEN "REJECTED" ELSE "PARTIALLY_APPROVED"]
        /\ approved' = [approved EXCEPT ![b] = produced[b] - r]
        /\ Credit(b, produced[b] - r)
  BY <1>1 DEF InspectWrite
<1>4. PICK n \in Units : n = produced[b] - r
  <2>1. produced[b] \in Units
    BY DEF IInv, DataOK, BatchesOK
  <2>2. MaxUnits \in Nat
    BY DEF ProductionAssumption
  <2> QED
    BY <2>1, <2>2 DEF Units
<1>5. /\ inspections' = [inspections EXCEPT ![b] = @ + 1] /\ End(w)
      /\ UNCHANGED <<runVars, produced, packVars, held, untracked, ticketVars, recallVars, formVars>>
  BY <1>1 DEF InspectWrite
<1>6. n \in Nat
  BY DEF Units
<1>7. /\ qc \in [Batch -> QcStatus] /\ approved \in [Batch -> Units] /\ credited \in [Batch -> Nat]
      /\ free \in [Batch -> Nat] /\ stock \in Int /\ inspections \in [Batch -> Nat]
  BY DEF IInv, DataOK, BatchesOK, BulkOK
<1>8. PICK q \in {"APPROVED", "REJECTED", "PARTIALLY_APPROVED"} : qc' = [qc EXCEPT ![b] = q]
  BY <1>3
<1>9. qc' \in [Batch -> QcStatus] /\ qc'[b] \notin {"none", "PENDING"} /\ \A c \in Batch \ {b} : qc'[c] = qc[c]
  BY <1>7, <1>8 DEF QcStatus
<1>10. approved' \in [Batch -> Units] /\ approved'[b] = n /\ \A c \in Batch \ {b} : approved'[c] = approved[c]
  BY <1>3, <1>4, <1>7
<1>11. /\ credited' \in [Batch -> Nat] /\ credited'[b] = credited[b] + n
       /\ \A c \in Batch \ {b} : credited'[c] = credited[c]
  <2>1. credited' = [credited EXCEPT ![b] = @ + n]
    BY <1>3, <1>4 DEF Credit
  <2>2. credited[b] + n \in Nat
    BY <1>6, <1>7
  <2> QED
    BY ONLY b \in Batch, <1>7, <2>1, <2>2
<1>12. free' \in [Batch -> Nat] /\ \A c \in Batch \ {b} : free'[c] = free[c]
  <2>1. free' = [free EXCEPT ![b] = @ + n]
    BY <1>3, <1>4 DEF Credit
  <2> QED
    BY <1>6, <1>7, <2>1
<1>13. stock' \in Int
  BY <1>3, <1>4, <1>6, <1>7 DEF Credit
<1>14. /\ inspections' \in [Batch -> Nat] /\ inspections'[b] = inspections[b] + 1
       /\ \A c \in Batch \ {b} : inspections'[c] = inspections[c]
  BY <1>5, <1>7
<1>15. DataOK'
  BY <1>5, <1>9, <1>10, <1>11, <1>12, <1>13, <1>14
     DEF IInv, DataOK, BatchesOK, RunsOK, BulkOK, TicketsOK, FormsOK, formVars
<1>16. KeepsData(w)
  <2>1. inspections'[b] # 0
    BY <1>7, <1>14
  <2> QED
    BY <1>2, <1>5, <1>9, <1>12, <1>14, <2>1 DEF KeepsData, New, Emptied, formVars
<1>17. BatchSound(b)'
  <2>1. Awaiting(b)' = Awaiting(b) /\ Reserved(b)' = Reserved(b)
    BY <1>5, TicketsKept, TicketsSame
  <2>2. Fresh(b)' /\ charged'[b] <= SharedTotal
    BY <1>5, <1>9 DEF Fresh, New, IInv, BatchSound
  <2>3. Sound(b)'
    <3> SUFFICES ASSUME inspections'[b] <= 1 PROVE Sound(b)'
      BY DEF Sound
    <3>1. inspections[b] = 0
      BY <1>7, <1>14
    <3>2. packaged[b] = 0 /\ credited[b] = 0 /\ approved[b] = 0
      BY <1>2, <3>1 DEF IInv, BatchSound, Fresh, New
    <3>3. packaged[b] + Reserved(b) <= approved[b] /\ (recall[b] => Awaiting(b) \subseteq tBlocked)
      BY <3>1 DEF IInv, BatchSound, Sound
    <3>4. Reserved(b) \in Nat
      BY ReservedNat
    <3> QED
      BY <1>5, <1>6, <1>10, <1>11, <2>1, <3>2, <3>3, <3>4 DEF Sound
  <2> QED
    BY <2>2, <2>3 DEF BatchSound
<1>18. ASSUME NEW c \in Batch \ {b} PROVE BatchSound(c)'
  BY <1>5, <1>9, <1>10, <1>11, <1>14, TicketsKept, Elsewhere DEF SameBatch
<1>19. \A e \in Entry : Submitted(e)'
  BY <1>5 DEF IInv, Submitted, formVars
<1>20. BulkConserved'
  BY <1>3, <1>4, <1>5, <1>6, CreditConserves
<1> QED
  BY <1>5, <1>15, <1>16, <1>17, <1>18, <1>19, <1>20, WriteKeeps

-----------------------------------------------------------------------------
(* Packaging in two phases. *)

\* The quantities of a batch.
LEMMA QuantitiesOK ==
  ASSUME IInv, NEW b \in Batch
  PROVE  /\ approved[b] \in Nat /\ packaged[b] \in Nat /\ Reserved(b) \in Nat /\ produced[b] \in Nat
         /\ credited[b] \in Nat /\ charged[b] \in Nat /\ inspections[b] \in Nat
         /\ free \in [Batch -> Nat] /\ held \in [Batch -> Nat] /\ stock \in Int
<1>1. approved \in [Batch -> Nat] /\ produced \in [Batch -> Nat]
  BY SMTT(30) DEF IInv, DataOK, BatchesOK, Units
<1>2. /\ packaged \in [Batch -> Nat] /\ credited \in [Batch -> Nat] /\ charged \in [Batch -> Nat]
      /\ inspections \in [Batch -> Nat] /\ free \in [Batch -> Nat] /\ held \in [Batch -> Nat] /\ stock \in Int
  BY DEF IInv, DataOK, BatchesOK, BulkOK
<1> QED
  BY <1>1, <1>2, ReservedNat

\* A ticket that is opened is counted once: among those of its batch and among all.
LEMMA TicketOpens ==
  ASSUME IInv, NEW b \in Batch, NEW n \in Pack, NEW t \in Ticket, NEW s \in TicketState \ {"none"}, tState[t] = "none",
         tState' = [tState EXCEPT ![t] = s], tBatch' = [tBatch EXCEPT ![t] = b], tWeight' = [tWeight EXCEPT ![t] = n]
  PROVE  /\ \A c \in Batch \ {b} : SameTickets(c)
         /\ tState' \in [Ticket -> TicketState] /\ tBatch' \in [Ticket -> Batch] /\ tWeight' \in [Ticket -> Units]
         /\ n \in Nat /\ n > 0 /\ n \in Units
         /\ s = "AWAITING_CONFIRMATION" => /\ Awaiting(b)' = Awaiting(b) \cup {t} /\ Reserved(b)' = Reserved(b) + n
                                           /\ SumOf(tWeight', Open') = SumOf(tWeight, Open) + n
         /\ s # "AWAITING_CONFIRMATION" => /\ Awaiting(b)' = Awaiting(b) /\ Reserved(b)' = Reserved(b)
                                           /\ SumOf(tWeight', Open') = SumOf(tWeight, Open)
<1>1. tState \in [Ticket -> TicketState] /\ tBatch \in [Ticket -> Batch] /\ tWeight \in [Ticket -> Units]
  BY DEF IInv, DataOK, TicketsOK
<1>2. n \in Nat /\ n > 0 /\ n \in Units
  <2>1. Pack \subseteq 1..MaxUnits /\ MaxUnits \in Nat
    BY DEF ProductionAssumption
  <2> QED
    BY <2>1 DEF Units
<1>3. tState' \in [Ticket -> TicketState] /\ tState'[t] = s /\ \A u \in Ticket \ {t} : tState'[u] = tState[u]
  BY <1>1
<1>4. tBatch' \in [Ticket -> Batch] /\ tBatch'[t] = b /\ \A u \in Ticket \ {t} : tBatch'[u] = tBatch[u]
  BY <1>1
<1>5. tWeight' \in [Ticket -> Units] /\ \A u \in Ticket \ {t} : tWeight'[u] = tWeight[u]
  BY <1>1, <1>2
<1>6. \A c \in Batch \ {b} : SameTickets(c)
  BY <1>3, <1>4, <1>5 DEF SameTickets
<1>7. Awaiting(b) \in SUBSET Ticket /\ Open \in SUBSET Ticket /\ t \in Ticket \ Awaiting(b) /\ t \in Ticket \ Open
  BY DEF Awaiting, Open
<1>8. /\ SumOf(tWeight', Awaiting(b)) = Reserved(b) /\ SumOf(tWeight', Awaiting(b) \cup {t}) = Reserved(b) + n
      /\ SumOf(tWeight', Open) = SumOf(tWeight, Open) /\ SumOf(tWeight', Open \cup {t}) = SumOf(tWeight, Open) + n
  <2>1. ASSUME NEW S \in SUBSET Ticket, t \in Ticket \ S
        PROVE  SumOf(tWeight', S) = SumOf(tWeight, S) /\ SumOf(tWeight', S \cup {t}) = SumOf(tWeight, S) + n
    <3>1. \A x \in S : tWeight'[x] = tWeight[x]
      BY <1>5, <2>1
    <3>2. tWeight'[t] = n
      BY <1>1
    <3> DEFINE g == tWeight'
    <3>3. g \in [Ticket -> Units] /\ \A x \in S : g[x] = tWeight[x]
      BY <1>5, <3>1
    <3>4. S \in SUBSET Ticket /\ t \in Ticket \ S
      BY <2>1
    <3> HIDE DEF g
    <3>5. SumOf(g, S) = SumOf(tWeight, S) /\ SumOf(g, S \cup {t}) = SumOf(tWeight, S) + g[t]
      BY ONLY <1>1, <3>3, <3>4, WeightAdded
    <3> QED
      BY <3>2, <3>5 DEF g
  <2> QED
    BY <1>7, <2>1 DEF Reserved
<1>9. CASE s = "AWAITING_CONFIRMATION"
  <2>1. Awaiting(b)' = Awaiting(b) \cup {t} /\ Open' = Open \cup {t}
    BY <1>3, <1>4, <1>9 DEF Awaiting, Open
  <2> QED
    BY <1>2, <1>3, <1>4, <1>5, <1>6, <1>8, <1>9, <2>1 DEF Reserved
<1>10. CASE s # "AWAITING_CONFIRMATION"
  <2>1. Awaiting(b)' = Awaiting(b) /\ Open' = Open
    BY <1>3, <1>4, <1>10 DEF Awaiting, Open
  <2> QED
    BY <1>2, <1>3, <1>4, <1>5, <1>6, <1>8, <1>10, <2>1 DEF Reserved
<1> QED
  BY <1>9, <1>10

\* A ticket that is closed no longer counts.
LEMMA TicketCloses ==
  ASSUME IInv, NEW b \in Batch, NEW t \in Ticket, tBatch[t] = b, NEW s \in {"CONFIRMED", "CANCELLED"},
         tState[t] = "AWAITING_CONFIRMATION",
         tState' = [tState EXCEPT ![t] = s], UNCHANGED <<tBatch, tWeight>>
  PROVE  /\ \A c \in Batch \ {b} : SameTickets(c)
         /\ tState' \in [Ticket -> TicketState] /\ tState'[t] = s /\ \A u \in Ticket \ {t} : tState'[u] = tState[u]
         /\ tWeight[t] \in Nat /\ tWeight[t] \in Units
         /\ Awaiting(b)' = Awaiting(b) \ {t} /\ Reserved(b)' = Reserved(b) - tWeight[t]
         /\ SumOf(tWeight', Open') = SumOf(tWeight, Open) - tWeight[t]
<1>1. tState \in [Ticket -> TicketState] /\ tWeight \in [Ticket -> Units]
  BY DEF IInv, DataOK, TicketsOK
<1>2. tState' \in [Ticket -> TicketState] /\ tState'[t] = s /\ \A u \in Ticket \ {t} : tState'[u] = tState[u]
  BY <1>1 DEF TicketState
<1>3. \A c \in Batch \ {b} : SameTickets(c)
  BY <1>2 DEF SameTickets
<1>4. Awaiting(b) \in SUBSET Ticket /\ Open \in SUBSET Ticket /\ t \in Awaiting(b) /\ t \in Open
  BY DEF Awaiting, Open
<1>5. Awaiting(b)' = Awaiting(b) \ {t} /\ Open' = Open \ {t}
  BY <1>2 DEF Awaiting, Open
<1>6. SumOf(tWeight, Awaiting(b) \ {t}) = SumOf(tWeight, Awaiting(b)) - tWeight[t]
      /\ SumOf(tWeight, Open \ {t}) = SumOf(tWeight, Open) - tWeight[t]
  BY <1>1, <1>4, WeightRemoved
<1>7. tWeight[t] \in Units /\ tWeight[t] \in Nat
  BY <1>1 DEF Units
<1> QED
  BY <1>2, <1>3, <1>5, <1>6, <1>7 DEF Reserved

\* A ticket takes no more than the batch has left, and under a recall it has none.
LEMMA TicketWriteKeeps ==
  ASSUME IInv, NEW w \in Worker, TicketWrite(w)
  PROVE  IInv'
<1> USE DEF packVars, recallVars, runVars, batchVars
<1>1. PICK b \in Batch : b = on[w]
  BY Typed DEF Relied, OnBatch, TicketWrite
<1>2. batchLock[b] = w /\ ~New(b) /\ Emptied(b)
  BY <1>1, Typed DEF Relied, OnBatch, TicketWrite
<1>3. CASE Abort(w)
  BY <1>3, AbortKeeps
<1>4. CASE ~ Abort(w)
  <2>1. PICK n \in Pack :
          /\ Covers(b, n)
          /\ \E t \in Ticket :
               /\ tState[t] = "none" /\ tState' = [tState EXCEPT ![t] = "AWAITING_CONFIRMATION"]
               /\ tBatch' = [tBatch EXCEPT ![t] = b] /\ tWeight' = [tWeight EXCEPT ![t] = n]
          /\ free' = [free EXCEPT ![b] = @ - n] /\ stock' = stock - n
          /\ End(w)
          /\ UNCHANGED <<runVars, batchVars, packVars, held, untracked, goodQty, lot, recallVars, formVars>>
    BY <1>1, <1>4 DEF TicketWrite
  <2>2. PICK t \in Ticket :
          /\ tState[t] = "none" /\ tState' = [tState EXCEPT ![t] = "AWAITING_CONFIRMATION"]
          /\ tBatch' = [tBatch EXCEPT ![t] = b] /\ tWeight' = [tWeight EXCEPT ![t] = n]
    BY <2>1
  <2>3. /\ \A c \in Batch \ {b} : SameTickets(c)
        /\ tState' \in [Ticket -> TicketState] /\ tBatch' \in [Ticket -> Batch] /\ tWeight' \in [Ticket -> Units]
        /\ n \in Nat /\ n > 0 /\ n \in Units
        /\ Awaiting(b)' = Awaiting(b) \cup {t} /\ Reserved(b)' = Reserved(b) + n
        /\ SumOf(tWeight', Open') = SumOf(tWeight, Open) + n
    <3>1. "AWAITING_CONFIRMATION" \in TicketState \ {"none"}
      BY DEF TicketState
    <3> QED
      BY ONLY IInv, <2>2, <3>1, TicketOpens
  <2>4. n <= Balance(b) /\ n <= free[b]
    BY <2>1 DEF Covers
  <2>5. approved[b] \in Nat /\ packaged[b] \in Nat /\ Reserved(b) \in Nat /\ free \in [Batch -> Nat] /\ stock \in Int
    BY QuantitiesOK
  <2>6. free' \in [Batch -> Nat] /\ stock' \in Int /\ \A c \in Batch \ {b} : free'[c] = free[c]
    BY <2>1, <2>3, <2>4, <2>5
  <2>7. DataOK'
    BY <2>1, <2>3, <2>6 DEF IInv, DataOK, BatchesOK, RunsOK, BulkOK, TicketsOK, FormsOK, formVars
  <2>8. KeepsData(w)
    <3>1. \A u \in Ticket : tState[u] # "none" => tState'[u] = tState[u] /\ tBatch'[u] = tBatch[u]
      BY <2>2, <2>3 DEF IInv, DataOK, TicketsOK
    <3>2. \A c \in Batch : batchLock[c] \notin {None, w} => Emptied(c)' = Emptied(c)
      BY <1>2, <2>1, <2>6 DEF Emptied
    <3> QED
      BY <2>1, <3>1, <3>2 DEF KeepsData, New, formVars
  <2>9. ASSUME NEW c \in Batch \ {b} PROVE BatchSound(c)'
    BY <2>1, <2>3, Elsewhere DEF SameBatch
  <2>10. BatchSound(b)'
    <3>1. Fresh(b)' /\ charged'[b] <= SharedTotal
      BY <1>2, <2>1 DEF Fresh, New, IInv, BatchSound
    <3>2. Sound(b)'
      <4> SUFFICES ASSUME inspections[b] <= 1 PROVE Sound(b)'
        BY <2>1 DEF Sound
      <4>1. credited[b] = approved[b]
        BY DEF IInv, BatchSound, Sound
      <4>2. ~recall[b]
        BY <1>2, <2>3, <2>4, <2>5 DEF Emptied
      <4>3. packaged[b] + (Reserved(b) + n) <= approved[b]
        BY <2>3, <2>4, <2>5 DEF Balance, Reserved
      <4> QED
        BY <2>1, <2>3, <4>1, <4>2, <4>3 DEF Sound
    <3> QED
      BY <3>1, <3>2 DEF BatchSound
  <2>11. \A e \in Entry : Submitted(e)'
    BY <2>1 DEF IInv, Submitted, formVars
  <2>12. BulkConserved'
    <3>1. PICK m \in Int : m = 0 - n
      BY <2>3
    <3>2. m + 0 = m + 0 /\ m + 0 + n + 0 + 0 - 0 = 0 /\ 0 \in Int /\ n \in Int /\ m \in Int
      <4>1. n \in Nat
        BY <2>3
      <4> QED
        BY ONLY <4>1, <3>1
    <3>3. SumOf(free', Batch) = SumOf(free, Batch) + m /\ stock' = stock + m
      <4>1. free[b] - n = free[b] + m /\ stock - n = stock + m
        <5>1. \A i \in Int : i - n = i + m
          BY ONLY <3>1, <3>2
        <5>2. free[b] \in Int /\ stock \in Int
          BY <2>5
        <5> QED
          BY ONLY <5>1, <5>2
      <4>2. free' = [free EXCEPT ![b] = free[b] + m] /\ stock' = stock + m
        BY <2>1, <4>1
      <4>3. free'[b] = free[b] + m /\ (\A c \in Batch \ {b} : free'[c] = free[c]) /\ free \in [Batch -> Int]
        BY <4>2, Totals
      <4>4. SumOf(free', Batch) = SumOf(free, Batch) + m
        BY ONLY <3>2, <4>3, b \in Batch, TotalPlus
      <4> QED
        BY <4>2, <4>4
    <3>4. \A i \in Int : i = i + 0
      OBVIOUS
    <3>5. /\ SumOf(held', Batch) = SumOf(held, Batch) + 0 /\ SumOf(packaged', Batch) = SumOf(packaged, Batch) + 0
          /\ SumOf(wasted', Batch) = SumOf(wasted, Batch) + 0 /\ untracked' = untracked + 0
          /\ SumOf(credited', Batch) = SumOf(credited, Batch) + 0
      BY <2>1, <3>4, Totals
    <3> QED
      BY ONLY IInv, <2>3, <3>2, <3>3, <3>5, Conserves
  <2> QED
    BY <2>1, <2>7, <2>8, <2>9, <2>10, <2>11, <2>12, WriteKeeps
<1> QED
  BY <1>3, <1>4

\* The confirmation packs what its ticket reserved.
LEMMA ConfirmWriteKeeps ==
  ASSUME IInv, NEW w \in Worker, ConfirmWrite(w)
  PROVE  IInv'
<1> USE DEF recallVars, runVars, batchVars, bulkVars
<1>1. PICK t \in Ticket, b \in Batch : t = on[w] /\ b = tBatch[t]
  BY Typed DEF Relied, OnTicket, ConfirmWrite, DataOK, TicketsOK
<1>2. /\ batchLock[b] = w /\ ticketLock[t] = w /\ tState[t] = "AWAITING_CONFIRMATION"
      /\ seen[w].packed = packaged[b]
  BY <1>1, Typed DEF Relied, OnTicket, ConfirmWrite
<1>3. PICK g \in 0..tWeight[t] : goodQty' = [goodQty EXCEPT ![t] = g] /\ lot' = [lot EXCEPT ![t] = g]
  BY <1>1 DEF ConfirmWrite
<1>4. PICK k \in Nat : k = tWeight[t] /\ k \in Units
  BY DEF IInv, DataOK, TicketsOK, Units
<1>5. /\ tState' = [tState EXCEPT ![t] = "CONFIRMED"]
      /\ packaged' = [packaged EXCEPT ![b] = packaged[b] + k]
      /\ packing' = [packing EXCEPT ![b] = PackingStatus(b, packaged[b] + k)]
      /\ tBlocked' = tBlocked \ {t} /\ End(w)
      /\ UNCHANGED <<runVars, batchVars, charged, wasted, bulkVars, tBatch, tWeight, recall, formVars>>
  BY <1>1, <1>2, <1>4 DEF ConfirmWrite
<1>6. /\ \A c \in Batch \ {b} : SameTickets(c)
      /\ tState' \in [Ticket -> TicketState] /\ \A u \in Ticket \ {t} : tState'[u] = tState[u]
      /\ tState'[t] = "CONFIRMED" /\ Awaiting(b)' = Awaiting(b) \ {t} /\ Reserved(b)' = Reserved(b) - k
      /\ SumOf(tWeight', Open') = SumOf(tWeight, Open) - k
  BY <1>1, <1>2, <1>4, <1>5, TicketCloses
<1>7. goodQty' \in [Ticket -> Units] /\ lot' \in [Ticket -> Units]
  <2>1. g \in Units /\ goodQty \in [Ticket -> Units] /\ lot \in [Ticket -> Units]
    <3>1. goodQty \in [Ticket -> Units] /\ lot \in [Ticket -> Units] /\ MaxUnits \in Nat
      BY DEF IInv, DataOK, TicketsOK, ProductionAssumption
    <3> QED
      BY <1>3, <1>4, <3>1 DEF Units
  <2> QED
    BY <1>3, <2>1
<1>8. /\ packaged' \in [Batch -> Nat] /\ packaged'[b] = packaged[b] + k
      /\ \A c \in Batch \ {b} : packaged'[c] = packaged[c]
  <2>1. packaged \in [Batch -> Nat] /\ packaged[b] + k \in Nat
    BY SMTT(30) DEF IInv, DataOK, BatchesOK
  <2> QED
    BY <1>5, <2>1
<1>9. packing' \in [Batch -> PackedStatus] /\ \A c \in Batch \ {b} : packing'[c] = packing[c]
  <2>1. packing \in [Batch -> PackedStatus] /\ PackingStatus(b, packaged[b] + k) \in PackedStatus
    BY DEF IInv, DataOK, BatchesOK, PackingStatus, PackedStatus
  <2> QED
    BY <1>5, <2>1
<1>10. DataOK'
  BY <1>5, <1>6, <1>7, <1>8, <1>9 DEF IInv, DataOK, BatchesOK, RunsOK, BulkOK, TicketsOK, FormsOK, formVars
<1>11. KeepsData(w)
  <2>1. w # None
    BY DEF ProductionAssumption
  <2> QED
    BY <1>2, <1>5, <1>6, <1>8, <1>9, <2>1 DEF KeepsData, New, Emptied, formVars
<1>12. ASSUME NEW c \in Batch \ {b} PROVE BatchSound(c)'
  BY <1>1, <1>5, <1>6, <1>8, Elsewhere DEF SameBatch
<1>13. BatchSound(b)'
  <2>1. Fresh(b)' /\ charged'[b] <= SharedTotal
    BY <1>1, <1>2, <1>5 DEF Fresh, New, IInv, BatchSound
  <2>2. ASSUME inspections[b] <= 1
        PROVE  /\ packaged[b] + k + (Reserved(b) - k) <= approved[b] /\ credited[b] = approved[b]
               /\ recall[b] => Awaiting(b) \ {t} \subseteq tBlocked \ {t}
    BY SMTT(30), <2>2, QuantitiesOK DEF IInv, BatchSound, Sound
  <2>3. Sound(b)'
    BY <1>5, <1>6, <1>8, <2>2 DEF Sound
  <2> QED
    BY <2>1, <2>3 DEF BatchSound
<1>14. \A e \in Entry : Submitted(e)'
  <2>1. ASSUME NEW c \in Batch PROVE packaged'[c] >= packaged[c]
    <3>1. packaged[c] \in Nat
      BY QuantitiesOK
    <3> QED
      BY <1>8, <3>1
  <2> QED
    BY <1>5, <1>10, <2>1, SubmittedKept
<1>15. BulkConserved'
  <2>1. PICK m \in Int : m = 0 - k
    OBVIOUS
  <2>2. /\ 0 + 0 = 0 + 0 /\ 0 + 0 + m + k + 0 - 0 = 0 /\ 0 \in Int /\ k \in Int /\ m \in Int
        /\ \A i \in Int : i = i + 0 /\ i - k = i + m
    BY <2>1
  <2>3. SumOf(packaged', Batch) = SumOf(packaged, Batch) + k
    <3>1. packaged \in [Batch -> Int]
      BY Totals
    <3> QED
      BY ONLY <1>8, <2>2, <3>1, b \in Batch, TotalPlus
  <2>4. /\ SumOf(free', Batch) = SumOf(free, Batch) + 0 /\ SumOf(held', Batch) = SumOf(held, Batch) + 0
        /\ SumOf(wasted', Batch) = SumOf(wasted, Batch) + 0 /\ untracked' = untracked + 0
        /\ SumOf(credited', Batch) = SumOf(credited, Batch) + 0 /\ stock' = stock + 0
        /\ SumOf(tWeight', Open') = SumOf(tWeight, Open) + m
    BY <1>5, <1>6, <2>2, Totals
  <2> QED
    BY ONLY IInv, <2>2, <2>3, <2>4, Conserves
<1> QED
  BY <1>5, <1>10, <1>11, <1>12, <1>13, <1>14, <1>15, WriteKeeps

\* A cancelled ticket puts its bulk back where a recall wants it.
LEMMA CancelTicketWriteKeeps ==
  ASSUME IInv, NEW w \in Worker, CancelTicketWrite(w)
  PROVE  IInv'
<1> USE DEF recallVars, runVars, batchVars, packVars
<1>1. PICK t \in Ticket, b \in Batch : t = on[w] /\ b = tBatch[t]
  BY Typed DEF Relied, OnTicket, CancelTicketWrite, DataOK, TicketsOK
<1>2. ticketLock[t] = w /\ tState[t] = "AWAITING_CONFIRMATION"
  BY <1>1, Typed DEF Relied, OnTicket, CancelTicketWrite
<1>3. PICK k \in Nat : k = tWeight[t]
  BY DEF IInv, DataOK, TicketsOK, Units
<1>4. /\ IF t \in tBlocked
         THEN held' = [held EXCEPT ![b] = @ + k] /\ UNCHANGED free
         ELSE free' = [free EXCEPT ![b] = @ + k] /\ UNCHANGED held
      /\ stock' = stock + k /\ tState' = [tState EXCEPT ![t] = "CANCELLED"] /\ End(w)
      /\ UNCHANGED <<runVars, batchVars, packVars, untracked, tBatch, tWeight, goodQty, lot, recallVars, formVars>>
  BY <1>1, <1>3 DEF CancelTicketWrite
<1>5. /\ \A c \in Batch \ {b} : SameTickets(c)
      /\ tState' \in [Ticket -> TicketState] /\ \A u \in Ticket \ {t} : tState'[u] = tState[u]
      /\ tState'[t] = "CANCELLED" /\ Awaiting(b)' = Awaiting(b) \ {t} /\ Reserved(b)' = Reserved(b) - k
      /\ SumOf(tWeight', Open') = SumOf(tWeight, Open) - k
  BY <1>1, <1>2, <1>3, <1>4, TicketCloses
<1>6. free' \in [Batch -> Nat] /\ held' \in [Batch -> Nat] /\ \A c \in Batch \ {b} : free'[c] = free[c]
  <2>1. free \in [Batch -> Nat] /\ held \in [Batch -> Nat]
    BY QuantitiesOK
  <2>2. CASE t \in tBlocked
    BY <1>4, <2>1, <2>2
  <2>3. CASE t \notin tBlocked
    BY SMTT(30), <1>4, <2>1, <2>3
  <2> QED
    BY <2>2, <2>3
<1>7. DataOK'
  <2>1. stock' \in Int
    BY <1>4, QuantitiesOK
  <2> QED
    BY <1>4, <1>5, <1>6, <2>1 DEF IInv, DataOK, BatchesOK, RunsOK, BulkOK, TicketsOK, FormsOK, formVars
<1>8. Emptied(b) => Emptied(b)'
  <2> SUFFICES ASSUME recall[b], inspections[b] <= 1, free[b] = 0 PROVE free'[b] = 0
    BY <1>4 DEF Emptied
  <2>1. t \in tBlocked
    BY <1>1, <1>2 DEF IInv, BatchSound, Sound, Awaiting
  <2> QED
    BY <1>4, <2>1
<1>9. KeepsData(w)
  <2>1. \A c \in Batch : Emptied(c) => Emptied(c)'
    BY <1>4, <1>6, <1>8 DEF Emptied
  <2>2. w # None
    BY DEF ProductionAssumption
  <2> QED
    BY <1>2, <1>4, <1>5, <2>1, <2>2 DEF KeepsData, New, formVars
<1>10. ASSUME NEW c \in Batch \ {b} PROVE BatchSound(c)'
  BY <1>1, <1>4, <1>5, Elsewhere DEF SameBatch
<1>11. BatchSound(b)'
  <2>1. Fresh(b)' /\ charged'[b] <= SharedTotal
    BY <1>1, <1>2, <1>4 DEF Fresh, New, IInv, BatchSound
  <2>2. ASSUME inspections[b] <= 1
        PROVE  /\ packaged[b] + (Reserved(b) - k) <= approved[b] /\ credited[b] = approved[b]
               /\ recall[b] => Awaiting(b) \ {t} \subseteq tBlocked
    BY SMTT(30), <2>2, QuantitiesOK DEF IInv, BatchSound, Sound
  <2>3. Sound(b)'
    BY <1>4, <1>5, <2>2 DEF Sound
  <2> QED
    BY <2>1, <2>3 DEF BatchSound
<1>12. \A e \in Entry : Submitted(e)'
  BY <1>4 DEF IInv, Submitted, formVars
<1>13. BulkConserved'
  <2>1. PICK m \in Int : m = 0 - k
    OBVIOUS
  <2>2. /\ 0 + k = k + 0 /\ k + 0 = k + 0 /\ 0 + k + m + 0 + 0 - 0 = 0 /\ k + 0 + m + 0 + 0 - 0 = 0
        /\ 0 \in Int /\ k \in Int /\ m \in Int /\ \A i \in Int : i = i + 0 /\ i - k = i + m
    BY <2>1
  <2>3. /\ SumOf(packaged', Batch) = SumOf(packaged, Batch) + 0
        /\ SumOf(wasted', Batch) = SumOf(wasted, Batch) + 0 /\ untracked' = untracked + 0
        /\ SumOf(credited', Batch) = SumOf(credited, Batch) + 0 /\ stock' = stock + k
        /\ SumOf(tWeight', Open') = SumOf(tWeight, Open) + m
    BY <1>4, <1>5, <2>2, Totals
  <2>4. CASE t \in tBlocked
    <3>1. SumOf(free', Batch) = SumOf(free, Batch) + 0 /\ SumOf(held', Batch) = SumOf(held, Batch) + k
      <4>1. held'[b] = held[b] + k /\ (\A c \in Batch \ {b} : held'[c] = held[c]) /\ held \in [Batch -> Int]
        BY <1>4, <2>4, Totals
      <4>2. SumOf(held', Batch) = SumOf(held, Batch) + k
        BY ONLY <2>2, <4>1, b \in Batch, TotalPlus
      <4> QED
        BY <1>4, <2>2, <2>4, <4>2, Totals
    <3> QED
      BY ONLY IInv, <2>2, <2>3, <3>1, Conserves
  <2>5. CASE t \notin tBlocked
    <3>1. SumOf(free', Batch) = SumOf(free, Batch) + k /\ SumOf(held', Batch) = SumOf(held, Batch) + 0
      <4>1. free'[b] = free[b] + k /\ (\A c \in Batch \ {b} : free'[c] = free[c]) /\ free \in [Batch -> Int]
        BY <1>4, <2>5, Totals
      <4>2. SumOf(free', Batch) = SumOf(free, Batch) + k
        BY ONLY <2>2, <4>1, b \in Batch, TotalPlus
      <4> QED
        BY <1>4, <2>2, <2>5, <4>2, Totals
    <3> QED
      BY ONLY IInv, <2>2, <2>3, <3>1, Conserves
  <2> QED
    BY <2>4, <2>5
<1> QED
  BY <1>4, <1>7, <1>9, <1>10, <1>11, <1>12, <1>13, WriteKeeps
-----------------------------------------------------------------------------
(* Recalls and waste. *)

\* A recall finds the batch's bulk and every ticket that is open.
LEMMA RecallWriteKeeps ==
  ASSUME IInv, NEW w \in Worker, RecallWrite(w)
  PROVE  IInv'
<1> USE DEF runVars, batchVars, packVars, ticketVars
<1>1. PICK b \in Batch : b = on[w]
  BY Typed DEF Relied, OnBatch, RecallWrite
<1>2. CASE recall[b]
  BY <1>1, <1>2, AbortKeeps DEF RecallWrite
<1>3. CASE ~recall[b]
  <2>1. /\ recall' = [recall EXCEPT ![b] = TRUE] /\ held' = [held EXCEPT ![b] = @ + free[b]]
        /\ free' = [free EXCEPT ![b] = 0]
        /\ tBlocked' = tBlocked \cup {t \in Ticket : tState[t] # "none" /\ tBatch[t] = b}
        /\ End(w) /\ UNCHANGED <<runVars, batchVars, packVars, stock, untracked, ticketVars, formVars>>
    BY <1>1, <1>3 DEF RecallWrite, BlockLots
  <2>2. free \in [Batch -> Nat] /\ held \in [Batch -> Nat] /\ recall \in [Batch -> BOOLEAN] /\ tBlocked \subseteq Ticket
    BY DEF IInv, DataOK, BatchesOK, BulkOK, TicketsOK
  <2>3. PICK k \in Nat : k = free[b]
    BY <2>2
  <2>4. free' \in [Batch -> Nat] /\ free'[b] = 0 /\ \A c \in Batch \ {b} : free'[c] = free[c]
    BY <2>1, <2>2
  <2>5. held' \in [Batch -> Nat] /\ held'[b] = held[b] + k /\ \A c \in Batch \ {b} : held'[c] = held[c]
    BY <2>1, <2>2, <2>3
  <2>6. recall' \in [Batch -> BOOLEAN] /\ \A c \in Batch \ {b} : recall'[c] = recall[c]
    BY <2>1, <2>2
  <2>7. DataOK'
    BY <2>1, <2>2, <2>4, <2>5, <2>6 DEF IInv, DataOK, BatchesOK, RunsOK, BulkOK, TicketsOK, FormsOK, formVars
  <2>8. KeepsData(w)
    <3>1. \A c \in Batch : Emptied(c) => Emptied(c)'
      BY <2>1, <2>4, <2>6 DEF Emptied
    <3> QED
      BY <2>1, <3>1 DEF KeepsData, New, formVars
  <2>9. \A c \in Batch : SameTickets(c)
    BY <2>1 DEF SameTickets
  <2>10. ASSUME NEW c \in Batch \ {b} PROVE BatchSound(c)'
    BY <2>1, <2>6, <2>9, Elsewhere DEF SameBatch
  <2>11. BatchSound(b)'
    <3>1. Awaiting(b)' = Awaiting(b) /\ Reserved(b)' = Reserved(b)
      BY <2>9, TicketsSame
    <3>2. Fresh(b)' /\ charged'[b] <= SharedTotal
      BY <2>1 DEF Fresh, New, IInv, BatchSound
    <3>3. Awaiting(b) \subseteq tBlocked'
      BY <2>1 DEF Awaiting
    <3>4. Sound(b)'
      BY <2>1, <3>1, <3>3 DEF Sound, IInv, BatchSound
    <3> QED
      BY <3>2, <3>4 DEF BatchSound
  <2>12. \A e \in Entry : Submitted(e)'
    BY <2>1 DEF IInv, Submitted, formVars
  <2>13. BulkConserved'
    <3>1. PICK m \in Int : m = 0 - k
      OBVIOUS
    <3>2. /\ m + k = 0 + 0 /\ m + k + 0 + 0 + 0 - 0 = 0 /\ 0 \in Int /\ k \in Int /\ m \in Int
          /\ \A i \in Int : i = i + 0
      BY <3>1
    <3>3. SumOf(free', Batch) = SumOf(free, Batch) + m
      <4>0. 0 = k + m
        BY <3>1
      <4>1. free'[b] = free[b] + m /\ free \in [Batch -> Int]
        BY <2>2, <2>3, <2>4, <4>0
      <4> QED
        BY ONLY <2>4, <3>2, <4>1, b \in Batch, TotalPlus
    <3>4. SumOf(held', Batch) = SumOf(held, Batch) + k
      <4>1. held \in [Batch -> Int]
        BY Totals
      <4> QED
        BY ONLY <2>5, <3>2, <4>1, b \in Batch, TotalPlus
    <3>5. /\ SumOf(packaged', Batch) = SumOf(packaged, Batch) + 0
          /\ SumOf(wasted', Batch) = SumOf(wasted, Batch) + 0 /\ untracked' = untracked + 0
          /\ SumOf(credited', Batch) = SumOf(credited, Batch) + 0 /\ stock' = stock + 0
          /\ SumOf(tWeight', Open') = SumOf(tWeight, Open) + 0
      BY <2>1, <3>2, Totals DEF Open
    <3> QED
      BY ONLY IInv, <3>2, <3>3, <3>4, <3>5, Conserves
  <2> QED
    BY <2>1, <2>7, <2>8, <2>10, <2>11, <2>12, <2>13, WriteKeeps
<1> QED
  BY <1>2, <1>3

\* A recall that is cancelled puts everything back on sale.
LEMMA CancelRecallKeeps ==
  ASSUME IInv, NEW w \in Worker, NEW b \in Batch, CancelRecall(w, b)
  PROVE  IInv'
<1> USE DEF runVars, batchVars, packVars, ticketVars
<1>1. /\ pc[w] = "idle" /\ recall' = [recall EXCEPT ![b] = FALSE]
      /\ free' = [free EXCEPT ![b] = @ + held[b]] /\ held' = [held EXCEPT ![b] = 0]
      /\ tBlocked' = {t \in tBlocked : tBatch[t] # b}
      /\ UNCHANGED <<runVars, batchVars, packVars, stock, untracked, ticketVars, formVars, locks, pc, on, seen>>
  BY DEF CancelRecall
<1>2. free \in [Batch -> Nat] /\ held \in [Batch -> Nat] /\ recall \in [Batch -> BOOLEAN] /\ tBlocked \subseteq Ticket
  BY DEF IInv, DataOK, BatchesOK, BulkOK, TicketsOK
<1>3. PICK k \in Nat : k = held[b]
  BY <1>2
<1>4. free' \in [Batch -> Nat] /\ free'[b] = free[b] + k /\ \A c \in Batch \ {b} : free'[c] = free[c]
  BY <1>1, <1>2, <1>3
<1>5. held' \in [Batch -> Nat] /\ held'[b] = 0 /\ \A c \in Batch \ {b} : held'[c] = held[c]
  BY <1>1, <1>2
<1>6. recall' \in [Batch -> BOOLEAN] /\ ~recall'[b] /\ \A c \in Batch \ {b} : recall'[c] = recall[c]
  BY <1>1, <1>2
<1>7. DataOK'
  BY <1>1, <1>2, <1>4, <1>5, <1>6 DEF IInv, DataOK, BatchesOK, RunsOK, BulkOK, TicketsOK, FormsOK, formVars
<1>8. KeepsData(w)
  <2>1. \A c \in Batch : Emptied(c) => Emptied(c)'
    BY <1>1, <1>4, <1>6 DEF Emptied
  <2> QED
    BY <1>1, <2>1 DEF KeepsData, New, formVars
<1>9. \A c \in Batch : SameTickets(c)
  BY <1>1 DEF SameTickets
<1>10. ASSUME NEW c \in Batch \ {b} PROVE BatchSound(c)'
  BY <1>1, <1>6, <1>9, Elsewhere DEF SameBatch
<1>11. BatchSound(b)'
  <2>1. Awaiting(b)' = Awaiting(b) /\ Reserved(b)' = Reserved(b)
    BY <1>9, TicketsSame
  <2>2. Fresh(b)' /\ charged'[b] <= SharedTotal
    BY <1>1 DEF Fresh, New, IInv, BatchSound
  <2>3. Sound(b)'
    BY <1>1, <1>6, <2>1 DEF Sound, IInv, BatchSound
  <2> QED
    BY <2>2, <2>3 DEF BatchSound
<1>12. \A e \in Entry : Submitted(e)'
  BY <1>1 DEF IInv, Submitted, formVars
<1>13. BulkConserved'
  <2>1. PICK m \in Int : m = 0 - k
    OBVIOUS
  <2>2. /\ k + m = 0 + 0 /\ k + m + 0 + 0 + 0 - 0 = 0 /\ 0 \in Int /\ k \in Int /\ m \in Int
        /\ \A i \in Int : i = i + 0
    BY <2>1
  <2>3. SumOf(held', Batch) = SumOf(held, Batch) + m
    <3>0. 0 = k + m
      BY <2>1
    <3>1. held'[b] = held[b] + m /\ held \in [Batch -> Int]
      BY <1>2, <1>3, <1>5, <3>0
    <3> QED
      BY ONLY <1>5, <2>2, <3>1, b \in Batch, TotalPlus
  <2>4. SumOf(free', Batch) = SumOf(free, Batch) + k
    <3>1. free \in [Batch -> Int]
      BY Totals
    <3> QED
      BY ONLY <1>4, <2>2, <3>1, b \in Batch, TotalPlus
  <2>5. /\ SumOf(packaged', Batch) = SumOf(packaged, Batch) + 0
        /\ SumOf(wasted', Batch) = SumOf(wasted, Batch) + 0 /\ untracked' = untracked + 0
        /\ SumOf(credited', Batch) = SumOf(credited, Batch) + 0 /\ stock' = stock + 0
        /\ SumOf(tWeight', Open') = SumOf(tWeight, Open) + 0
    BY <1>1, <2>2, Totals DEF Open
  <2> QED
    BY ONLY IInv, <2>2, <2>3, <2>4, <2>5, Conserves
<1>14. LocksOK' /\ RequestsOK' /\ KeepsLocks(w) /\ \A v \in Worker : Steady(v)
  BY <1>1 DEF IInv, LocksOK, RequestsOK, KeepsLocks, Steady, locks
<1>15. ASSUME NEW v \in Worker PROVE Relied(v)'
  <2>1. CASE v = w
    BY <1>1, <2>1, IdleRelies
  <2>2. CASE v # w
    BY <1>8, <1>14, <2>2, OthersKeep
  <2> QED
    BY <2>1, <2>2
<1> QED
  BY <1>7, <1>10, <1>11, <1>12, <1>13, <1>14, <1>15 DEF IInv

\* The waste of a balance leaves every lot with no less than nothing.
LEMMA WasteWriteKeeps ==
  ASSUME IInv, NEW w \in Worker, WasteWrite(w)
  PROVE  IInv'
<1> USE DEF runVars, batchVars, ticketVars, recallVars
<1>1. PICK b \in Batch : b = on[w]
  BY Typed DEF Relied, OnBatch, WasteWrite
<1>2. CASE Abort(w)
  BY <1>2, AbortKeeps
<1>3. CASE ~Abort(w)
  <2>1. PICK n \in Nat : n = Positive(seen[w].balance)
    BY Typed DEF Positive
  <2>2. PICK took \in [Batch -> Nat], left \in Nat :
          /\ took = Fifo(n).took /\ left = Fifo(n).left
          /\ SumOf(took, Batch) + left = n /\ \A c \in Batch : took[c] <= free[c]
    <3>1. free \in [Batch -> Nat]
      BY QuantitiesOK, <1>1
    <3> QED
      BY <3>1, FifoTakes
  <2>3. /\ free' = [c \in Batch |-> free[c] - took[c]] /\ stock' = stock - n /\ untracked' = untracked + left
        /\ wasted' = [wasted EXCEPT ![b] = @ + n] /\ packing' = [packing EXCEPT ![b] = "PACKAGED"]
        /\ End(w) /\ UNCHANGED <<runVars, batchVars, packaged, charged, held, ticketVars, recallVars, formVars>>
    BY <1>1, <1>3, <2>1, <2>2 DEF WasteWrite
  <2>4. /\ free \in [Batch -> Nat] /\ stock \in Int /\ untracked \in Nat /\ wasted \in [Batch -> Nat]
        /\ packing \in [Batch -> PackedStatus] /\ "PACKAGED" \in PackedStatus
    BY DEF IInv, DataOK, BatchesOK, BulkOK, PackedStatus
  <2>5. free' \in [Batch -> Nat] /\ \A c \in Batch : free[c] = 0 => free'[c] = 0
    <3>1. ASSUME NEW c \in Batch PROVE free[c] - took[c] \in Nat /\ (free[c] = 0 => free[c] - took[c] = 0)
      BY SMTT(30), <2>2, <2>4
    <3> QED
      BY <2>3, <3>1
  <2>6. /\ wasted' \in [Batch -> Nat] /\ wasted'[b] = wasted[b] + n
        /\ \A c \in Batch \ {b} : wasted'[c] = wasted[c]
    BY <2>3, <2>4
  <2>7. packing' \in [Batch -> PackedStatus] /\ \A c \in Batch \ {b} : packing'[c] = packing[c]
    BY <2>3, <2>4
  <2>8. stock' \in Int /\ untracked' \in Nat
    BY <2>3, <2>4
  <2>9. DataOK'
    BY <2>3, <2>5, <2>6, <2>7, <2>8 DEF IInv, DataOK, BatchesOK, RunsOK, BulkOK, TicketsOK, FormsOK, formVars
  <2>10. KeepsData(w)
    <3>1. \A c \in Batch : Emptied(c) => Emptied(c)'
      BY <2>3, <2>5 DEF Emptied
    <3>2. batchLock[b] = w
      BY <1>1, <1>3, Typed DEF Relied, OnBatch, WasteWrite
    <3> QED
      BY <2>3, <2>7, <3>1, <3>2 DEF KeepsData, New, formVars
  <2>11. ASSUME NEW c \in Batch PROVE BatchSound(c)'
    BY <2>3, TicketsKept, Elsewhere DEF SameBatch
  <2>12. \A e \in Entry : Submitted(e)'
    BY <2>3 DEF IInv, Submitted, formVars
  <2>13. BulkConserved'
    <3>1. PICK m \in Int : m = left - n
      OBVIOUS
    <3>2. PICK s \in Int : s = 0 - n
      OBVIOUS
    <3>3. /\ m + 0 = s + left /\ m + 0 + 0 + 0 + n - left = 0 /\ 0 \in Int /\ n \in Int /\ left \in Int
          /\ m \in Int /\ s \in Int /\ \A i \in Int : i = i + 0 /\ i - n = i + s
      BY <3>1, <3>2
    <3>4. SumOf(free', Batch) = SumOf(free, Batch) + m
      <4> DEFINE F == SumOf(free, Batch)
                 G == SumOf(took, Batch)
      <4>1. SumOf(free', Batch) = F - G
        <5>1. free \in [Batch -> Int] /\ took \in [Batch -> Int] /\ \A c \in Batch : free'[c] = free[c] - took[c]
          BY <2>3, <2>4
        <5> QED
          BY ONLY <5>1, TotalTaken
      <4>2. F \in Int /\ G \in Int /\ G + left = n
        <5>1. IsFiniteSet(Batch) /\ Ints(took, Batch)
          BY BatchesInOrder DEF Ints
        <5> QED
          BY <2>2, <5>1, Totals, SumInt
      <4> HIDE DEF F, G
      <4>3. F - G = F + m
        BY <3>1, <4>2
      <4> QED
        BY <4>1, <4>3 DEF F
    <3>5. SumOf(wasted', Batch) = SumOf(wasted, Batch) + n
      <4>1. wasted \in [Batch -> Int]
        BY Totals
      <4> QED
        BY ONLY <2>6, <3>3, <4>1, b \in Batch, TotalPlus
    <3>6. /\ SumOf(packaged', Batch) = SumOf(packaged, Batch) + 0
          /\ SumOf(held', Batch) = SumOf(held, Batch) + 0 /\ untracked' = untracked + left
          /\ SumOf(credited', Batch) = SumOf(credited, Batch) + 0 /\ stock' = stock + s
          /\ SumOf(tWeight', Open') = SumOf(tWeight, Open) + 0
      BY <2>3, <3>3, Totals DEF Open
    <3> QED
      BY ONLY IInv, <3>3, <3>4, <3>5, <3>6, Conserves
  <2> QED
    BY <2>3, <2>9, <2>10, <2>11, <2>12, <2>13, WriteKeeps
<1> QED
  BY <1>2, <1>3
-----------------------------------------------------------------------------
(* Package and confirm in one request. *)

\* A share is no more than what is left of the expense, and the last takes all of it.
LEMMA ShareLeft ==
  ASSUME NEW b, charged[b] \in Nat, charged[b] <= SharedTotal, packaged[b] \in Nat,
         NEW n \in Nat, NEW yield \in Nat
  PROVE  /\ Share(b, n, SharedTotal, yield) \in Nat
         /\ charged[b] + Share(b, n, SharedTotal, yield) <= SharedTotal
         /\ packaged[b] + n >= yield => charged[b] + Share(b, n, SharedTotal, yield) = SharedTotal
<1> DEFINE left == Positive(SharedTotal - charged[b])
           part == (SharedTotal * n) \div yield
<1>1. SharedTotal \in Nat
  BY DEF ProductionAssumption
<1>2. left \in Nat /\ charged[b] + left = SharedTotal
  BY <1>1 DEF Positive
<1>3. packaged[b] + n < yield => part \in Nat
  <2> SUFFICES ASSUME packaged[b] + n < yield PROVE part \in Nat
    OBVIOUS
  <2>1. yield > 0
    OBVIOUS
  <2>2. \A p \in Nat : p \div yield \in Nat
    BY <2>1
  <2>3. SharedTotal * n \in Nat
    BY <1>1
  <2> QED
    BY <2>2, <2>3
<1>4. Share(b, n, SharedTotal, yield) = IF packaged[b] + n >= yield THEN left ELSE Lesser(part, left)
  BY DEF Share
<1> HIDE DEF left, part
<1>5. CASE packaged[b] + n >= yield
  BY <1>1, <1>2, <1>4, <1>5
<1>6. CASE ~ (packaged[b] + n >= yield)
  <2>1. part \in Nat
    BY <1>3, <1>6
  <2>2. Share(b, n, SharedTotal, yield) = Lesser(part, left)
    BY <1>4, <1>6
  <2>3. Lesser(part, left) \in Nat /\ Lesser(part, left) <= left
    BY <1>2, <2>1 DEF Lesser
  <2> QED
    BY <1>1, <1>2, <1>6, <2>2, <2>3
<1> QED
  BY <1>5, <1>6

\* When a submission is refused, and what it does otherwise.
PackRefused(b, n, k) ==
  n > stock + k \/ n > free[b] + k \/ n > Balance(b) + k

PackEffect(w, e, b, n, k, p, y) ==
  /\ \E t \in Ticket, g \in 0..n :
       /\ tState[t] = "none" /\ tState' = [tState EXCEPT ![t] = "CONFIRMED"]
       /\ tBatch' = [tBatch EXCEPT ![t] = b] /\ tWeight' = [tWeight EXCEPT ![t] = n]
       /\ goodQty' = [goodQty EXCEPT ![t] = g] /\ lot' = [lot EXCEPT ![t] = g]
  /\ qc' = (IF k > 0 THEN [qc EXCEPT ![b] = "QC_NOT_REQUIRED"] ELSE qc)
  /\ approved' = [approved EXCEPT ![b] = y]
  /\ free' = [free EXCEPT ![b] = @ + k - n] /\ stock' = stock + k - n
  /\ credited' = [credited EXCEPT ![b] = @ + k]
  /\ packaged' = [packaged EXCEPT ![b] = p + n]
  /\ packing' = [packing EXCEPT ![b] = IF p + n >= y THEN "PACKAGED" ELSE "PARTIALLY_PACKED"]
  /\ charged' = [charged EXCEPT ![b] = @ + Share(b, n, SharedTotal, y)]
  /\ packs' = [packs EXCEPT ![e] = @ + 1]
  /\ End(w)
  /\ UNCHANGED <<runVars, produced, inspections, wasted, held, untracked, recallVars, form>>

Packs(w, e, b, n, k) ==
  /\ form[e] # NoForm /\ b = form[e].batch /\ n = form[e].weight /\ k = (IF qc[b] = "PENDING" THEN produced[b] ELSE 0)
  /\ batchLock[b] = w /\ packaged[b] = form[e].expected /\ packing[b] # "PACKAGED" /\ Packable(b)
  /\ ~ PackRefused(b, n, k) /\ PackEffect(w, e, b, n, k, packaged[b], approved[b] + k)

\* A submission finds its batch as its page showed it.
LEMMA PackWritten ==
  ASSUME IInv, NEW w \in Worker, PackWrite(w)
  PROVE  \/ Abort(w)
         \/ \E e \in Entry, b \in Batch, n \in Pack, k \in Nat : e = on[w] /\ Packs(w, e, b, n, k)
<1>1. PICK e \in Entry : e = on[w]
  BY Typed DEF Relied, OnEntry, PackWrite
<1>2. /\ form[e] # NoForm /\ batchLock[form[e].batch] = w /\ seen[w].packed = packaged[form[e].batch]
      /\ packaged[form[e].batch] = form[e].expected /\ packing[form[e].batch] # "PACKAGED" /\ Packable(form[e].batch)
  BY <1>1, Typed DEF Relied, OnEntry, PackWrite, UpToDate
<1>3. PICK b \in Batch, n \in Pack : b = form[e].batch /\ n = form[e].weight
  BY <1>2 DEF IInv, Submitted
<1>4. PICK k \in Nat : k = IF qc[b] = "PENDING" THEN produced[b] ELSE 0
  BY QuantitiesOK
<1> DEFINE B == form[on[w]].batch
           N == form[on[w]].weight
           K == IF qc[B] = "PENDING" THEN produced[B] ELSE 0
<1>5. IF PackRefused(B, N, K) THEN Abort(w) ELSE PackEffect(w, on[w], B, N, K, seen[w].packed, approved[B] + K)
  BY DEF PackWrite, PackRefused, PackEffect
<1>6. B = b /\ N = n /\ K = k /\ seen[w].packed = packaged[b] /\ approved[B] + K = approved[b] + k
  BY <1>1, <1>2, <1>3, <1>4
<1> HIDE DEF B, N, K
<1>7. IF PackRefused(b, n, k) THEN Abort(w) ELSE PackEffect(w, e, b, n, k, packaged[b], approved[b] + k)
  BY <1>1, <1>5, <1>6
<1> QED
  BY <1>1, <1>2, <1>3, <1>4, <1>7 DEF Packs

\* What a submission that is not refused may count on.
LEMMA PackAllowed ==
  ASSUME IInv, NEW w \in Worker, NEW e \in Entry, NEW b \in Batch, NEW n \in Pack, NEW k \in Nat, Packs(w, e, b, n, k)
  PROVE  /\ n \in Nat /\ n > 0 /\ n \in Units /\ n <= stock + k /\ n <= free[b] + k /\ n <= Balance(b) + k
         /\ packing[b] # "PACKAGED" /\ qc[b] # "none" /\ (qc[b] = "PENDING" => ~qcEnabled /\ k > 0)
         /\ recall[b] /\ inspections[b] <= 1 => qc[b] = "PENDING"
         /\ approved[b] + k \in Units /\ (k > 0 => New(b)) /\ k \in Units
<1>1. n \in Nat /\ n > 0 /\ n \in Units
  <2>1. Pack \subseteq 1..MaxUnits /\ MaxUnits \in Nat
    BY DEF ProductionAssumption
  <2>2. n \in 1..MaxUnits
    BY <2>1
  <2> QED
    BY ONLY <2>1, <2>2 DEF Units
<1>2. ~ PackRefused(b, n, k) /\ k = IF qc[b] = "PENDING" THEN produced[b] ELSE 0
  BY DEF Packs
<1>3. n <= stock + k /\ n <= free[b] + k /\ n <= Balance(b) + k
  <2>1. free[b] \in Int /\ stock \in Int /\ Balance(b) \in Int
    BY QuantitiesOK DEF Balance, Reserved
  <2> HIDE DEF Balance
  <2> QED
    BY <1>1, <1>2, <2>1 DEF PackRefused
<1>4. /\ packing[b] # "PACKAGED" /\ qc[b] # "none"
      /\ (qc[b] = "PENDING" => ~qcEnabled /\ k > 0)
  BY <1>2 DEF Packs, Packable, Packageable
<1>6. recall[b] /\ inspections[b] <= 1 => qc[b] = "PENDING"
  <2> SUFFICES ASSUME recall[b], inspections[b] <= 1, qc[b] # "PENDING" PROVE FALSE
    OBVIOUS
  <2>1. free[b] = 0 /\ k = 0
    BY <1>2 DEF Packs, Packable, Emptied
  <2> QED
    BY <1>1, <1>3, <2>1
<1>5. approved[b] + k \in Units /\ k \in Units
  <2>1. approved[b] \in Units /\ produced[b] \in Units /\ MaxUnits \in Nat
    BY DEF IInv, DataOK, BatchesOK, ProductionAssumption
  <2>2. qc[b] = "PENDING" => approved[b] = 0
    BY DEF IInv, BatchSound, Fresh, New
  <2> QED
    BY <1>2, <2>1, <2>2 DEF Units
<1> QED
  BY <1>1, <1>2, <1>3, <1>4, <1>5, <1>6 DEF New

\* What a submission that is not refused does to each batch.
PackMoved(b, n, k) ==
  /\ qc' \in [Batch -> QcStatus] /\ ~New(b)' /\ \A c \in Batch \ {b} : qc'[c] = qc[c]
  /\ approved' \in [Batch -> Units] /\ approved'[b] = approved[b] + k
  /\ \A c \in Batch \ {b} : approved'[c] = approved[c]
  /\ credited' \in [Batch -> Nat] /\ credited'[b] = credited[b] + k
  /\ \A c \in Batch \ {b} : credited'[c] = credited[c]
  /\ packaged' \in [Batch -> Nat] /\ packaged'[b] = packaged[b] + n
  /\ \A c \in Batch \ {b} : packaged'[c] = packaged[c]
  /\ free' \in [Batch -> Nat] /\ free'[b] = free[b] + k - n
  /\ \A c \in Batch \ {b} : free'[c] = free[c]
  /\ packing' \in [Batch -> PackedStatus] /\ \A c \in Batch \ {b} : packing'[c] = packing[c]
  /\ charged' \in [Batch -> Nat] /\ charged'[b] <= SharedTotal
  /\ packaged'[b] >= approved'[b] => charged'[b] = SharedTotal
  /\ \A c \in Batch \ {b} : charged'[c] = charged[c]

\* The batch of a submission that is not refused moves so, and no other does.
LEMMA PackMoves ==
  ASSUME IInv, NEW w \in Worker, NEW e \in Entry, NEW b \in Batch, NEW n \in Pack, NEW k \in Nat, Packs(w, e, b, n, k)
  PROVE  PackMoved(b, n, k)
<1>1. PackEffect(w, e, b, n, k, packaged[b], approved[b] + k)
  BY DEF Packs
<1>2. n \in Nat /\ n <= free[b] + k /\ approved[b] + k \in Units /\ k \in Nat
      /\ (qc[b] = "PENDING" => k > 0) /\ qc[b] # "none"
  BY PackAllowed
<1>3. ~New(b)' /\ qc' \in [Batch -> QcStatus] /\ \A c \in Batch \ {b} : qc'[c] = qc[c]
  <2>1. qc \in [Batch -> QcStatus] /\ "QC_NOT_REQUIRED" \in QcStatus
    BY DEF IInv, DataOK, BatchesOK, QcStatus
  <2>2. qc' = (IF k > 0 THEN [qc EXCEPT ![b] = "QC_NOT_REQUIRED"] ELSE qc)
    BY <1>1 DEF PackEffect
  <2>3. CASE k > 0
    BY <2>1, <2>2, <2>3 DEF New
  <2>4. CASE ~ (k > 0)
    BY <1>2, <2>1, <2>2, <2>4 DEF New
  <2> QED
    BY <2>3, <2>4
<1>4. /\ approved' \in [Batch -> Units] /\ approved'[b] = approved[b] + k
      /\ \A c \in Batch \ {b} : approved'[c] = approved[c]
  <2>1. approved \in [Batch -> Units] /\ approved' = [approved EXCEPT ![b] = approved[b] + k]
    BY <1>1 DEF PackEffect, IInv, DataOK, BatchesOK
  <2> QED
    BY <1>2, <2>1
<1>5. /\ credited' \in [Batch -> Nat] /\ credited'[b] = credited[b] + k
      /\ \A c \in Batch \ {b} : credited'[c] = credited[c]
  <2>1. credited \in [Batch -> Nat] /\ credited' = [credited EXCEPT ![b] = credited[b] + k]
    BY <1>1 DEF PackEffect, IInv, DataOK, BatchesOK
  <2> QED
    BY <1>2, <2>1
<1>6. /\ packaged' \in [Batch -> Nat] /\ packaged'[b] = packaged[b] + n
      /\ \A c \in Batch \ {b} : packaged'[c] = packaged[c]
  <2>1. packaged \in [Batch -> Nat] /\ packaged' = [packaged EXCEPT ![b] = packaged[b] + n]
    BY <1>1 DEF PackEffect, IInv, DataOK, BatchesOK
  <2> QED
    BY <1>2, <2>1
<1>7. /\ free' \in [Batch -> Nat] /\ free'[b] = free[b] + k - n
      /\ \A c \in Batch \ {b} : free'[c] = free[c]
  <2>1. free \in [Batch -> Nat] /\ free' = [free EXCEPT ![b] = free[b] + k - n]
    BY <1>1 DEF PackEffect, IInv, DataOK, BulkOK
  <2>2. free[b] + k - n \in Nat
    BY <1>2, <2>1
  <2> QED
    BY <2>1, <2>2
<1>8. packing' \in [Batch -> PackedStatus] /\ \A c \in Batch \ {b} : packing'[c] = packing[c]
  <2>1. PICK s \in PackedStatus : packing' = [packing EXCEPT ![b] = s]
    BY <1>1 DEF PackEffect, PackedStatus
  <2>2. packing \in [Batch -> PackedStatus]
    BY DEF IInv, DataOK, BatchesOK
  <2> QED
    BY <2>1, <2>2
<1>9. /\ charged' \in [Batch -> Nat] /\ charged'[b] <= SharedTotal
      /\ packaged'[b] >= approved'[b] => charged'[b] = SharedTotal
      /\ \A c \in Batch \ {b} : charged'[c] = charged[c]
  <2> DEFINE y == approved[b] + k
             s == Share(b, n, SharedTotal, y)
  <2>1. charged \in [Batch -> Nat] /\ charged' = [charged EXCEPT ![b] = charged[b] + s]
    BY <1>1 DEF PackEffect, IInv, DataOK, BatchesOK
  <2>2. s \in Nat /\ charged[b] + s <= SharedTotal /\ (packaged[b] + n >= y => charged[b] + s = SharedTotal)
    <3>1. charged[b] \in Nat /\ packaged[b] \in Nat /\ charged[b] <= SharedTotal
      BY QuantitiesOK DEF IInv, BatchSound
    <3>2. y \in Nat /\ n \in Nat
      BY <1>2 DEF Units
    <3> HIDE DEF y
    <3> QED
      BY <3>1, <3>2, ShareLeft
  <2> HIDE DEF s
  <2>3. charged' \in [Batch -> Nat] /\ charged'[b] = charged[b] + s /\ \A c \in Batch \ {b} : charged'[c] = charged[c]
    BY <2>1, <2>2
  <2> QED
    BY <1>4, <1>6, <2>2, <2>3
<1> QED
  BY <1>3, <1>4, <1>5, <1>6, <1>7, <1>8, <1>9 DEF PackMoved

\* The items balance when a batch is credited k units and n of them are packed.
LEMMA PackConserves ==
  ASSUME IInv, NEW n \in Int, NEW k \in Int,
         SumOf(free', Batch) = SumOf(free, Batch) + (k - n), SumOf(held', Batch) = SumOf(held, Batch),
         stock' = stock + (k - n), untracked' = untracked,
         SumOf(tWeight', Open') = SumOf(tWeight, Open),
         SumOf(packaged', Batch) = SumOf(packaged, Batch) + n,
         SumOf(wasted', Batch) = SumOf(wasted, Batch),
         SumOf(credited', Batch) = SumOf(credited, Batch) + k
  PROVE  BulkConserved'
<1> DEFINE m == k - n
<1>1. m \in Int /\ 0 \in Int /\ m + 0 = m + 0 /\ m + 0 + 0 + n + 0 - 0 = k
  OBVIOUS
<1>2. \A i \in Int : i = i + 0
  OBVIOUS
<1>3. /\ SumOf(held', Batch) = SumOf(held, Batch) + 0 /\ SumOf(wasted', Batch) = SumOf(wasted, Batch) + 0
      /\ untracked' = untracked + 0 /\ SumOf(tWeight', Open') = SumOf(tWeight, Open) + 0
  BY <1>2, Totals
<1>4. /\ SumOf(free', Batch) = SumOf(free, Batch) + m /\ stock' = stock + m
      /\ SumOf(packaged', Batch) = SumOf(packaged, Batch) + n
      /\ SumOf(credited', Batch) = SumOf(credited, Batch) + k
  OBVIOUS
<1> HIDE DEF m
<1> QED
  BY ONLY ZenonT(40), IInv, n \in Int, k \in Int, <1>1, <1>3, <1>4, Conserves

\* The ticket a submission opens is confirmed at once.
LEMMA PackTicket ==
  ASSUME IInv, NEW w \in Worker, NEW e \in Entry, NEW b \in Batch, NEW n \in Pack, NEW k \in Nat, Packs(w, e, b, n, k)
  PROVE  /\ \A c \in Batch \ {b} : SameTickets(c)
         /\ TicketsOK'
         /\ Awaiting(b)' = Awaiting(b) /\ Reserved(b)' = Reserved(b)
         /\ SumOf(tWeight', Open') = SumOf(tWeight, Open)
         /\ \A t \in Ticket : tState[t] # "none" => tState'[t] = tState[t] /\ tBatch'[t] = tBatch[t]
<1>1. PICK t \in Ticket, g \in 0..n :
        /\ tState[t] = "none" /\ tState' = [tState EXCEPT ![t] = "CONFIRMED"]
        /\ tBatch' = [tBatch EXCEPT ![t] = b] /\ tWeight' = [tWeight EXCEPT ![t] = n]
        /\ goodQty' = [goodQty EXCEPT ![t] = g] /\ lot' = [lot EXCEPT ![t] = g]
  BY DEF Packs, PackEffect
<1>2. "CONFIRMED" \in TicketState \ {"none"} /\ "CONFIRMED" # "AWAITING_CONFIRMATION"
  BY DEF TicketState
<1>3. /\ \A c \in Batch \ {b} : SameTickets(c)
      /\ tState' \in [Ticket -> TicketState] /\ tBatch' \in [Ticket -> Batch] /\ tWeight' \in [Ticket -> Units]
      /\ Awaiting(b)' = Awaiting(b) /\ Reserved(b)' = Reserved(b)
      /\ SumOf(tWeight', Open') = SumOf(tWeight, Open)
  BY ONLY IInv, b \in Batch, n \in Pack, t \in Ticket, <1>1, <1>2, TicketOpens
<1>4. goodQty' \in [Ticket -> Units] /\ lot' \in [Ticket -> Units] /\ tBlocked' \subseteq Ticket
  <2>1. goodQty \in [Ticket -> Units] /\ lot \in [Ticket -> Units] /\ tBlocked \subseteq Ticket
    BY DEF IInv, DataOK, TicketsOK
  <2>2. n \in Units /\ MaxUnits \in Nat
    BY PackAllowed DEF ProductionAssumption
  <2>3. g \in Units
    BY <2>2 DEF Units
  <2>4. tBlocked' = tBlocked
    BY DEF Packs, PackEffect, recallVars
  <2> QED
    BY <1>1, <2>1, <2>3, <2>4
<1>5. \A u \in Ticket : tState[u] # "none" => tState'[u] = tState[u] /\ tBatch'[u] = tBatch[u]
  BY <1>1 DEF IInv, DataOK, TicketsOK
<1> QED
  BY <1>3, <1>4, <1>5 DEF TicketsOK

\* A submission packs once, within what was approved, and the batch is out of its page's date.
LEMMA PackWriteKeeps ==
  ASSUME IInv, NEW w \in Worker, PackWrite(w)
  PROVE  IInv'
<1>1. CASE Abort(w)
  BY <1>1, AbortKeeps
<1>2. CASE ~ Abort(w)
  <2>1. PICK e \in Entry, b \in Batch, n \in Pack, k \in Nat : Packs(w, e, b, n, k)
    BY <1>2, PackWritten
  <2>0. PackMoved(b, n, k)
    BY <2>1, PackMoves
  <2>2. /\ n \in Nat /\ n > 0 /\ n <= Balance(b) + k /\ (qc[b] = "PENDING" => ~qcEnabled)
        /\ k \in Nat
    BY <2>1, PackAllowed
  <2>3. /\ batchLock[b] = w /\ End(w) /\ stock' = stock + k - n /\ packs' = [packs EXCEPT ![e] = packs[e] + 1]
        /\ UNCHANGED <<runVars, produced, inspections, wasted, held, untracked, recallVars, form>>
        /\ form[e] # NoForm /\ b = form[e].batch /\ packaged[b] = form[e].expected
    BY <2>1 DEF Packs, PackEffect
  <2>4. /\ qc' \in [Batch -> QcStatus] /\ ~New(b)' /\ \A c \in Batch \ {b} : qc'[c] = qc[c]
    BY <2>0 DEF PackMoved
  <2>5. /\ approved' \in [Batch -> Units] /\ approved'[b] = approved[b] + k
        /\ \A c \in Batch \ {b} : approved'[c] = approved[c]
    BY <2>0 DEF PackMoved
  <2>6. /\ credited' \in [Batch -> Nat] /\ credited'[b] = credited[b] + k
        /\ \A c \in Batch \ {b} : credited'[c] = credited[c]
    BY <2>0 DEF PackMoved
  <2>7. /\ packaged' \in [Batch -> Nat] /\ packaged'[b] = packaged[b] + n
        /\ \A c \in Batch \ {b} : packaged'[c] = packaged[c]
    BY <2>0 DEF PackMoved
  <2>8. /\ free' \in [Batch -> Nat] /\ free'[b] = free[b] + k - n
        /\ \A c \in Batch \ {b} : free'[c] = free[c]
    BY <2>0 DEF PackMoved
  <2>9. /\ packing' \in [Batch -> PackedStatus] /\ \A c \in Batch \ {b} : packing'[c] = packing[c]
        /\ charged' \in [Batch -> Nat] /\ charged'[b] <= SharedTotal
        /\ \A c \in Batch \ {b} : charged'[c] = charged[c]
    BY <2>0 DEF PackMoved
  <2>10. /\ \A c \in Batch \ {b} : SameTickets(c)
         /\ TicketsOK' /\ Awaiting(b)' = Awaiting(b) /\ Reserved(b)' = Reserved(b)
         /\ SumOf(tWeight', Open') = SumOf(tWeight, Open)
         /\ \A t \in Ticket : tState[t] # "none" => tState'[t] = tState[t] /\ tBatch'[t] = tBatch[t]
    BY <2>1, PackTicket
  <2>11. packs' \in [Entry -> Nat] /\ packs'[e] = packs[e] + 1 /\ \A d \in Entry \ {e} : packs'[d] = packs[d]
    BY <2>3 DEF IInv, DataOK, FormsOK
  <2>12. DataOK'
    <3>1. BatchesOK'
      BY <2>3, <2>4, <2>5, <2>6, <2>7, <2>9 DEF IInv, DataOK, BatchesOK, recallVars
    <3>2. BulkOK'
      <4>1. stock' \in Int
        BY <2>2, <2>3, QuantitiesOK
      <4> QED
        BY <2>3, <2>8, <4>1 DEF IInv, DataOK, BulkOK
    <3>3. RunsOK' /\ FormsOK'
      BY <2>3, <2>11 DEF IInv, DataOK, RunsOK, FormsOK, runVars
    <3> QED
      BY <2>10, <3>1, <3>2, <3>3 DEF DataOK
  <2>13. KeepsData(w)
    <3>1. w # None
      BY DEF ProductionAssumption
    <3>2. \A c \in Batch : batchLock[c] \notin {None, w} =>
             packaged'[c] = packaged[c] /\ packing'[c] = packing[c] /\ Emptied(c)' = Emptied(c)
      BY <2>3, <2>7, <2>8, <2>9 DEF Emptied, recallVars
    <3>3. \A c \in Batch : qcEnabled /\ inspections'[c] = 0 =>
             inspections[c] = 0 /\ (qc[c] = "PENDING" => qc'[c] = "PENDING")
      BY <2>2, <2>3, <2>4
    <3>4. \A c \in Batch : ~New(c) => ~New(c)'
      BY <2>4 DEF New
    <3>5. \A c \in Batch : batchLock[c] \notin {None, w} => qc'[c] = qc[c] /\ produced'[c] = produced[c]
      BY <2>3, <2>4
    <3> QED
      BY <2>3, <2>10, <3>2, <3>3, <3>4, <3>5 DEF KeepsData, runVars
  <2>14. ASSUME NEW c \in Batch \ {b} PROVE BatchSound(c)'
    BY <2>3, <2>4, <2>5, <2>6, <2>7, <2>9, <2>10, Elsewhere DEF SameBatch, recallVars
  <2>15. BatchSound(b)'
    <3>1. Fresh(b)'
      BY <2>4 DEF Fresh
    <3>2. Sound(b)'
      <4> SUFFICES ASSUME inspections[b] <= 1 PROVE Sound(b)'
        BY <2>3 DEF Sound
      <4>1. credited[b] = approved[b] /\ (recall[b] => Awaiting(b) \subseteq tBlocked)
        BY DEF IInv, BatchSound, Sound
      <4>2. packaged[b] + n + Reserved(b) <= approved[b] + k
        BY SMTT(30), <2>2, QuantitiesOK DEF Balance, Reserved
      <4> QED
        BY <2>2, <2>3, <2>5, <2>6, <2>7, <2>10, <4>1, <4>2 DEF Sound, recallVars
    <3> QED
      BY <2>9, <3>1, <3>2 DEF BatchSound
  <2>16. ASSUME NEW d \in Entry PROVE Submitted(d)'
    <3>1. \A c \in Batch : packaged[c] \in Nat /\ packaged'[c] \in Nat /\ packaged'[c] >= packaged[c]
      <4>1. ASSUME NEW c \in Batch PROVE packaged[c] \in Nat
        BY QuantitiesOK
      <4>2. n \in Nat
        BY <2>2
      <4> QED
        BY ONLY <2>7, <4>1, <4>2, b \in Batch
    <3>2. CASE d = e
      <4>1. packs[e] = 0
        BY <2>3, <3>1 DEF IInv, Submitted
      <4> QED
        BY <2>2, <2>3, <2>7, <2>11, <3>1, <3>2, <4>1 DEF IInv, Submitted
    <3>3. CASE d # e
      <4>1. Submitted(d) /\ form' = form /\ packs'[d] = packs[d]
        BY <2>3, <2>11, <3>3 DEF IInv
      <4>2. CASE form[d] = NoForm /\ packs[d] = 0
        BY <4>1, <4>2 DEF Submitted
      <4>3. CASE ~ (form[d] = NoForm /\ packs[d] = 0)
        <5> DEFINE x == form[d].expected
                   a == form[d].batch
        <5>1. a \in Batch /\ form[d].weight \in Pack /\ (packs[d] = 0 \/ (packs[d] = 1 /\ packaged[a] > x))
          BY <4>1, <4>3 DEF Submitted
        <5>2. x \in Nat
          BY DEF IInv, DataOK, FormsOK
        <5> HIDE DEF x, a
        <5>3. packs[d] = 0 \/ (packs[d] = 1 /\ packaged'[a] > x)
          BY <3>1, <5>1, <5>2
        <5> QED
          BY <4>1, <5>1, <5>3 DEF Submitted, x, a
      <4> QED
        BY <4>2, <4>3
    <3> QED
      BY <3>2, <3>3
  <2>17. BulkConserved'
    <3>1. PICK m \in Int : m = k - n
      BY <2>2
    <3>2. k \in Int /\ n \in Int /\ \A i \in Int : i + k - n = i + (k - n)
      <4>1. n \in Int /\ k \in Int
        BY <2>2
      <4> QED
        BY ONLY <4>1
    <3>3. free \in [Batch -> Int] /\ packaged \in [Batch -> Int] /\ credited \in [Batch -> Int]
      BY Totals
    <3>4. SumOf(free', Batch) = SumOf(free, Batch) + (k - n)
      <4>1. free'[b] = free[b] + (k - n) /\ \A c \in Batch \ {b} : free'[c] = free[c]
        BY <2>8, <3>2, <3>3
      <4> QED
        BY ONLY <3>1, <3>2, <3>3, <4>1, b \in Batch, TotalPlus
    <3>5. SumOf(packaged', Batch) = SumOf(packaged, Batch) + n
      BY ONLY <2>7, <3>2, <3>3, b \in Batch, TotalPlus
    <3>6. SumOf(credited', Batch) = SumOf(credited, Batch) + k
      BY ONLY <2>6, <3>2, <3>3, b \in Batch, TotalPlus
    <3>7. stock' = stock + (k - n)
      BY <2>3, <3>2, QuantitiesOK
    <3>8. /\ SumOf(held', Batch) = SumOf(held, Batch) /\ SumOf(wasted', Batch) = SumOf(wasted, Batch)
          /\ untracked' = untracked /\ SumOf(tWeight', Open') = SumOf(tWeight, Open)
      BY <2>3, <2>10
    <3> QED
      BY ONLY IInv, <3>2, <3>4, <3>5, <3>6, <3>7, <3>8, PackConserves
  <2> QED
    BY <2>3, <2>12, <2>13, <2>14, <2>15, <2>16, <2>17, WriteKeeps
<1> QED
  BY <1>1, <1>2
-----------------------------------------------------------------------------
(* The theorems. *)

\* Nothing moves when no one steps.
LEMMA StutterKeeps ==
  ASSUME IInv, UNCHANGED vars
  PROVE  IInv'
<1>1. UNCHANGED data /\ UNCHANGED locks /\ UNCHANGED <<pc, on, seen>>
  BY DEF vars
<1>2. DataOK' /\ (\A b \in Batch : BatchSound(b)') /\ (\A e \in Entry : Submitted(e)') /\ BulkConserved'
  BY <1>1, QuietKeeps
<1>3. LocksOK' /\ RequestsOK'
  BY <1>1 DEF IInv, LocksOK, RequestsOK, locks
<1>4. \A w \in Worker : Relied(w)'
  <2>1. \A w \in Worker : OnBatch(w)'
    BY <1>1 DEF IInv, Relied, OnBatch, New, Emptied, locks, data, runVars, batchVars, packVars, bulkVars, recallVars
  <2>2. \A w \in Worker : OnTicket(w)'
    BY <1>1 DEF IInv, Relied, OnTicket, locks, data, batchVars, packVars, ticketVars
  <2>3. \A w \in Worker : OnEntry(w)'
    BY <1>1 DEF IInv, Relied, OnEntry, UpToDate, Packable, Emptied, locks, data, runVars, batchVars, packVars, bulkVars, recallVars, formVars
  <2> QED
    BY <2>1, <2>2, <2>3 DEF Relied
<1> QED
  BY <1>2, <1>3, <1>4 DEF IInv

\* Whatever step is taken.
LEMMA StepKeeps ==
  ASSUME IInv, [Next]_vars
  PROVE  IInv'
<1>1. ASSUME NEW w \in Worker, Arrive(w) PROVE IInv'
  <2>1. CASE StartRead(w)
    BY <2>1, StartReadKeeps
  <2>2. CASE \E b \in Batch, s \in RunStatus \ {"none"} : SetRun(w, b, s)
    BY <2>2, SetRunKeeps
  <2>3. ASSUME NEW b \in Batch,
               \/ ApproveLock(w, b) \/ InspectRead(w, b) \/ ReleaseLock(w, b) \/ TicketLock(w, b)
               \/ WasteLock(w, b) \/ RecallRead(w, b) \/ CancelRecall(w, b)
        PROVE  IInv'
    BY <2>3, ApproveLockKeeps, InspectReadKeeps, ReleaseLockKeeps, TicketLockKeeps, WasteLockKeeps, RecallReadKeeps,
       CancelRecallKeeps
  <2>4. ASSUME NEW t \in Ticket, VerifyRead(w, t) \/ ConfirmLockBatch(w, t) \/ CancelTicketLock(w, t)
        PROVE  IInv'
    BY <2>4, VerifyReadKeeps, ConfirmLockBatchKeeps, CancelTicketLockKeeps
  <2>5. CASE \E e \in Entry : PackLock(w, e)
    BY <2>5, PackLockKeeps
  <2> QED
    BY <1>1, <2>1, <2>2, <2>3, <2>4, <2>5 DEF Arrive
<1>2. ASSUME NEW w \in Worker, Step(w) PROVE IInv'
  BY <1>2, StartWriteKeeps, ApproveWriteKeeps, InspectWriteKeeps, ReleaseWriteKeeps, TicketWriteKeeps,
     VerifyWriteKeeps, ConfirmLockTicketKeeps, ConfirmWriteKeeps, CancelTicketWriteKeeps, WasteWriteKeeps,
     PackWriteKeeps, RecallWriteKeeps DEF Step
<1>3. ASSUME NEW w \in Worker, Timeout(w) PROVE IInv'
  BY <1>3, AbortKeeps DEF Timeout
<1>4. CASE \E e \in Entry, b \in Batch, n \in Pack : OpenForm(e, b, n)
  BY <1>4, OpenFormKeeps
<1>5. CASE SwitchQC
  BY <1>5, SwitchKeeps
<1>6. CASE UNCHANGED vars
  BY <1>6, StutterKeeps
<1> QED
  BY <1>1, <1>2, <1>3, <1>4, <1>5, <1>6 DEF Next

\* At first nothing is credited, reserved or packed.
LEMMA Starting ==
  ASSUME Init
  PROVE  IInv
<1> USE DEF Init, Each
<1>1. DataOK
  <2>1. BatchesOK
    <3>1. qc \in [Batch -> QcStatus] /\ packing \in [Batch -> PackedStatus]
      BY DEF QcStatus, PackedStatus
    <3>2. produced \in [Batch -> Units]
      <4>1. Yield \cup {0} \subseteq Units
        BY DEF ProductionAssumption, Units
      <4> QED
        BY <4>1
    <3>3. approved \in [Batch -> Units]
      BY DEF ProductionAssumption, Units
    <3> QED
      BY <3>1, <3>2, <3>3 DEF BatchesOK
  <2>2. RunsOK
    BY DEF RunsOK, RunStatus, ProductionAssumption
  <2>3. BulkOK
    BY DEF BulkOK
  <2>4. TicketsOK
    BY BatchesInOrder DEF TicketsOK, TicketState, Units, ProductionAssumption
  <2>5. FormsOK
    BY DEF FormsOK, NoForm, Units, ProductionAssumption
  <2> QED
    BY <2>1, <2>2, <2>3, <2>4, <2>5 DEF DataOK
<1>2. LocksOK
  BY DEF LocksOK
<1>3. RequestsOK
  BY DEF RequestsOK, PC, Row, Seen, NothingSeen
<1>4. \A w \in Worker : Relied(w)
  BY DEF Relied, OnBatch, OnTicket, OnEntry
<1>5. \A b \in Batch : BatchSound(b)
  <2> TAKE b \in Batch
  <2>1. Awaiting(b) = {}
    BY DEF Awaiting
  <2>2. Reserved(b) = 0
    BY <2>1, SumEmpty DEF Reserved
  <2>3. Fresh(b)
    BY DEF Fresh
  <2>4. Sound(b)
    BY <2>1, <2>2 DEF Sound
  <2> QED
    BY <2>3, <2>4 DEF BatchSound, ProductionAssumption
<1>6. \A e \in Entry : Submitted(e)
  BY DEF Submitted
<1>7. BulkConserved
  <2>1. SumOf(free, Batch) = 0 /\ SumOf(held, Batch) = 0 /\ SumOf(packaged, Batch) = 0
        /\ SumOf(wasted, Batch) = 0 /\ SumOf(credited, Batch) = 0
    <3>1. SumOf([b \in Batch |-> 0], Batch) = 0
      BY BatchesInOrder, SumZero
    <3> QED
      BY <3>1
  <2>2. SumOf(tWeight, {t \in Ticket : tState[t] = "AWAITING_CONFIRMATION"}) = 0
    <3>1. {t \in Ticket : tState[t] = "AWAITING_CONFIRMATION"} = {}
      OBVIOUS
    <3> QED
      BY <3>1, SumEmpty
  <2> QED
    BY <2>1, <2>2 DEF BulkConserved
<1> QED
  BY <1>1, <1>2, <1>3, <1>4, <1>5, <1>6, <1>7 DEF IInv

\* The invariant holds in every state: see IInv.
THEOREM Invariance == Spec => []IInv
<1>1. Init => IInv
  BY Starting
<1>2. IInv /\ [Next]_vars => IInv'
  BY StepKeeps
<1> QED
  BY <1>1, <1>2, PTL DEF Spec

\* Every variable keeps its type; no lot of bulk and no packaged quantity goes below 0.
THEOREM TypeCorrect == Spec => []TypeOK
<1>1. IInv => TypeOK
  BY DEF IInv, DataOK, BatchesOK, RunsOK, BulkOK, TicketsOK, FormsOK, LocksOK, RequestsOK, Row, TypeOK
<1> QED
  BY <1>1, Invariance, PTL

\* The bulk item's stock is the sum of its lots, and every unit credited is in a lot,
\* reserved, packed or wasted, whatever requests overlap or are rolled back.
THEOREM BulkIsConserved == Spec => []BulkConserved
<1>1. IInv => BulkConserved
  BY DEF IInv
<1> QED
  BY <1>1, Invariance, PTL

\* What is packed from a batch or reserved for it never exceeds what was approved.
THEOREM PackingWithinApproved == Spec => []PackedWithinApproved
<1>1. IInv => PackedWithinApproved
  BY DEF IInv, BatchSound, Sound, Reserved, PackedWithinApproved
<1> QED
  BY <1>1, Invariance, PTL

\* Bulk is credited once for a batch, and a submission packs once, retries included.
THEOREM RequestsAppliedOnce == Spec => []AppliedOnce
<1>1. IInv => CreditedOnce
  BY DEF IInv, BatchSound, Sound, CreditedOnce
<1>2. IInv => PackedOnce
  BY DEF IInv, Submitted, PackedOnce
<1> QED
  BY <1>1, <1>2, Invariance, PTL DEF AppliedOnce
-----------------------------------------------------------------------------
(* What a step may never do. *)

\* The steps that pack, that open a ticket or that count a submission.
LEMMA Touched ==
  ASSUME IInv, [Next]_vars
  PROVE  /\ UNCHANGED <<packaged, packing>> \/ \E w \in Worker : ConfirmWrite(w) \/ WasteWrite(w) \/ PackWrite(w)
         /\ \/ \A t \in Ticket : tState[t] = "none" => tState'[t] = "none"
            \/ \E w \in Worker : TicketWrite(w) \/ PackWrite(w)
         /\ UNCHANGED packs \/ \E w \in Worker : PackWrite(w)
<1> USE DEF data, runVars, batchVars, packVars, bulkVars, ticketVars, recallVars, formVars
<1>1. ASSUME NEW w \in Worker, Arrive(w) PROVE UNCHANGED <<packaged, packing, tState, packs>>
  BY <1>1 DEF Arrive, StartRead, SetRun, ApproveLock, InspectRead, ReleaseLock, TicketLock, WasteLock, RecallRead,
              CancelRecall, VerifyRead, ConfirmLockBatch, CancelTicketLock, PackLock
<1>2. ASSUME NEW w \in Worker, Step(w)
      PROVE  \/ UNCHANGED <<packaged, packing, tState, packs>>
             \/ ConfirmWrite(w) \/ WasteWrite(w) \/ PackWrite(w) \/ TicketWrite(w) \/ CancelTicketWrite(w)
  BY <1>2 DEF Step, StartWrite, ApproveWrite, InspectWrite, ReleaseWrite, VerifyWrite, ConfirmLockTicket, RecallWrite, Abort
<1>3. ASSUME NEW w \in Worker, ConfirmWrite(w)
      PROVE  UNCHANGED packs /\ \A t \in Ticket : tState[t] = "none" => tState'[t] = "none"
  BY <1>3 DEF ConfirmWrite, IInv, Relied, OnTicket, DataOK, TicketsOK
<1>4. ASSUME NEW w \in Worker, CancelTicketWrite(w)
      PROVE  /\ UNCHANGED <<packs, packaged, packing>>
             /\ \A t \in Ticket : tState[t] = "none" => tState'[t] = "none"
  BY <1>4 DEF CancelTicketWrite, IInv, Relied, OnTicket, DataOK, TicketsOK
<1>5. ASSUME NEW w \in Worker, WasteWrite(w) PROVE UNCHANGED <<packs, tState>>
  BY <1>5 DEF WasteWrite, Abort
<1>6. ASSUME NEW w \in Worker, TicketWrite(w) PROVE UNCHANGED <<packs, packaged, packing>>
  BY <1>6 DEF TicketWrite, Abort
<1>7. ASSUME NEW w \in Worker, Timeout(w) PROVE UNCHANGED <<packaged, packing, tState, packs>>
  BY <1>7 DEF Timeout, Abort
<1>8. CASE \E e \in Entry, b \in Batch, n \in Pack : OpenForm(e, b, n)
  BY <1>8 DEF OpenForm
<1>9. CASE SwitchQC
  BY <1>9 DEF SwitchQC
<1>10. CASE UNCHANGED vars
  BY <1>10 DEF vars
<1>11. CASE \E w \in Worker : Arrive(w) \/ Step(w) \/ Timeout(w)
  BY <1>1, <1>2, <1>3, <1>4, <1>5, <1>6, <1>7, <1>11
<1> QED
  BY <1>8, <1>9, <1>10, <1>11 DEF Next

\* What a packing write finds and leaves, whichever request makes it.
LEMMA StaysClosed ==
  ASSUME IInv, [Next]_vars, NEW b \in Batch, packing[b] = "PACKAGED"
  PROVE  packing'[b] = "PACKAGED" /\ packaged'[b] = packaged[b]
<1> USE DEF data, packVars
<1>1. packing \in [Batch -> PackedStatus] /\ packaged \in [Batch -> Nat]
  BY DEF IInv, DataOK, BatchesOK
<1>2. ASSUME NEW w \in Worker, ConfirmWrite(w) PROVE packing'[b] = packing[b] /\ packaged'[b] = packaged[b]
  <2>1. PICK t \in Ticket : t = on[w] /\ packing[tBatch[t]] # "PACKAGED"
    BY <1>2 DEF ConfirmWrite, IInv, Relied, OnTicket
  <2>2. PICK n, s : packaged' = [packaged EXCEPT ![tBatch[t]] = n] /\ packing' = [packing EXCEPT ![tBatch[t]] = s]
    BY <1>2, <2>1 DEF ConfirmWrite
  <2> QED
    BY <1>1, <2>1, <2>2
<1>3. ASSUME NEW w \in Worker, WasteWrite(w) PROVE packing'[b] = "PACKAGED" /\ packaged'[b] = packaged[b]
  BY <1>1, <1>3 DEF WasteWrite, Abort
<1>4. ASSUME NEW w \in Worker, PackWrite(w) PROVE packing'[b] = packing[b] /\ packaged'[b] = packaged[b]
  <2>1. CASE Abort(w)
    BY <2>1 DEF Abort
  <2>2. ASSUME NEW e \in Entry, NEW c \in Batch, NEW n \in Pack, NEW k \in Nat, Packs(w, e, c, n, k)
        PROVE  packing'[b] = packing[b] /\ packaged'[b] = packaged[b]
    <3>1. packing[c] # "PACKAGED"
      BY <2>2, PackAllowed
    <3>2. \A a \in Batch \ {c} : packing'[a] = packing[a] /\ packaged'[a] = packaged[a]
      BY <2>2, PackMoves DEF PackMoved
    <3> QED
      BY <3>1, <3>2
  <2> QED
    BY <1>4, <2>1, <2>2, PackWritten
<1> QED
  BY <1>2, <1>3, <1>4, Touched

\* A ticket that a step opens is not for a batch whose bulk its recall found.
LEMMA NotOpenedUnderRecall ==
  ASSUME IInv, [Next]_vars, NEW b \in Batch, NEW t \in Ticket,
         recall[b], qc[b] # "PENDING", inspections[b] <= 1, tState[t] = "none", tState'[t] # "none"
  PROVE  tBatch'[t] # b
<1>1. tState \in [Ticket -> TicketState] /\ tBatch \in [Ticket -> Batch]
  BY DEF IInv, DataOK, TicketsOK
<1>2. ASSUME NEW w \in Worker, TicketWrite(w) PROVE tBatch'[t] # b
  <2>1. PICK c \in Batch : c = on[w] /\ (recall[c] /\ inspections[c] <= 1 => free[c] = 0)
    BY <1>2 DEF TicketWrite, IInv, Relied, OnBatch, Emptied
  <2>2. CASE Abort(w)
    BY <2>2 DEF Abort, data, ticketVars
  <2>3. ASSUME NEW n \in Pack, Covers(c, n), NEW u \in Ticket,
               tState' = [tState EXCEPT ![u] = "AWAITING_CONFIRMATION"], tBatch' = [tBatch EXCEPT ![u] = c]
        PROVE  tBatch'[t] # b
    <3>1. u = t /\ tBatch'[t] = c
      BY <1>1, <2>3
    <3>2. n > 0 /\ n <= free[c] /\ n \in Nat
      BY <2>3 DEF ProductionAssumption, Covers
    <3> QED
      BY <2>1, <3>1, <3>2
  <2> QED
    BY <1>2, <2>1, <2>2, <2>3 DEF TicketWrite
<1>3. ASSUME NEW w \in Worker, PackWrite(w) PROVE tBatch'[t] # b
  <2>1. CASE Abort(w)
    BY <2>1 DEF Abort, data, ticketVars
  <2>2. ASSUME NEW e \in Entry, NEW c \in Batch, NEW n \in Pack, NEW k \in Nat, Packs(w, e, c, n, k)
        PROVE  tBatch'[t] # b
    <3>1. recall[c] /\ inspections[c] <= 1 => qc[c] = "PENDING"
      BY <2>2, PackAllowed
    <3>2. PICK u \in Ticket : tState' = [tState EXCEPT ![u] = "CONFIRMED"] /\ tBatch' = [tBatch EXCEPT ![u] = c]
      BY <2>2 DEF Packs, PackEffect
    <3> QED
      BY <1>1, <3>1, <3>2
  <2> QED
    BY <1>3, <2>1, <2>2, PackWritten
<1> QED
  BY <1>2, <1>3, Touched

\* A submission that packs charges what is left of the expense at most, and all of
\* it when it finishes the batch.
LEMMA ChargesWhatIsLeft ==
  ASSUME IInv, [Next]_vars, NEW e \in Entry, packs'[e] > packs[e]
  PROVE  /\ charged'[form[e].batch] <= SharedTotal
         /\ packaged'[form[e].batch] >= approved'[form[e].batch] => charged'[form[e].batch] = SharedTotal
<1>1. packs \in [Entry -> Nat]
  BY DEF IInv, DataOK, FormsOK
<1>2. PICK w \in Worker : PackWrite(w)
  BY <1>1, Touched
<1>3. ~ Abort(w)
  BY <1>1 DEF Abort, data, formVars
<1>4. PICK d \in Entry, b \in Batch, n \in Pack, k \in Nat : Packs(w, d, b, n, k)
  BY <1>2, <1>3, PackWritten
<1>5. d = e /\ b = form[e].batch
  BY <1>1, <1>4 DEF Packs, PackEffect
<1>6. PackMoved(b, n, k)
  BY <1>2, <1>4, PackMoves
<1>7. charged'[b] <= SharedTotal /\ (packaged'[b] >= approved'[b] => charged'[b] = SharedTotal)
  BY ONLY <1>6 DEF PackMoved
<1> QED
  BY <1>5, <1>7

\* A batch marked PACKAGED stays so and as packed as it was, and a recall stops the
\* packaging of bulk that is in stock although it does not lock the batch.
THEOREM PackagingStopsForGood == Spec => PackagingStops
<1>1. IInv /\ [Next]_vars =>
        [\A b \in Batch : packing[b] = "PACKAGED" => packing'[b] = "PACKAGED" /\ packaged'[b] = packaged[b]]_vars
  BY StaysClosed
<1>2. IInv /\ [Next]_vars =>
        [\A b \in Batch, t \in Ticket :
           recall[b] /\ qc[b] # "PENDING" /\ inspections[b] <= 1 /\ tState[t] = "none" /\ tState'[t] # "none"
             => tBatch'[t] # b]_vars
  BY NotOpenedUnderRecall
<1>3. Spec => PackagedIsClosed
  BY <1>1, Invariance, PTL DEF Spec, PackagedIsClosed
<1>4. Spec => RecallStopsPackaging
  BY <1>2, Invariance, PTL DEF Spec, RecallStopsPackaging
<1> QED
  BY <1>3, <1>4 DEF PackagingStops

\* Sessions never charge more than the batch's expense, and the last one leaves none.
THEOREM ExpenseChargedOnce == Spec => SharedChargedOnce
<1>1. IInv /\ [Next]_vars =>
        [\A e \in Entry :
           LET b == form[e].batch IN
           packs'[e] > packs[e] =>
             /\ charged'[b] <= SharedTotal
             /\ packaged'[b] >= approved'[b] => charged'[b] = SharedTotal]_vars
  BY ChargesWhatIsLeft
<1> QED
  BY <1>1, Invariance, PTL DEF Spec, SharedChargedOnce
-----------------------------------------------------------------------------
(* Requests in several steps have the effect of atomic ones. *)

\* What the pool sees of the state is left as it is.
PoolIdle == UNCHANGED <<stock, tState, tBatch, tWeight, packaged>>

\* The steps that leave the pool as it is, and the others.
LEMMA PoolTouched ==
  ASSUME [Next]_vars
  PROVE  \/ PoolIdle
         \/ \E w \in Worker : \/ ApproveWrite(w) \/ InspectWrite(w) \/ ReleaseWrite(w) \/ TicketWrite(w) \/ ConfirmWrite(w)
                              \/ CancelTicketWrite(w) \/ WasteWrite(w) \/ PackWrite(w)
<1> USE DEF data, runVars, batchVars, packVars, bulkVars, ticketVars, recallVars, formVars, PoolIdle
<1>1. ASSUME NEW w \in Worker, Arrive(w) PROVE PoolIdle
  BY <1>1 DEF Arrive, StartRead, SetRun, ApproveLock, InspectRead, ReleaseLock, TicketLock, WasteLock, RecallRead,
              CancelRecall, VerifyRead, ConfirmLockBatch, CancelTicketLock, PackLock
<1>2. ASSUME NEW w \in Worker, StartWrite(w) \/ VerifyWrite(w) \/ ConfirmLockTicket(w) \/ RecallWrite(w) PROVE PoolIdle
  BY <1>2 DEF StartWrite, VerifyWrite, ConfirmLockTicket, RecallWrite, Abort
<1>3. ASSUME NEW w \in Worker, Timeout(w) PROVE PoolIdle
  BY <1>3 DEF Timeout, Abort
<1>4. CASE \E e \in Entry, b \in Batch, n \in Pack : OpenForm(e, b, n)
  BY <1>4 DEF OpenForm
<1>5. CASE SwitchQC
  BY <1>5 DEF SwitchQC
<1>6. CASE UNCHANGED vars
  BY <1>6 DEF vars
<1> QED
  BY <1>1, <1>2, <1>3, <1>4, <1>5, <1>6 DEF Next, Step

\* A step of the pool, as the requests take it.
LEMMA Putting ==
  ASSUME NEW n \in Units, stock' = stock + n, UNCHANGED <<tState, tBatch, tWeight, packaged>>
  PROVE  Pool!PoolNext
BY DEF Pool!PoolNext, Pool!Put

\* A request that credits bulk puts it into the pool.
LEMMA CreditsPut ==
  ASSUME IInv, NEW w \in Worker, ApproveWrite(w) \/ InspectWrite(w) \/ ReleaseWrite(w)
  PROVE  PoolIdle \/ Pool!PoolNext
<1> USE DEF data, runVars, batchVars, packVars, bulkVars, ticketVars, recallVars, formVars
<1>1. CASE Abort(w)
  BY <1>1 DEF Abort, PoolIdle
<1>2. CASE ApproveWrite(w) /\ ~Abort(w)
  <2>1. UNCHANGED <<tState, tBatch, tWeight, packaged>> /\ (stock' = stock \/ \E y \in Yield : stock' = stock + y)
    BY <1>2 DEF ApproveWrite, Released, Credit
  <2>2. Yield \subseteq Units
    BY DEF ProductionAssumption, Units
  <2> QED
    BY <2>1, <2>2, Putting DEF PoolIdle
<1>3. CASE InspectWrite(w)
  <2>1. PICK b \in Batch : b = on[w]
    BY <1>3 DEF InspectWrite, IInv, Relied, OnBatch
  <2>2. PICK r \in 0..produced[b] : stock' = stock + (produced[b] - r)
    BY <1>3, <2>1 DEF InspectWrite, Credit
  <2>3. UNCHANGED <<tState, tBatch, tWeight, packaged>>
    BY <1>3 DEF InspectWrite
  <2>4. produced[b] - r \in Units
    <3>1. produced[b] \in Units /\ MaxUnits \in Nat
      BY DEF IInv, DataOK, BatchesOK, ProductionAssumption
    <3> QED
      BY <3>1 DEF Units
  <2> QED
    BY <2>2, <2>3, <2>4, Putting
<1>4. CASE ReleaseWrite(w) /\ ~Abort(w)
  <2>1. PICK b \in Batch : b = on[w]
    BY <1>4 DEF ReleaseWrite, IInv, Relied, OnBatch
  <2>2. UNCHANGED <<tState, tBatch, tWeight, packaged>> /\ stock' = stock + produced[b]
    BY <1>4, <2>1 DEF ReleaseWrite, Released, Credit
  <2>3. produced[b] \in Units
    BY DEF IInv, DataOK, BatchesOK
  <2> QED
    BY <2>2, <2>3, Putting
<1> QED
  BY <1>1, <1>2, <1>3, <1>4

\* A ticket takes from the pool, its confirmation wraps what it took, its cancelling
\* puts it back.
LEMMA TicketsTake ==
  ASSUME IInv, NEW w \in Worker, TicketWrite(w) \/ ConfirmWrite(w) \/ CancelTicketWrite(w)
  PROVE  PoolIdle \/ Pool!PoolNext
<1> USE DEF data, runVars, batchVars, packVars, bulkVars, ticketVars, recallVars, formVars
<1>0. Pack \subseteq Units
  BY DEF ProductionAssumption, Units
<1>1. CASE TicketWrite(w)
  <2>1. PICK b \in Batch : b = on[w]
    BY <1>1 DEF TicketWrite, IInv, Relied, OnBatch
  <2>2. CASE Abort(w)
    BY <2>2 DEF Abort, PoolIdle
  <2>3. CASE ~Abort(w)
    <3>1. PICK n \in Pack, t \in Ticket :
            /\ n <= stock /\ stock' = stock - n
            /\ tState[t] = "none" /\ tState' = [tState EXCEPT ![t] = "AWAITING_CONFIRMATION"]
            /\ tBatch' = [tBatch EXCEPT ![t] = b] /\ tWeight' = [tWeight EXCEPT ![t] = n]
            /\ UNCHANGED packaged
      BY <1>1, <2>1, <2>3 DEF TicketWrite, Covers
    <3>2. Pool!Take(t, b, n)
      BY <3>1 DEF Pool!Take, Pool!Open
    <3> QED
      BY <1>0, <3>2 DEF Pool!PoolNext
  <2> QED
    BY <2>2, <2>3
<1>2. CASE ConfirmWrite(w)
  <2>1. PICK t \in Ticket : /\ t = on[w] /\ tState[t] = "AWAITING_CONFIRMATION"
                            /\ seen[w].packed = packaged[tBatch[t]]
    BY <1>2 DEF ConfirmWrite, IInv, Relied, OnTicket
  <2>2. /\ tState' = [tState EXCEPT ![t] = "CONFIRMED"]
        /\ packaged' = [packaged EXCEPT ![tBatch[t]] = packaged[tBatch[t]] + tWeight[t]]
        /\ UNCHANGED <<stock, tBatch, tWeight>>
    BY <1>2, <2>1 DEF ConfirmWrite
  <2>3. Pool!Wrap(t)
    BY <2>1, <2>2 DEF Pool!Wrap
  <2> QED
    BY <2>3 DEF Pool!PoolNext
<1>3. CASE CancelTicketWrite(w)
  <2>1. PICK t \in Ticket : t = on[w] /\ tState[t] = "AWAITING_CONFIRMATION"
    BY <1>3 DEF CancelTicketWrite, IInv, Relied, OnTicket
  <2>2. Pool!PutBack(t)
    BY <1>3, <2>1 DEF CancelTicketWrite, Pool!PutBack
  <2> QED
    BY <2>2 DEF Pool!PoolNext
<1> QED
  BY <1>1, <1>2, <1>3

\* Wasting a balance discards it.
LEMMA WasteDiscards ==
  ASSUME IInv, NEW w \in Worker, WasteWrite(w)
  PROVE  PoolIdle \/ Pool!PoolNext
<1> USE DEF data, runVars, batchVars, packVars, bulkVars, ticketVars, recallVars, formVars
<1> DEFINE n == Positive(seen[w].balance)
<1>1. n \in Units
  <2>1. seen[w].balance <= MaxUnits /\ seen[w].balance \in Int /\ MaxUnits \in Nat
    BY Typed DEF WasteWrite, Relied, OnBatch, ProductionAssumption
  <2> QED
    BY <2>1 DEF Positive, Units
<1>2. CASE Abort(w)
  BY <1>2 DEF Abort, PoolIdle
<1>3. CASE ~Abort(w)
  <2>1. stock' = stock - n /\ UNCHANGED <<tState, tBatch, tWeight, packaged>>
    BY <1>3 DEF WasteWrite
  <2> HIDE DEF n
  <2> QED
    BY <1>1, <2>1 DEF Pool!PoolNext, Pool!Discard
<1> QED
  BY <1>2, <1>3

\* A submission puts, takes and packs in one step.
LEMMA PackTakes ==
  ASSUME IInv, NEW w \in Worker, PackWrite(w)
  PROVE  PoolIdle \/ Pool!PoolNext
<1>1. CASE Abort(w)
  BY <1>1 DEF Abort, PoolIdle, data, packVars, bulkVars, ticketVars
<1>2. ASSUME NEW e \in Entry, NEW b \in Batch, NEW n \in Pack, NEW k \in Nat, Packs(w, e, b, n, k)
      PROVE  Pool!PoolNext
  <2>1. n \in Units /\ k \in Units /\ n <= stock + k
    BY <1>2, PackAllowed
  <2>2. PICK t \in Ticket : /\ tState[t] = "none" /\ tState' = [tState EXCEPT ![t] = "CONFIRMED"]
                            /\ tBatch' = [tBatch EXCEPT ![t] = b] /\ tWeight' = [tWeight EXCEPT ![t] = n]
    BY <1>2 DEF Packs, PackEffect
  <2>3. stock' = stock + k - n /\ packaged' = [packaged EXCEPT ![b] = packaged[b] + n]
    BY <1>2 DEF Packs, PackEffect
  <2>4. Pool!TakeAndPack(t, b, n, k)
    BY <2>1, <2>2, <2>3 DEF Pool!TakeAndPack, Pool!Open
  <2> QED
    BY <2>1, <2>4 DEF Pool!PoolNext
<1> QED
  BY <1>1, <1>2, PackWritten

\* What requests do to bulk in several steps, under locks that do not cover all of it,
\* is what atomic puts, takes and wraps do.
THEOREM ImplementsBulkPool == Spec => ImplementsPool
<1>1. Init => Pool!PoolInit
  BY BatchesInOrder DEF Init, Each, Pool!PoolInit
<1>2. IInv /\ [Next]_vars => [Pool!PoolNext]_(Pool!poolVars)
  <2> SUFFICES ASSUME IInv, [Next]_vars PROVE PoolIdle \/ Pool!PoolNext
    BY DEF PoolIdle, Pool!poolVars
  <2> QED
    BY PoolTouched, CreditsPut, TicketsTake, WasteDiscards, PackTakes
<1> QED
  BY <1>1, <1>2, Invariance, PTL DEF Spec, ImplementsPool, Pool!PoolSpec

=============================================================================
