------------------------ MODULE GoodsReceiptProofs ------------------------
(***************************************************************************)
(* What GoodsReceipt guarantees for any number of requests, receipts,      *)
(* returns and materials.  IInv is the inductive invariant; it adds to the *)
(* properties what each transaction may rely on between its steps.         *)
(***************************************************************************)
EXTENDS GoodsReceipt, SumLemmas

\* The document a request works on, and what its locks keep true of it: a
\* receipt under approval stays PENDING, the order stays receipt-ready until
\* the posting commits, a claimed return stays PENDING and nobody posts its entry
\* meanwhile, and who completes it again finds the entry.
RequestsOK ==
  \A w \in Worker :
    /\ pc[w] \in {"create", "approve", "post", "cancelGRN"} => on[w] \in Grn
    /\ pc[w] \in {"newReturn", "complete", "claimed", "debited", "returnPO", "recognize", "insertEntry",
                  "cancelReturn"} => on[w] \in Ret
    /\ pc[w] = "create" => grnStatus[on[w]] = "none"
    /\ pc[w] \in {"approve", "post"} => grnStatus[on[w]] = "PENDING"
    /\ pc[w] = "post" => poStatus \in ReceiptReady
    /\ pc[w] = "cancelGRN" => grnStatus[on[w]] # "none"
    /\ pc[w] = "newReturn" => retStatus[on[w]] = "none"
    /\ pc[w] \in {"claimed", "debited", "returnPO"} => retStatus[on[w]] = "PENDING"
    /\ pc[w] \in {"debited", "returnPO"} => ~ seen[w].posted
    /\ pc[w] \in {"complete", "cancelReturn"} => retStatus[on[w]] # "none"
    /\ pc[w] \in {"recognize", "insertEntry"} => debits[on[w]] = 1 /\ retStatus[on[w]] \in {"COMPLETED", "CANCELLED"}
    /\ pc[w] = "insertEntry" => seen[w].posted

IInv ==
  /\ TypeOK
  /\ LockOwnership
  /\ RequestsOK
  /\ DebitMatchesReturn
  /\ OneReturnPerRejection

\* What was ordered is a quantity per material, as a return's is.
LEMMA OrderQtyIsReturnQty == OrderQty \subseteq ReturnQty
BY SMT DEF OrderQty, ReturnQty

\* The initial states satisfy the inductive invariant.
LEMMA InitIInv == Init => IInv
<1> SUFFICES ASSUME Init PROVE IInv
  OBVIOUS
<1> USE InputAssumption
<1>1. NoSnapshot \in Snapshot
  BY OrderQtyIsReturnQty DEF NoSnapshot, Snapshot, POStatus
<1>2. TypeOK
  <2>1. \A g \in Grn : grnItems[g] \in Seq(Item)
    BY DEF Init
  <2> QED
    BY <1>1, <2>1 DEF Init, TypeOK, POStatus, GrnStatus, RetStatus, ReturnQty, PC
<1>3. LockOwnership
  BY DEF Init, LockOwnership
<1>4. RequestsOK
  BY DEF Init, RequestsOK
<1>5. DebitMatchesReturn /\ OneReturnPerRejection
  BY DEF Init, DebitMatchesReturn, OneReturnPerRejection
<1> QED
  BY <1>2, <1>3, <1>4, <1>5 DEF IInv

-----------------------------------------------------------------------------
(* The end of a transaction, by commit, refusal or timeout. *)

\* Ending the request of w frees exactly the locks of w and makes w idle.
LEMMA EndKeeps ==
  ASSUME TypeOK, LockOwnership, NEW w \in Worker, End(w)
  PROVE  /\ poLock' \in Worker \cup {None}
         /\ grnLock' \in [Grn -> Worker \cup {None}]
         /\ retLock' \in [Ret -> Worker \cup {None}]
         /\ pc' \in [Worker -> PC]
         /\ on' \in [Worker -> Grn \cup Ret \cup {None}]
         /\ seen' \in [Worker -> Snapshot]
         /\ LockOwnership'
<1> USE InputAssumption
<1>1. NoSnapshot \in Snapshot
  BY OrderQtyIsReturnQty DEF NoSnapshot, Snapshot, POStatus
<1>2. /\ pc' \in [Worker -> PC] /\ on' \in [Worker -> Grn \cup Ret \cup {None}]
      /\ seen' \in [Worker -> Snapshot]
  BY <1>1 DEF End, TypeOK, PC
<1>3. /\ poLock' \in Worker \cup {None}
      /\ grnLock' \in [Grn -> Worker \cup {None}]
      /\ retLock' \in [Ret -> Worker \cup {None}]
  BY DEF End, Freed, TypeOK
<1>4. LockOwnership'
  <2>1. \A v \in Worker : poLock' = v <=> pc'[v] \in {"create", "post", "newReturn"}
    BY DEF End, Freed, TypeOK, LockOwnership
  <2>2. \A v \in Worker, g \in Grn :
          grnLock'[g] = v <=> (pc'[v] \in {"approve", "post"} /\ on'[v] = g)
    BY DEF End, Freed, TypeOK, LockOwnership
  <2>3. \A v \in Worker, r \in Ret :
          retLock'[r] = v <=> (pc'[v] \in {"claimed", "debited", "returnPO"} /\ on'[v] = r)
    BY DEF End, Freed, TypeOK, LockOwnership
  <2> QED
    BY <2>1, <2>2, <2>3 DEF LockOwnership
<1> QED
  BY <1>2, <1>3, <1>4

\* A request that ends and leaves every document as it was.
LEMMA EndOnly ==
  ASSUME IInv, NEW w \in Worker, End(w), UNCHANGED <<poVars, grnVars, retVars>>
  PROVE  IInv'
<1> USE DEF IInv, poVars, grnVars, retVars
<1>1. TypeOK'
  BY EndKeeps DEF TypeOK
<1>2. LockOwnership'
  BY EndKeeps
<1>3. RequestsOK'
  BY DEF RequestsOK, End, TypeOK
<1>4. DebitMatchesReturn' /\ OneReturnPerRejection'
  BY DEF DebitMatchesReturn, OneReturnPerRejection
<1> QED
  BY <1>1, <1>2, <1>3, <1>4

\* A request that ends and writes nothing but the order, whose row no other
\* transaction has locked, or which is locked by the writer.
LEMMA EndWritesOrder ==
  ASSUME IInv, NEW w \in Worker, End(w), poLock \in {None, w},
         poStatus' \in POStatus, ordered' \in OrderQty, reversals' \in Nat,
         UNCHANGED <<grnVars, retVars>>
  PROVE  IInv'
<1> USE DEF IInv, grnVars, retVars
<1>1. TypeOK'
  BY EndKeeps DEF TypeOK
<1>2. LockOwnership'
  BY EndKeeps
<1>3. RequestsOK'
  BY InputAssumption DEF RequestsOK, End, TypeOK, LockOwnership
<1>4. DebitMatchesReturn' /\ OneReturnPerRejection'
  BY DEF DebitMatchesReturn, OneReturnPerRejection
<1> QED
  BY <1>1, <1>2, <1>3, <1>4

\* What a request reads is a snapshot, and reading one field leaves the others.
LEMMA SeeKeeps ==
  ASSUME TypeOK, NEW w \in Worker
  PROVE  /\ \A s \in POStatus : SeeStatus(w, s) =>
              seen' \in [Worker -> Snapshot] /\ seen'[w].posted = seen[w].posted
         /\ \A q \in ReturnQty : SeeQty(w, q) =>
              seen' \in [Worker -> Snapshot] /\ seen'[w].posted = seen[w].posted /\ seen'[w].qty = q
         /\ \A b \in BOOLEAN : seen' = [seen EXCEPT ![w].posted = b] =>
              seen' \in [Worker -> Snapshot] /\ seen'[w].posted = b
<1>1. seen \in [Worker -> Snapshot]
  BY DEF TypeOK
<1>2. seen[w] \in Snapshot
  BY <1>1
<1>3. \A x \in Snapshot : seen' = [seen EXCEPT ![w] = x] => seen' \in [Worker -> Snapshot] /\ seen'[w] = x
  BY <1>1
<1>4. \A s \in POStatus : LET x == [seen[w] EXCEPT !.status = s] IN x \in Snapshot /\ x.posted = seen[w].posted
  BY <1>2 DEF Snapshot
<1>5. \A q \in ReturnQty : LET x == [seen[w] EXCEPT !.qty = q] IN
                              x \in Snapshot /\ x.posted = seen[w].posted /\ x.qty = q
  BY <1>2 DEF Snapshot
<1>6. \A b \in BOOLEAN : LET x == [seen[w] EXCEPT !.posted = b] IN x \in Snapshot /\ x.posted = b
  BY <1>2 DEF Snapshot
<1>7. \A s \in POStatus : SeeStatus(w, s) =>
        seen' \in [Worker -> Snapshot] /\ seen'[w].posted = seen[w].posted
  BY <1>3, <1>4 DEF SeeStatus
<1>8. \A q \in ReturnQty : SeeQty(w, q) =>
        seen' \in [Worker -> Snapshot] /\ seen'[w].posted = seen[w].posted /\ seen'[w].qty = q
  BY <1>3, <1>5 DEF SeeQty
<1>9. \A b \in BOOLEAN : seen' = [seen EXCEPT ![w].posted = b] =>
        seen' \in [Worker -> Snapshot] /\ seen'[w].posted = b
  BY <1>3, <1>6
<1> QED
  BY <1>7, <1>8, <1>9

-----------------------------------------------------------------------------
(* Arrivals: a request takes its first step. *)

\* A request that starts without a lock and writes nothing.
LEMMA StartKeeps ==
  ASSUME IInv, NEW w \in Worker,
         NEW p \in {"cancelGRN", "cancelPO", "status", "edit", "pay", "complete", "recognize", "cancelReturn"},
         NEW d \in Grn \cup Ret \cup {None}, NEW op, Start(w, op, p, d),
         p = "cancelGRN" => d \in Grn /\ grnStatus[d] # "none",
         p \in {"complete", "cancelReturn"} => d \in Ret /\ retStatus[d] # "none",
         p = "recognize" => d \in Ret /\ retStatus[d] = "COMPLETED",
         seen' \in [Worker -> Snapshot], \A v \in Worker \ {w} : seen'[v] = seen[v],
         UNCHANGED <<poVars, grnVars, retVars, locks>>
  PROVE  IInv'
<1> USE InputAssumption DEF IInv, poVars, grnVars, retVars, locks, Start
<1>1. TypeOK'
  BY DEF TypeOK, PC
<1>2. LockOwnership'
  BY DEF LockOwnership, TypeOK
<1>3. RequestsOK'
  BY DEF RequestsOK, TypeOK, DebitMatchesReturn
<1>4. DebitMatchesReturn' /\ OneReturnPerRejection'
  BY DEF DebitMatchesReturn, OneReturnPerRejection
<1> QED
  BY <1>1, <1>2, <1>3, <1>4

\* A request that starts without taking a lock disturbs no ownership.
LEMMA StartUnlocked ==
  ASSUME IInv, NEW w \in Worker,
         CancelPORead(w) \/ EditRead(w) \/ PayRead(w)
           \/ (\E s \in ManualStatus : StatusRead(w, s))
           \/ (\E g \in Grn : CancelGRNRead(w, g))
           \/ (\E r \in Ret : CompleteRead(w, r) \/ CancelReturnRead(w, r))
  PROVE  IInv'
<1> USE InputAssumption
<1>0. seen \in [Worker -> Snapshot] /\ poStatus \in POStatus
  BY DEF IInv, TypeOK
<1>1. \A s \in POStatus : SeeStatus(w, s) =>
        seen' \in [Worker -> Snapshot] /\ \A v \in Worker \ {w} : seen'[v] = seen[v]
  BY <1>0, SeeKeeps DEF SeeStatus, IInv
<1>2. CASE CancelPORead(w)
  BY <1>0, <1>2, StartKeeps DEF CancelPORead
<1>3. CASE EditRead(w)
  BY <1>0, <1>1, <1>3, StartKeeps DEF EditRead
<1>4. CASE PayRead(w)
  BY <1>0, <1>1, <1>4, StartKeeps DEF PayRead
<1>5. ASSUME NEW s \in ManualStatus, StatusRead(w, s) PROVE IInv'
  BY <1>0, <1>1, <1>5, StartKeeps DEF StatusRead
<1>6. ASSUME NEW g \in Grn, CancelGRNRead(w, g) PROVE IInv'
  BY <1>0, <1>6, StartKeeps DEF CancelGRNRead
<1>7. ASSUME NEW r \in Ret, CompleteRead(w, r) PROVE IInv'
  BY <1>0, <1>7, StartKeeps DEF CompleteRead
<1>8. ASSUME NEW r \in Ret, CancelReturnRead(w, r) PROVE IInv'
  BY <1>0, <1>8, StartKeeps DEF CancelReturnRead
<1> QED
  BY <1>2, <1>3, <1>4, <1>5, <1>6, <1>7, <1>8

\* createFromPO locks the order; nothing else changes.
LEMMA CreateLockIInv ==
  ASSUME IInv, NEW w \in Worker, NEW g \in Grn, CreateLock(w, g)
  PROVE  IInv'
<1> USE InputAssumption DEF IInv, poVars, grnVars, retVars, Start, CreateLock
<1>1. TypeOK'
  BY DEF TypeOK, PC
<1>2. LockOwnership'
  BY DEF LockOwnership, TypeOK
<1>3. RequestsOK'
  BY DEF RequestsOK, TypeOK
<1>4. DebitMatchesReturn' /\ OneReturnPerRejection'
  BY DEF DebitMatchesReturn, OneReturnPerRejection
<1> QED
  BY <1>1, <1>2, <1>3, <1>4

\* approve locks its receipt; nothing else changes.
LEMMA ApproveLockGRNIInv ==
  ASSUME IInv, NEW w \in Worker, NEW g \in Grn, ApproveLockGRN(w, g)
  PROVE  IInv'
<1> USE InputAssumption DEF IInv, poVars, grnVars, retVars, Start, SeeStatus, SeeQty, ApproveLockGRN
<1>1. TypeOK'
  <2>1. seen' \in [Worker -> Snapshot]
    <3>1. ordered \in ReturnQty /\ SeeQty(w, ordered) /\ TypeOK
      BY OrderQtyIsReturnQty DEF TypeOK
    <3> QED
      BY <3>1, SeeKeeps
  <2> QED
    BY <2>1 DEF TypeOK, PC
<1>2. LockOwnership'
  BY DEF LockOwnership, TypeOK
<1>3. RequestsOK'
  BY DEF RequestsOK, TypeOK
<1>4. DebitMatchesReturn' /\ OneReturnPerRejection'
  BY DEF DebitMatchesReturn, OneReturnPerRejection
<1> QED
  BY <1>1, <1>2, <1>3, <1>4

\* createPurchaseReturn locks the order; nothing else changes.
LEMMA ReturnLockIInv ==
  ASSUME IInv, NEW w \in Worker, NEW r \in Ret, ReturnLock(w, r)
  PROVE  IInv'
<1> USE InputAssumption DEF IInv, poVars, grnVars, retVars, Start, SeeStatus, SeeQty, ReturnLock
<1>1. TypeOK'
  <2>1. seen' \in [Worker -> Snapshot]
    <3>1. TypeOK /\ \E q \in ReturnQty : SeeQty(w, q)
      OBVIOUS
    <3> QED
      BY ONLY <3>1, w \in Worker, SeeKeeps
  <2> QED
    BY <2>1 DEF TypeOK, PC
<1>2. LockOwnership'
  BY DEF LockOwnership, TypeOK
<1>3. RequestsOK'
  BY DEF RequestsOK, TypeOK
<1>4. DebitMatchesReturn' /\ OneReturnPerRejection'
  BY DEF DebitMatchesReturn, OneReturnPerRejection
<1> QED
  BY <1>1, <1>2, <1>3, <1>4

-----------------------------------------------------------------------------
(* Receipts. *)

\* createFromPO inserts a pending receipt, without stock or bill.
LEMMA CreateInsertIInv ==
  ASSUME IInv, NEW w \in Worker, CreateInsert(w)
  PROVE  IInv'
<1> USE InputAssumption DEF IInv
<1>1. CASE UNCHANGED <<grnStatus, grnItems>>
  BY <1>1, EndOnly DEF CreateInsert, poVars, grnVars
<1>2. CASE \E items \in ReceiptInputs :
             /\ grnStatus' = [grnStatus EXCEPT ![on[w]] = "PENDING"]
             /\ grnItems' = [grnItems EXCEPT ![on[w]] = items]
  <2> USE <1>2 DEF CreateInsert, poVars, retVars
  <2>0. End(w) /\ on[w] \in Grn /\ grnStatus[on[w]] = "none"
    BY DEF RequestsOK
  <2>1. TypeOK'
    <3>1. grnStatus' \in [Grn -> GrnStatus] /\ grnItems' \in [Grn -> Seq(Item)]
      BY <2>0 DEF TypeOK, GrnStatus
    <3> QED
      BY <2>0, <3>1, EndKeeps DEF TypeOK
  <2>2. LockOwnership'
    BY <2>0, EndKeeps
  <2>3. RequestsOK'
    BY <2>0 DEF RequestsOK, End, TypeOK, LockOwnership
  <2>4. DebitMatchesReturn' /\ OneReturnPerRejection'
    BY <2>0 DEF DebitMatchesReturn, OneReturnPerRejection, TypeOK
  <2> QED
    BY <2>1, <2>2, <2>3, <2>4
<1> QED
  BY <1>1, <1>2 DEF CreateInsert

\* approve locks the order of the receipt it holds, or gives up.
LEMMA ApproveLockPOIInv ==
  ASSUME IInv, NEW w \in Worker, ApproveLockPO(w)
  PROVE  IInv'
<1> USE InputAssumption DEF IInv, ApproveLockPO
<1>1. CASE poStatus \notin ReceiptReady
  BY <1>1, EndOnly
<1>2. CASE poStatus \in ReceiptReady
  <2> USE <1>2 DEF Goto, poVars, grnVars, retVars
  <2>1. TypeOK'
    BY DEF TypeOK, PC
  <2>2. LockOwnership'
    BY DEF LockOwnership, TypeOK
  <2>3. RequestsOK'
    BY DEF RequestsOK, TypeOK
  <2>4. DebitMatchesReturn' /\ OneReturnPerRejection'
    BY DEF DebitMatchesReturn, OneReturnPerRejection
  <2> QED
    BY <2>1, <2>2, <2>3, <2>4
<1> QED
  BY <1>1, <1>2

\* A rejected receipt was pending, so it has no stock and no bill.
LEMMA ApproveRejectIInv ==
  ASSUME IInv, NEW w \in Worker, ApproveReject(w)
  PROVE  IInv'
<1> USE InputAssumption DEF IInv, ApproveReject, poVars, retVars
<1>0. End(w) /\ on[w] \in Grn /\ grnStatus[on[w]] = "PENDING"
  BY DEF RequestsOK
<1>1. TypeOK'
  BY <1>0, EndKeeps DEF TypeOK, GrnStatus
<1>2. LockOwnership'
  BY <1>0, EndKeeps
<1>3. RequestsOK'
  BY <1>0 DEF RequestsOK, End, TypeOK, LockOwnership
<1>4. DebitMatchesReturn' /\ OneReturnPerRejection'
  BY <1>0 DEF DebitMatchesReturn, OneReturnPerRejection, TypeOK
<1> QED
  BY <1>1, <1>2, <1>3, <1>4

\* approve posts stock, bill and status together, on a receipt it holds.
LEMMA ApprovePostIInv ==
  ASSUME IInv, NEW w \in Worker, ApprovePost(w)
  PROVE  IInv'
<1> USE InputAssumption DEF IInv
<1>0. End(w) /\ pc[w] = "post" /\ on[w] \in Grn /\ grnStatus[on[w]] = "PENDING"
  BY DEF RequestsOK, ApprovePost
<1>1. CASE UNCHANGED <<lots, bills, grnStatus, poStatus>>
  BY <1>0, <1>1, EndOnly DEF ApprovePost, poVars, grnVars
<1>2. CASE Post(on[w]) /\ poStatus' \in StatusAfterPost(on[w], seen[w].qty)
  <2> USE <1>0, <1>2 DEF ApprovePost, retVars
  <2>0. poStatus' \in POStatus
    BY DEF StatusAfterPost, POStatus
  <2>1. TypeOK'
    BY <2>0, EndKeeps DEF TypeOK, GrnStatus, Post
  <2>2. LockOwnership'
    BY EndKeeps
  <2>3. RequestsOK'
    BY DEF RequestsOK, End, TypeOK, LockOwnership, Post
  <2>4. DebitMatchesReturn' /\ OneReturnPerRejection'
    BY DEF DebitMatchesReturn, OneReturnPerRejection, TypeOK, Post
  <2> QED
    BY <2>1, <2>2, <2>3, <2>4
<1> QED
  BY <1>1, <1>2 DEF ApprovePost

\* A cancelled receipt promises nothing of its stock.
LEMMA CancelGRNWriteIInv ==
  ASSUME IInv, NEW w \in Worker, CancelGRNWrite(w)
  PROVE  IInv'
<1> USE InputAssumption DEF IInv, CancelGRNWrite, poVars, retVars
<1>0. End(w) /\ on[w] \in Grn /\ grnStatus[on[w]] # "none"
  BY DEF RequestsOK
<1>1. TypeOK'
  BY <1>0, EndKeeps DEF TypeOK, GrnStatus
<1>2. LockOwnership'
  BY <1>0, EndKeeps
<1>3. RequestsOK'
  BY <1>0 DEF RequestsOK, End, TypeOK, LockOwnership
<1>4. DebitMatchesReturn' /\ OneReturnPerRejection'
  BY <1>0 DEF DebitMatchesReturn, OneReturnPerRejection, TypeOK
<1> QED
  BY <1>1, <1>2, <1>3, <1>4

-----------------------------------------------------------------------------
(* Returns. *)

\* A return is inserted only if no live one has its quantities.
LEMMA ReturnInsertIInv ==
  ASSUME IInv, NEW w \in Worker, ReturnInsert(w)
  PROVE  IInv'
<1> USE InputAssumption DEF IInv
<1>0. /\ End(w) /\ UNCHANGED <<poVars, grnVars>>
      /\ pc[w] = "newReturn" /\ on[w] \in Ret /\ retStatus[on[w]] = "none"
  BY DEF RequestsOK, ReturnInsert
<1>1. CASE UNCHANGED retVars
  BY <1>0, <1>1, EndOnly
<1>2. ASSUME NEW s \in ReturnStart, ~HasReturn(seen[w].qty),
             retStatus' = [retStatus EXCEPT ![on[w]] = s],
             IF s = "COMPLETED" THEN Recognize(on[w], debits[on[w]] > 0) ELSE UNCHANGED debits,
             retQty' = [retQty EXCEPT ![on[w]] = seen[w].qty]
      PROVE  IInv'
  <2> USE <1>0, <1>2 DEF poVars, grnVars
  <2>1. seen[w].qty \in ReturnQty
    BY DEF TypeOK, Snapshot
  <2>2. debits' \in [Ret -> Nat]
    BY DEF TypeOK, Recognize
  <2>3. retStatus' \in [Ret -> RetStatus] /\ retQty' \in [Ret -> ReturnQty]
    BY <2>1 DEF TypeOK, RetStatus
  <2>4. TypeOK'
    BY <2>2, <2>3, EndKeeps DEF TypeOK
  <2>5. LockOwnership'
    BY EndKeeps
  <2>6. RequestsOK'
    <3> SUFFICES ASSUME NEW v \in Worker, v # w PROVE RequestsOK!(v)'
      BY DEF RequestsOK, End, TypeOK
    <3>1. pc'[v] = pc[v] /\ on'[v] = on[v] /\ pc[v] # "newReturn"
      BY DEF End, TypeOK, LockOwnership
    <3>2. pc[v] \in {"complete", "claimed", "debited", "returnPO", "recognize", "insertEntry", "cancelReturn"} =>
            on[v] # on[w] /\ retStatus'[on[v]] = retStatus[on[v]] /\ debits'[on[v]] = debits[on[v]]
      BY <3>1 DEF RequestsOK, DebitMatchesReturn, TypeOK, Recognize
    <3>3. grnStatus' = grnStatus /\ poStatus' = poStatus /\ seen'[v] = seen[v]
      BY DEF End, TypeOK
    <3> QED
      BY <3>1, <3>2, <3>3 DEF RequestsOK
  <2>8. DebitMatchesReturn'
    BY DEF DebitMatchesReturn, TypeOK, Recognize
  <2>9. OneReturnPerRejection'
    BY DEF OneReturnPerRejection, HasReturn, TypeOK
  <2> QED
    BY <2>4, <2>5, <2>6, <2>8, <2>9
<1> QED
  BY <1>1, <1>2 DEF ReturnInsert

\* The claim locks a return that is still pending; who finds it completed looks for its
\* entry, and who finds it cancelled gives up.
LEMMA CompleteClaimIInv ==
  ASSUME IInv, NEW w \in Worker, CompleteClaim(w)
  PROVE  IInv'
<1> USE InputAssumption DEF IInv
<1>0. /\ pc[w] = "complete" /\ on[w] \in Ret /\ retLock[on[w]] = None /\ retStatus[on[w]] # "none"
      /\ UNCHANGED <<poStatus, ordered, reversals, grnStatus, grnItems, lots, bills, retStatus, retQty, debits>>
  BY DEF RequestsOK, CompleteClaim, poVars, grnVars, retVars
<1>1. CASE End(w)
  BY <1>0, <1>1, EndOnly DEF poVars, grnVars, retVars
<1>2. CASE /\ retStatus[on[w]] = "PENDING" /\ retLock' = [retLock EXCEPT ![on[w]] = w]
           /\ Goto(w, "claimed") /\ UNCHANGED <<poLock, grnLock, seen>>
  <2> USE <1>0, <1>2 DEF Goto
  <2>1. TypeOK'
    BY DEF TypeOK, PC
  <2>2. LockOwnership'
    BY DEF LockOwnership, TypeOK
  <2>3. RequestsOK'
    BY DEF RequestsOK, TypeOK
  <2>4. DebitMatchesReturn' /\ OneReturnPerRejection'
    BY DEF DebitMatchesReturn, OneReturnPerRejection
  <2> QED
    BY <2>1, <2>2, <2>3, <2>4
<1>3. CASE retStatus[on[w]] = "COMPLETED" /\ Goto(w, "recognize") /\ UNCHANGED <<locks, seen>>
  <2> USE <1>0, <1>3 DEF Goto, locks
  <2>1. TypeOK'
    BY DEF TypeOK, PC
  <2>2. LockOwnership'
    BY DEF LockOwnership, TypeOK
  <2>3. RequestsOK'
    BY DEF RequestsOK, TypeOK, DebitMatchesReturn
  <2>4. DebitMatchesReturn' /\ OneReturnPerRejection'
    BY DEF DebitMatchesReturn, OneReturnPerRejection
  <2> QED
    BY <2>1, <2>2, <2>3, <2>4
<1> QED
  BY <1>1, <1>2, <1>3 DEF CompleteClaim, ClaimLost

\* Under the claim no entry is found; after the completion one is.
LEMMA RecognizeReadIInv ==
  ASSUME IInv, NEW w \in Worker, RecognizeRead(w)
  PROVE  IInv'
<1> USE InputAssumption DEF IInv, RecognizeRead, Goto, poVars, grnVars, retVars, locks
<1>0. on[w] \in Ret /\ (pc[w] = "claimed" => debits[on[w]] = 0) /\ (pc[w] = "recognize" => debits[on[w]] = 1)
  BY DEF RequestsOK, DebitMatchesReturn
<1>1. seen' \in [Worker -> Snapshot] /\ seen'[w].posted = (debits[on[w]] > 0)
  <2>1. TypeOK /\ debits[on[w]] \in Nat
    BY <1>0 DEF TypeOK
  <2>2. (debits[on[w]] > 0) \in BOOLEAN /\ seen' = [seen EXCEPT ![w].posted = debits[on[w]] > 0]
    BY <2>1
  <2> QED
    BY ONLY <2>1, <2>2, w \in Worker, SeeKeeps
<1>5. TypeOK'
  BY <1>1 DEF TypeOK, PC
<1>6. \A v \in Worker \ {w} : pc'[v] = pc[v] /\ on'[v] = on[v] /\ seen'[v] = seen[v]
  BY DEF TypeOK
<1>2. LockOwnership'
  BY DEF LockOwnership, TypeOK
<1>3. RequestsOK'
  <2>0. /\ on' = on /\ pc'[w] = IF pc[w] = "claimed" THEN "debited" ELSE "insertEntry"
    BY DEF TypeOK
  <2>3. /\ pc[w] = "claimed" => ~ (debits[on[w]] > 0)
        /\ pc[w] = "recognize" => debits[on[w]] > 0
    BY <1>0
  <2>4. /\ pc[w] = "claimed" => ~ seen'[w].posted
        /\ pc[w] = "recognize" => seen'[w].posted
    BY ONLY <1>1, <2>3, Zenon
  <2>1. RequestsOK!(w)'
    BY <1>0, <2>0, <2>4 DEF RequestsOK
  <2>2. ASSUME NEW v \in Worker \ {w} PROVE RequestsOK!(v)'
    BY <1>6 DEF RequestsOK
  <2> QED
    BY <2>1, <2>2 DEF RequestsOK
<1>4. DebitMatchesReturn' /\ OneReturnPerRejection'
  BY DEF DebitMatchesReturn, OneReturnPerRejection
<1> QED
  BY <1>5, <1>2, <1>3, <1>4

\* The repeated completion inserts nothing.
LEMMA RecognizeAgainIInv ==
  ASSUME IInv, NEW w \in Worker, RecognizeAgain(w)
  PROVE  IInv'
<1>1. End(w) /\ on[w] \in Ret /\ debits' = debits
  BY DEF IInv, RequestsOK, RecognizeAgain, Recognize, TypeOK
<1>2. UNCHANGED <<poVars, grnVars, retVars>>
  BY <1>1 DEF RecognizeAgain, retVars
<1> QED
  BY <1>1, <1>2, EndOnly

\* The order is read while the return stays locked.
LEMMA CompleteReadPOIInv ==
  ASSUME IInv, NEW w \in Worker, CompleteReadPO(w)
  PROVE  IInv'
<1> USE InputAssumption DEF IInv, CompleteReadPO, Goto, poVars, grnVars, retVars, locks
<1>1. StatusAfterReturn(on[w]) \in POStatus
  BY DEF StatusAfterReturn, POStatus, TypeOK
<1>2. seen' \in [Worker -> Snapshot] /\ \A v \in Worker : seen'[v].posted = seen[v].posted
  <2>1. TypeOK /\ SeeStatus(w, StatusAfterReturn(on[w]))
    OBVIOUS
  <2>2. seen' \in [Worker -> Snapshot] /\ seen'[w].posted = seen[w].posted
    BY ONLY <1>1, <2>1, w \in Worker, SeeKeeps
  <2>3. \A v \in Worker \ {w} : seen'[v] = seen[v]
    BY DEF SeeStatus, TypeOK
  <2> QED
    BY <2>2, <2>3
<1>3. TypeOK'
  BY <1>2 DEF TypeOK, PC
<1>4. LockOwnership'
  BY DEF LockOwnership, TypeOK
<1>5. RequestsOK'
  <2>1. \A v \in Worker : on'[v] = on[v] /\ pc'[v] = IF v = w THEN "returnPO" ELSE pc[v]
    BY DEF TypeOK
  <2>2. /\ UNCHANGED <<poStatus, grnStatus, retStatus, debits>>
        /\ pc[w] = "debited"
    OBVIOUS
  <2> QED
    BY ONLY <1>2, <2>1, <2>2, RequestsOK DEF RequestsOK
<1>6. DebitMatchesReturn' /\ OneReturnPerRejection'
  BY DEF DebitMatchesReturn, OneReturnPerRejection
<1> QED
  BY <1>3, <1>4, <1>5, <1>6

\* The claimed return is completed and debited together.
LEMMA CompleteCommitIInv ==
  ASSUME IInv, NEW w \in Worker, CompleteCommit(w)
  PROVE  IInv'
<1> USE InputAssumption DEF IInv, CompleteCommit, Recognize, grnVars
<1>0. /\ End(w) /\ on[w] \in Ret /\ retStatus[on[w]] = "PENDING" /\ poLock = None
      /\ debits' = [debits EXCEPT ![on[w]] = @ + 1] /\ debits[on[w]] = 0
  BY DEF RequestsOK, DebitMatchesReturn
<1>1. seen[w].status \in POStatus
  BY DEF TypeOK, Snapshot
<1>2. TypeOK'
  BY <1>0, <1>1, EndKeeps DEF TypeOK, RetStatus
<1>3. LockOwnership'
  BY <1>0, EndKeeps
<1>4. RequestsOK'
  BY <1>0 DEF RequestsOK, End, TypeOK, LockOwnership
<1>5. DebitMatchesReturn'
  BY <1>0 DEF DebitMatchesReturn, TypeOK
<1>6. OneReturnPerRejection'
  BY <1>0 DEF OneReturnPerRejection, TypeOK
<1> QED
  BY <1>2, <1>3, <1>4, <1>5, <1>6

\* A cancelled return promises nothing of its debit.
LEMMA CancelReturnWriteIInv ==
  ASSUME IInv, NEW w \in Worker, CancelReturnWrite(w)
  PROVE  IInv'
<1> USE InputAssumption DEF IInv, CancelReturnWrite, poVars, grnVars
<1>0. End(w) /\ on[w] \in Ret /\ retStatus[on[w]] # "none" /\ retLock[on[w]] = None
  BY DEF RequestsOK
<1>1. TypeOK'
  BY <1>0, EndKeeps DEF TypeOK, RetStatus
<1>2. LockOwnership'
  BY <1>0, EndKeeps
<1>3. RequestsOK'
  BY <1>0 DEF RequestsOK, End, TypeOK, LockOwnership
<1>4. DebitMatchesReturn'
  BY <1>0 DEF DebitMatchesReturn, TypeOK
<1>5. OneReturnPerRejection'
  BY <1>0 DEF OneReturnPerRejection, TypeOK
<1> QED
  BY <1>1, <1>2, <1>3, <1>4, <1>5

-----------------------------------------------------------------------------
(* The order. *)

\* Steps that write only the order's columns disturb no receipt or return.
LEMMA OrderWriteIInv ==
  ASSUME IInv, NEW w \in Worker,
         CancelPOWrite(w) \/ StatusWrite(w) \/ EditWrite(w) \/ PayWrite(w)
  PROVE  IInv'
<1> USE InputAssumption DEF IInv
<1>0. /\ poStatus \in POStatus /\ ordered \in OrderQty /\ reversals \in Nat
      /\ seen[w].status \in POStatus
  BY DEF TypeOK, Snapshot
<1>1. CASE CancelPOWrite(w)
  BY <1>0, <1>1, EndWritesOrder DEF CancelPOWrite, POStatus
<1>2. CASE StatusWrite(w)
  BY <1>0, <1>2, EndWritesOrder DEF StatusWrite, POStatus
<1>3. CASE EditWrite(w)
  <2>1. poStatus' \in POStatus /\ ordered' \in OrderQty
    BY <1>0, <1>3 DEF EditWrite, POStatus
  <2> QED
    BY <1>0, <1>3, <2>1, EndWritesOrder DEF EditWrite
<1>4. CASE PayWrite(w)
  <2>1. poStatus' \in POStatus
    BY <1>0, <1>4 DEF PayWrite, POStatus
  <2> QED
    BY <1>0, <1>4, <2>1, EndWritesOrder DEF PayWrite
<1> QED
  BY <1>1, <1>2, <1>3, <1>4

-----------------------------------------------------------------------------
(* The specification. *)

\* Every step of every request keeps the inductive invariant.
LEMMA NextIInv == IInv /\ [Next]_vars => IInv'
<1> SUFFICES ASSUME IInv, [Next]_vars PROVE IInv'
  OBVIOUS
<1>1. ASSUME NEW w \in Worker, Arrive(w) PROVE IInv'
  BY <1>1, StartUnlocked, CreateLockIInv, ApproveLockGRNIInv, ReturnLockIInv DEF Arrive
<1>2. ASSUME NEW w \in Worker, Step(w) PROVE IInv'
  <2>1. CASE ApproveNothing(w)
    BY <2>1, EndOnly DEF ApproveNothing
  <2> QED
    BY <1>2, <2>1, CreateInsertIInv, ApproveLockPOIInv, ApproveRejectIInv, ApprovePostIInv,
       CancelGRNWriteIInv, OrderWriteIInv, ReturnInsertIInv, CompleteClaimIInv,
       RecognizeReadIInv, RecognizeAgainIInv, CompleteReadPOIInv, CompleteCommitIInv, CancelReturnWriteIInv DEF Step
<1>3. ASSUME NEW w \in Worker, Timeout(w) PROVE IInv'
  BY <1>3, EndOnly DEF Timeout
<1>4. CASE UNCHANGED vars
  BY <1>4 DEF IInv, vars, poVars, grnVars, retVars, locks, reqVars, TypeOK, LockOwnership,
     RequestsOK, DebitMatchesReturn, OneReturnPerRejection
<1> QED
  BY <1>1, <1>2, <1>3, <1>4 DEF Next

\* The inductive invariant holds in every reachable state.
THEOREM Invariance == Spec => []IInv
BY InitIInv, NextIInv, PTL DEF Spec

\* Documents always hold statuses of their enums, and quantities and postings are naturals.
THEOREM TypeCorrect == Spec => []TypeOK
<1>1. IInv => TypeOK
  BY DEF IInv
<1> QED
  BY <1>1, Invariance, PTL

\* Row locks are held exactly by the transactions that took them, and every
\* way a transaction can end releases them.
THEOREM LocksOwned == Spec => []LockOwnership
<1>1. IInv => LockOwnership
  BY DEF IInv
<1> QED
  BY <1>1, Invariance, PTL

\* A completed return has one debit, a pending one none, and no return two: the claim's row
\* lock lets one completion at a time look for the entry, and who comes after it finds it.
THEOREM DebitSafe == Spec => []DebitMatchesReturn
<1>1. IInv => DebitMatchesReturn
  BY DEF IInv
<1> QED
  BY <1>1, Invariance, PTL

\* createPurchaseReturn's lookup under the order's lock never lets two live
\* returns of one order carry the same quantities.
THEOREM ReturnsUnique == Spec => []OneReturnPerRejection
<1>1. IInv => OneReturnPerRejection
  BY DEF IInv
<1> QED
  BY <1>1, Invariance, PTL

\* Only ApprovePost writes lots, and it does so while its request still holds
\* the order's lock under which it saw the order receipt-ready.
LEMMA PostStep ==
  ASSUME IInv, [Next]_vars
  PROVE  [lots' # lots => poStatus \in ReceiptReady]_vars
<1> SUFFICES ASSUME Next, lots' # lots PROVE poStatus \in ReceiptReady
  BY DEF vars
<1> PICK w \in Worker : Arrive(w) \/ Step(w) \/ Timeout(w)
  BY DEF Next
<1>1. ApprovePost(w)
  BY DEF Arrive, Step, Timeout, grnVars, CreateLock, ApproveLockGRN, CancelGRNRead, ReturnLock,
     CompleteRead, CancelReturnRead, StatusRead, CancelPORead, EditRead, PayRead, CreateInsert,
     ApproveLockPO, ApproveReject, ApproveNothing, CancelGRNWrite, CancelPOWrite, StatusWrite,
     EditWrite, PayWrite, ReturnInsert, CompleteClaim, ClaimLost, RecognizeRead, RecognizeAgain,
     CompleteReadPO, CompleteCommit,
     CancelReturnWrite
<1> QED
  BY <1>1 DEF ApprovePost, IInv, RequestsOK

\* Stock is never posted against an order that is not receipt-ready.
THEOREM PostingGuarded == Spec => PostOnlyForOpenOrder
<1>1. Init /\ [][Next]_vars => [][lots' # lots => poStatus \in ReceiptReady]_vars
  BY PostStep, Invariance, PTL DEF Spec
<1> QED
  BY <1>1 DEF Spec, PostOnlyForOpenOrder

-----------------------------------------------------------------------------
(* Quantities. *)

AcceptedOf(m) == [g \in Grn |-> ItemQty(grnItems[g], "acc", m)]
ReturnedOf(m) == [r \in Ret |-> retQty[r][m]]

\* One line for each material, of which no more is accepted than was received.
OneLineEach(items) ==
  \A i, j \in DOMAIN items : (items[i].mat = items[j].mat => i = j) /\ items[i].acc <= items[i].rcv

\* The quantities of a receipt's lines, of one material.
LEMMA LineQuantities ==
  ASSUME NEW items \in Seq(Item), NEW m
  PROVE  LET f == [i \in DOMAIN items |-> IF items[i].mat = m THEN items[i]["acc"] ELSE 0] IN
         /\ IsFiniteSet(DOMAIN items) /\ Nats(f, DOMAIN items) /\ Ints(f, DOMAIN items)
         /\ ItemQty(items, "acc", m) = SumOf(f, DOMAIN items) /\ ItemQty(items, "acc", m) \in Nat
<1> DEFINE f == [i \in DOMAIN items |-> IF items[i].mat = m THEN items[i]["acc"] ELSE 0]
<1>1. DOMAIN items = 1..Len(items) /\ Len(items) \in Nat
  OBVIOUS
<1>2. IsFiniteSet(DOMAIN items)
  BY <1>1, FS_Interval
<1>3. \A i \in DOMAIN items : items[i] \in Item
  BY <1>1
<1>4. Nats(f, DOMAIN items) /\ Ints(f, DOMAIN items)
  BY <1>3 DEF Nats, Ints, Item
<1>5. ItemQty(items, "acc", m) = SumOf(f, DOMAIN items)
  BY DEF ItemQty
<1> HIDE DEF f
<1>6. SumOf(f, DOMAIN items) \in Nat
  BY ONLY <1>2, <1>4, SumNat
<1> QED
  BY <1>2, <1>4, <1>5, <1>6 DEF f

\* Where each material has one line, what is accepted of it fits where that line does.
LEMMA OneLineFits ==
  ASSUME NEW items \in Seq(Item), OneLineEach(items), NEW m, NEW c \in Nat, NEW b \in Nat, c <= b,
         \A i \in DOMAIN items : items[i].mat = m => c + items[i].rcv <= b
  PROVE  c + ItemQty(items, "acc", m) <= b
<1> DEFINE D == DOMAIN items
           f == [i \in D |-> IF items[i].mat = m THEN items[i]["acc"] ELSE 0]
<1>1. IsFiniteSet(D) /\ Ints(f, D) /\ ItemQty(items, "acc", m) = SumOf(f, D)
  BY LineQuantities
<1>2. \A i \in D : items[i] \in Item
  OBVIOUS
<1>3. CASE \E i \in D : items[i].mat = m
  <2> PICK i \in D : items[i].mat = m
    BY <1>3
  <2>1. {i} \in SUBSET D /\ (\A x \in D \ {i} : f[x] = 0) /\ f[i] = items[i].acc
    BY DEF OneLineEach
  <2>2. items[i].acc \in Nat /\ items[i].rcv \in Nat /\ items[i].acc <= items[i].rcv /\ c + items[i].rcv <= b
    BY <1>2 DEF OneLineEach, Item
  <2> HIDE DEF f, D
  <2>3. SumOf(f, D) = SumOf(f, {i})
    BY ONLY <1>1, <2>1, SumWithout
  <2>4. SumOf(f, {i}) = items[i].acc
    <3>1. f[i] \in Int
      BY <2>1, <2>2
    <3>2. SumOf(f, {i}) = f[i]
      BY ONLY <3>1, SumSingle
    <3> QED
      BY <2>1, <3>2
  <2> QED
    BY <1>1, <2>2, <2>3, <2>4
<1>4. CASE \A i \in D : items[i].mat # m
  <2>1. \A x \in D : f[x] = 0
    BY <1>4
  <2> HIDE DEF f, D
  <2>2. SumOf(f, D) = 0
    BY ONLY <1>1, <2>1, SumZero
  <2> QED
    BY <1>1, <2>2
<1> QED
  BY <1>3, <1>4

\* Sums over receipts and over returns.
LEMMA Quantities ==
  ASSUME TypeOK, NEW m \in Material
  PROVE  /\ IsFiniteSet(Grn) /\ IsFiniteSet(Ret) /\ ordered[m] \in Nat
         /\ Nats(AcceptedOf(m), Grn) /\ Nats(ReturnedOf(m), Ret)
         /\ \A G \in SUBSET Grn : Accepted(G, m) = SumOf(AcceptedOf(m), G) /\ Accepted(G, m) \in Nat
         /\ \A R \in SUBSET Ret : Returned(R, m) = SumOf(ReturnedOf(m), R) /\ Returned(R, m) \in Nat
<1>1. IsFiniteSet(Grn) /\ IsFiniteSet(Ret)
  BY InputAssumption
<1>2. Nats(AcceptedOf(m), Grn)
  <2> SUFFICES ASSUME NEW g \in Grn PROVE AcceptedOf(m)[g] \in Nat
    BY DEF Nats
  <2>1. grnItems[g] \in Seq(Item)
    BY DEF TypeOK
  <2>2. ItemQty(grnItems[g], "acc", m) \in Nat
    BY <2>1, LineQuantities
  <2> QED
    BY <2>2 DEF AcceptedOf
<1>3. Nats(ReturnedOf(m), Ret)
  BY DEF Nats, ReturnedOf, TypeOK, ReturnQty
<1>4. ASSUME NEW G \in SUBSET Grn PROVE Accepted(G, m) = SumOf(AcceptedOf(m), G) /\ Accepted(G, m) \in Nat
  <2>1. Accepted(G, m) = SumOf(AcceptedOf(m), G)
    BY DEF Accepted, AcceptedOf
  <2>2. IsFiniteSet(G) /\ Nats(AcceptedOf(m), G)
    BY <1>1, <1>2, FS_Subset DEF Nats
  <2>3. SumOf(AcceptedOf(m), G) \in Nat
    BY ONLY <2>2, SumNat
  <2> QED
    BY <2>1, <2>3
<1>5. ASSUME NEW R \in SUBSET Ret PROVE Returned(R, m) = SumOf(ReturnedOf(m), R) /\ Returned(R, m) \in Nat
  <2>1. Returned(R, m) = SumOf(ReturnedOf(m), R)
    BY DEF Returned, ReturnedOf
  <2>2. IsFiniteSet(R) /\ Nats(ReturnedOf(m), R)
    BY <1>1, <1>3, FS_Subset DEF Nats
  <2>3. SumOf(ReturnedOf(m), R) \in Nat
    BY ONLY <2>2, SumNat
  <2> QED
    BY <2>1, <2>3
<1>6. ordered[m] \in Nat
  BY DEF TypeOK, OrderQty
<1> QED
  BY <1>1, <1>2, <1>3, <1>4, <1>5, <1>6

\* What is accepted in completed receipts, and in one more.
LEMMA OneMoreReceipt ==
  ASSUME TypeOK, NEW m \in Material, NEW g \in Grn, g \notin Completed
  PROVE  /\ Accepted(Completed, m) \in Nat /\ ItemQty(grnItems[g], "acc", m) \in Nat
         /\ Accepted(Completed \cup {g}, m) = ItemQty(grnItems[g], "acc", m) + Accepted(Completed, m)
         /\ CumulativeReceived(m, g) \in Nat /\ CumulativeReceived(m, g) >= Accepted(Completed, m)
<1> DEFINE f == AcceptedOf(m)
           C == Completed
<1>1. C \in SUBSET Grn /\ C \cup {g} \in SUBSET Grn /\ C \ {g} = C /\ CompletedReturns \in SUBSET Ret
  BY DEF Completed, CompletedReturns
<1>2. Nats(f, Grn) /\ IsFiniteSet(Grn) /\ Accepted(C, m) \in Nat /\ ordered[m] \in Nat
  BY <1>1, Quantities
<1>3. f[g] = ItemQty(grnItems[g], "acc", m) /\ f[g] \in Nat
  BY <1>2 DEF AcceptedOf, Nats
<1>4. Accepted(C \cup {g}, m) = SumOf(f, C \cup {g}) /\ Accepted(C, m) = SumOf(f, C)
  BY <1>1, Quantities
<1>5. IsFiniteSet(C) /\ Ints(f, C \cup {g}) /\ g \notin C
  BY <1>1, <1>2, FS_Subset DEF Ints, Nats
<1>6. Returned(CompletedReturns, m) \in Nat
  BY <1>1, Quantities
<1> HIDE DEF f
<1>7. SumOf(f, C \cup {g}) = f[g] + SumOf(f, C)
  BY ONLY <1>5, SumAdd
<1>8. CumulativeReceived(m, g) \in Nat /\ CumulativeReceived(m, g) >= Accepted(C, m)
  BY <1>1, <1>2, <1>6 DEF CumulativeReceived, Lesser, Minus
<1> QED
  BY <1>2, <1>3, <1>4, <1>7, <1>8

-----------------------------------------------------------------------------
(* Receipts within the order. *)

\* What a step does to the completed receipts: one more of them, posted within the order,
\* or none more, and their lines stand.
LEMMA ReceiptStep ==
  ASSUME IInv, [Next]_vars
  PROVE  /\ \A g \in Grn : grnStatus[g] # "none" => grnItems'[g] = grnItems[g]
         /\ \/ Completed' \subseteq Completed
            \/ \E w \in Worker : /\ ApprovePost(w) /\ on[w] \in Grn /\ on[w] \notin Completed
                                 /\ Completed' = Completed \cup {on[w]} /\ grnItems' = grnItems
                                 /\ WithinOrder(grnItems[on[w]], on[w], seen[w].qty)
                                 /\ poStatus' \in StatusAfterPost(on[w], seen[w].qty)
<1>1. CASE grnVars' = grnVars
  BY <1>1 DEF grnVars, Completed
<1>2. ASSUME NEW w \in Worker, CreateInsert(w) \/ ApproveReject(w) \/ CancelGRNWrite(w) \/ ApprovePost(w)
      PROVE  /\ \A g \in Grn : grnStatus[g] # "none" => grnItems'[g] = grnItems[g]
             /\ \/ Completed' \subseteq Completed
                \/ /\ ApprovePost(w) /\ on[w] \in Grn /\ on[w] \notin Completed
                   /\ Completed' = Completed \cup {on[w]} /\ grnItems' = grnItems
                   /\ WithinOrder(grnItems[on[w]], on[w], seen[w].qty)
                   /\ poStatus' \in StatusAfterPost(on[w], seen[w].qty)
  <2>1. /\ grnStatus \in [Grn -> GrnStatus] /\ grnItems \in [Grn -> Seq(Item)]
        /\ pc[w] \in {"create", "post", "cancelGRN"} => on[w] \in Grn
        /\ pc[w] = "create" => grnStatus[on[w]] = "none"
        /\ pc[w] = "post" => grnStatus[on[w]] = "PENDING"
    BY DEF IInv, TypeOK, RequestsOK
  <2>2. CASE CreateInsert(w)
    BY <2>1, <2>2 DEF CreateInsert, Completed
  <2>3. CASE ApproveReject(w)
    BY <2>1, <2>3 DEF ApproveReject, Completed
  <2>4. CASE CancelGRNWrite(w)
    BY <2>1, <2>4 DEF CancelGRNWrite, Completed
  <2>5. CASE ApprovePost(w)
    BY <2>1, <2>5 DEF ApprovePost, Post, Completed
  <2> QED
    BY <1>2, <2>2, <2>3, <2>4, <2>5
<1>3. ASSUME NEW w \in Worker, Arrive(w) \/ Timeout(w) PROVE grnVars' = grnVars
  BY <1>3 DEF Arrive, Timeout, CreateLock, ApproveLockGRN, CancelGRNRead, ReturnLock, CompleteRead,
              CancelReturnRead, StatusRead, CancelPORead, EditRead, PayRead
<1>4. ASSUME NEW w \in Worker, Step(w)
      PROVE  grnVars' = grnVars \/ CreateInsert(w) \/ ApproveReject(w) \/ CancelGRNWrite(w) \/ ApprovePost(w)
  BY <1>4 DEF Step, ApproveLockPO, ApproveNothing, CancelPOWrite, StatusWrite, EditWrite, PayWrite, ReturnInsert,
              CompleteClaim, ClaimLost, RecognizeRead, RecognizeAgain, CompleteReadPO, CompleteCommit,
              CancelReturnWrite
<1>5. [Next]_vars => grnVars' = grnVars \/ Next
  BY DEF vars
<1> QED
  BY <1>1, <1>2, <1>3, <1>4, <1>5 DEF Next

\* Without edits the order's lines stand, and an approval knows them.
Unedited ==
  \A w \in Worker : pc[w] # "edit" /\ (pc[w] \in {"approve", "post"} => seen[w].qty = ordered)

LEMMA UneditedStep ==
  ASSUME IInv, "edit" \notin Ops, Unedited, [Next]_vars
  PROVE  Unedited' /\ ordered' = ordered
<1>1. ASSUME NEW w \in Worker, Arrive(w) PROVE Unedited' /\ ordered' = ordered
  <2>1. pc \in [Worker -> PC] /\ seen \in [Worker -> Snapshot] /\ ~ EditRead(w)
    BY DEF IInv, TypeOK, EditRead, Start
  <2>2. ordered' = ordered /\ \A v \in Worker \ {w} : pc'[v] = pc[v] /\ seen'[v] = seen[v]
    BY <1>1, <2>1 DEF Arrive, Start, CreateLock, ApproveLockGRN, CancelGRNRead, ReturnLock, CompleteRead,
                      CancelReturnRead, StatusRead, CancelPORead, PayRead, SeeStatus, SeeQty, poVars
  <2>3. pc'[w] # "edit" /\ (pc'[w] \in {"approve", "post"} => \E g \in Grn : ApproveLockGRN(w, g))
    BY <1>1, <2>1 DEF Arrive, Start, CreateLock, ApproveLockGRN, CancelGRNRead, ReturnLock, CompleteRead,
                      CancelReturnRead, StatusRead, CancelPORead, PayRead
  <2>4. ASSUME NEW g \in Grn, ApproveLockGRN(w, g) PROVE seen'[w].qty = ordered
    <3>1. TypeOK /\ ordered \in ReturnQty /\ SeeQty(w, ordered)
      BY <2>4, OrderQtyIsReturnQty DEF ApproveLockGRN, IInv, TypeOK
    <3> QED
      BY ONLY <3>1, w \in Worker, SeeKeeps
  <2> QED
    BY <2>2, <2>3, <2>4 DEF Unedited
<1>2. ASSUME NEW w \in Worker, End(w), ordered' = ordered PROVE Unedited'
  BY <1>2 DEF End, Unedited, IInv, TypeOK
<1>3. ASSUME NEW w \in Worker, Step(w) PROVE Unedited' /\ ordered' = ordered
  <2>1. ~ EditWrite(w) /\ pc \in [Worker -> PC] /\ seen \in [Worker -> Snapshot]
    BY DEF EditWrite, Unedited, IInv, TypeOK
  <2>2. ordered' = ordered
    BY <1>3, <2>1 DEF Step, CreateInsert, ApproveLockPO, ApproveReject, ApprovePost, ApproveNothing, CancelGRNWrite,
                CancelPOWrite, StatusWrite, PayWrite, ReturnInsert, CompleteClaim, ClaimLost, RecognizeRead,
                RecognizeAgain, CompleteReadPO, CompleteCommit,
                CancelReturnWrite, poVars
  <2>3. \/ End(w)
        \/ pc[w] = "approve" /\ pc' = [pc EXCEPT ![w] = "post"] /\ seen' = seen
        \/ \E p \in {"claimed", "recognize"} : pc' = [pc EXCEPT ![w] = p] /\ seen' = seen
        \/ RecognizeRead(w) \/ CompleteReadPO(w)
    BY <1>3, <2>1 DEF Step, CreateInsert, ApproveLockPO, ApproveReject, ApprovePost, ApproveNothing, CancelGRNWrite,
                CancelPOWrite, StatusWrite, PayWrite, ReturnInsert, CompleteClaim, ClaimLost, RecognizeRead,
                RecognizeAgain, CompleteCommit,
                CancelReturnWrite, Goto
  <2> QED
    BY <1>2, <2>1, <2>2, <2>3 DEF Unedited, RecognizeRead, CompleteReadPO, SeeStatus, Goto
<1>4. ASSUME NEW w \in Worker, Timeout(w) PROVE Unedited' /\ ordered' = ordered
  BY <1>2, <1>4 DEF Timeout, poVars
<1>5. CASE UNCHANGED vars
  BY <1>5 DEF vars, poVars, reqVars, Unedited
<1> QED
  BY <1>1, <1>3, <1>4, <1>5 DEF Next

\* The lines of a receipt are those of a form.
FromForms == \A g \in Grn : grnItems[g] \in ReceiptInputs \cup {<< >>}

LEMMA FromFormsStep ==
  ASSUME IInv, FromForms, [Next]_vars
  PROVE  FromForms'
<1>1. CASE UNCHANGED grnItems
  BY <1>1 DEF FromForms
<1>2. ASSUME NEW w \in Worker, CreateInsert(w) PROVE FromForms'
  BY <1>2 DEF CreateInsert, FromForms, IInv, TypeOK
<1>3. \A w \in Worker : Arrive(w) \/ Timeout(w) => UNCHANGED grnItems
  BY DEF Arrive, Timeout, grnVars, CreateLock, ApproveLockGRN, CancelGRNRead, ReturnLock, CompleteRead,
         CancelReturnRead, StatusRead, CancelPORead, EditRead, PayRead
<1>4. \A w \in Worker : Step(w) => CreateInsert(w) \/ UNCHANGED grnItems
  BY DEF Step, grnVars, ApproveLockPO, ApproveReject, ApprovePost, ApproveNothing, CancelGRNWrite, CancelPOWrite,
         StatusWrite, EditWrite, PayWrite, ReturnInsert, CompleteClaim, ClaimLost, RecognizeRead,
         RecognizeAgain, CompleteReadPO, CompleteCommit,
         CancelReturnWrite
<1>5. [Next]_vars => UNCHANGED grnItems \/ Next
  BY DEF vars, grnVars
<1> QED
  BY <1>1, <1>2, <1>3, <1>4, <1>5 DEF Next

\* A receipt that is posted fits beside those that were.
LEMMA WithinStep ==
  ASSUME IInv, IInv', Unedited, FromForms, \A items \in ReceiptInputs : OneLineEach(items),
         CompletedWithinOrder, ordered' = ordered, [Next]_vars
  PROVE  CompletedWithinOrder'
<1> SUFFICES ASSUME NEW m \in Material PROVE (Accepted(Completed, m) <= ordered[m])'
  BY DEF CompletedWithinOrder
<1> DEFINE f == AcceptedOf(m)
           C == Completed
<1>1. TypeOK /\ TypeOK' /\ C \in SUBSET Grn /\ C' \in SUBSET Grn
  BY DEF IInv, Completed
<1>2. /\ IsFiniteSet(Grn) /\ Nats(f, Grn) /\ ordered[m] \in Nat
      /\ Accepted(C, m) = SumOf(f, C) /\ Accepted(C, m) \in Nat
  BY <1>1, Quantities
<1>3. Nats(f', Grn) /\ Accepted(C, m)' = SumOf(f', C') /\ Accepted(C, m)' \in Nat
  <2>1. (Nats(f, Grn) /\ \A G \in SUBSET Grn : Accepted(G, m) = SumOf(f, G) /\ Accepted(G, m) \in Nat)'
    BY <1>1, Quantities, PTL
  <2> QED
    BY <1>1, <2>1
<1>4. Accepted(C, m) <= ordered[m]
  BY DEF CompletedWithinOrder
<1>5. CASE C' \subseteq C
  <2>1. \A g \in C' : f'[g] = f[g]
    <3>1. \A g \in C' : grnStatus[g] # "none" /\ g \in Grn
      BY <1>5, <1>1 DEF Completed
    <3> QED
      BY <3>1, ReceiptStep DEF AcceptedOf
  <2>2. Nats(f', C')
    BY <1>1, <1>3 DEF Nats
  <2> DEFINE fp == f' Cp == C'
  <2>3. IsFiniteSet(Grn) /\ Cp \in SUBSET Grn /\ C \in SUBSET Grn /\ Cp \subseteq C /\ Nats(fp, Cp) /\ Nats(f, Grn)
        /\ \A g \in Cp : f[g] = fp[g]
    BY <1>1, <1>2, <1>5, <2>1, <2>2
  <2> HIDE DEF fp, Cp, f, C
  <2>4. SumOf(fp, Cp) <= SumOf(f, C)
    BY ONLY <2>3, SumGrows
  <2>5. Accepted(C, m)' <= Accepted(C, m)
    BY <1>2, <1>3, <2>4 DEF fp, Cp
  <2> QED
    BY <1>2, <1>3, <1>4, <2>5 DEF C
<1>6. ASSUME NEW w \in Worker, on[w] \in Grn, on[w] \notin C, C' = C \cup {on[w]}, grnItems' = grnItems,
             ApprovePost(w), WithinOrder(grnItems[on[w]], on[w], seen[w].qty)
      PROVE  Accepted(C, m)' <= ordered[m]
  <2> DEFINE items == grnItems[on[w]]
  <2>1. seen[w].qty = ordered
    BY <1>6 DEF Unedited, ApprovePost
  <2>2. items \in Seq(Item) /\ OneLineEach(items)
    BY <1>1, <1>6 DEF TypeOK, FromForms, OneLineEach
  <2>3. /\ Accepted(C \cup {on[w]}, m) = ItemQty(items, "acc", m) + Accepted(C, m)
        /\ CumulativeReceived(m, on[w]) \in Nat /\ CumulativeReceived(m, on[w]) >= Accepted(C, m)
    BY <1>1, <1>6, OneMoreReceipt
  <2>4. \A i \in DOMAIN items : items[i].mat = m => Accepted(C, m) + items[i].rcv <= ordered[m]
    <3> SUFFICES ASSUME NEW i \in DOMAIN items, items[i].mat = m PROVE Accepted(C, m) + items[i].rcv <= ordered[m]
      OBVIOUS
    <3>1. CumulativeReceived(m, on[w]) + items[i].rcv <= ordered[m]
      BY <1>6, <2>1 DEF WithinOrder
    <3>2. items[i].rcv \in Nat
      <4>1. items[i] \in Item
        BY <2>2
      <4> QED
        BY <4>1 DEF Item
    <3> QED
      BY <1>2, <2>3, <3>1, <3>2
  <2>5. ItemQty(items, "acc", m) \in Nat
    BY <2>2, LineQuantities
  <2>6. Accepted(C, m) + ItemQty(items, "acc", m) <= ordered[m]
    <3> HIDE DEF C, items
    <3> QED
      BY <1>2, <1>4, <2>2, <2>4, OneLineFits
  <2>7. Accepted(C, m)' = Accepted(C \cup {on[w]}, m)
    BY <1>6 DEF Accepted
  <2> QED
    BY <1>2, <2>3, <2>5, <2>6, <2>7
<1> QED
  BY <1>5, <1>6, ReceiptStep

\* Receipts are created against one open quantity and approved concurrently; together they
\* never accept more of a material than the order has: approve adds up what the completed
\* ones accepted under the order's lock.  A form has one line of a material, and the
\* order is not edited: section 5 of the README has what happens otherwise.
THEOREM ReceivingWithinOrder ==
  ASSUME "edit" \notin Ops, \A items \in ReceiptInputs : OneLineEach(items)
  PROVE  Spec => []CompletedWithinOrder
<1> DEFINE J == Unedited /\ FromForms /\ CompletedWithinOrder
<1>1. Init => J
  <2> SUFFICES ASSUME Init PROVE J
    OBVIOUS
  <2>1. Unedited /\ FromForms
    BY DEF Init, Unedited, FromForms
  <2>2. ASSUME NEW m \in Material PROVE Accepted(Completed, m) <= ordered[m]
    <3>1. Completed = {} /\ ordered[m] \in Nat
      BY InputAssumption DEF Init, Completed, OrderQty
    <3>2. Accepted({}, m) = 0
      BY SumEmpty DEF Accepted
    <3> QED
      BY <3>1, <3>2
  <2> QED
    BY <2>1, <2>2 DEF CompletedWithinOrder
<1>2. IInv /\ IInv' /\ J /\ [Next]_vars => J'
  BY UneditedStep, FromFormsStep, WithinStep
<1>3. Spec => []J
  <2> HIDE DEF J
  <2> QED
    BY <1>1, <1>2, Invariance, PTL DEF Spec
<1>4. J => CompletedWithinOrder
  OBVIOUS
<1> QED
  BY <1>3, <1>4, PTL

-----------------------------------------------------------------------------
(* Orders shown as received. *)

\* What is accepted, and returned in R, covers the order.
Covers(R, m) == Accepted(Completed, m) + Returned(R, m) >= ordered[m]
Covered(R) == \A m \in Material : Covers(R, m)

\* The requests that undo what was received, or override what the order says of it.
Overriding == {"edit", "status", "cancelGRN", "cancelReturn"}

\* Who is about to write RECEIVED has found the order covered.
Justified(w) ==
  /\ pc[w] \notin Overriding
  /\ pc[w] = "pay" /\ seen[w].status = "RECEIVED" => Covered(CompletedReturns)
  /\ pc[w] = "returnPO" /\ seen[w].status = "RECEIVED" => Covered(CompletedReturns \cup {on[w]})

ReceivedCovered ==
  /\ \A w \in Worker : Justified(w)
  /\ poStatus = "RECEIVED" => Covered(CompletedReturns)

\* Without those requests receipts and returns that are completed stay, as they were.
LEMMA NothingUndone ==
  ASSUME IInv, \A w \in Worker : Justified(w), [Next]_vars
  PROVE  /\ Completed \subseteq Completed' /\ \A g \in Completed : grnItems'[g] = grnItems[g]
         /\ CompletedReturns \subseteq CompletedReturns'
         /\ \A r \in Ret : retStatus[r] # "none" => retQty'[r] = retQty[r]
<1>1. \A w \in Worker : ~ CancelGRNWrite(w) /\ ~ CancelReturnWrite(w)
  BY DEF Justified, Overriding, CancelGRNWrite, CancelReturnWrite
<1>2. Completed \subseteq Completed'
  <2>1. CASE UNCHANGED grnStatus
    BY <2>1 DEF Completed
  <2>2. ASSUME NEW w \in Worker, CreateInsert(w) \/ ApproveReject(w) \/ ApprovePost(w)
        PROVE  Completed \subseteq Completed'
    <3>1. /\ grnStatus \in [Grn -> GrnStatus]
          /\ pc[w] = "create" => grnStatus[on[w]] = "none"
          /\ pc[w] = "post" => grnStatus[on[w]] = "PENDING"
      BY DEF IInv, TypeOK, RequestsOK
    <3> QED
      BY <2>2, <3>1 DEF CreateInsert, ApproveReject, ApprovePost, Post, Completed
  <2>3. \A w \in Worker : Arrive(w) \/ Timeout(w) => UNCHANGED grnStatus
    BY DEF Arrive, Timeout, grnVars, CreateLock, ApproveLockGRN, CancelGRNRead, ReturnLock, CompleteRead,
           CancelReturnRead, StatusRead, CancelPORead, EditRead, PayRead
  <2>4. \A w \in Worker : Step(w) => UNCHANGED grnStatus \/ CreateInsert(w) \/ ApproveReject(w) \/ ApprovePost(w)
    BY <1>1 DEF Step, grnVars, ApproveLockPO, ApproveNothing, CancelPOWrite, StatusWrite, EditWrite, PayWrite,
                ReturnInsert, CompleteClaim, ClaimLost, RecognizeRead, RecognizeAgain, CompleteReadPO, CompleteCommit
  <2>5. [Next]_vars => UNCHANGED grnStatus \/ Next
    BY DEF vars, grnVars
  <2> QED
    BY <2>1, <2>2, <2>3, <2>4, <2>5 DEF Next
<1>3. /\ CompletedReturns \subseteq CompletedReturns'
      /\ \A r \in Ret : retStatus[r] # "none" => retQty'[r] = retQty[r]
  <2>1. CASE UNCHANGED <<retStatus, retQty>>
    BY <2>1 DEF CompletedReturns
  <2>2. ASSUME NEW w \in Worker, ReturnInsert(w) \/ CompleteCommit(w)
        PROVE  /\ CompletedReturns \subseteq CompletedReturns'
               /\ \A r \in Ret : retStatus[r] # "none" => retQty'[r] = retQty[r]
    <3>1. /\ retStatus \in [Ret -> RetStatus] /\ retQty \in [Ret -> ReturnQty]
          /\ pc[w] = "newReturn" => retStatus[on[w]] = "none"
      BY DEF IInv, TypeOK, RequestsOK
    <3> QED
      BY <2>2, <3>1 DEF ReturnInsert, CompleteCommit, CompletedReturns, retVars
  <2>3. \A w \in Worker : Arrive(w) \/ Timeout(w) => UNCHANGED <<retStatus, retQty>>
    BY DEF Arrive, Timeout, retVars, CreateLock, ApproveLockGRN, CancelGRNRead, ReturnLock, CompleteRead,
           CancelReturnRead, StatusRead, CancelPORead, EditRead, PayRead
  <2>4. \A w \in Worker : Step(w) => UNCHANGED <<retStatus, retQty>> \/ ReturnInsert(w) \/ CompleteCommit(w)
    BY <1>1 DEF Step, retVars, CreateInsert, ApproveLockPO, ApproveReject, ApprovePost, ApproveNothing,
                CancelPOWrite, StatusWrite, EditWrite, PayWrite, CompleteClaim, ClaimLost, RecognizeRead,
                RecognizeAgain, CompleteReadPO
  <2>5. [Next]_vars => UNCHANGED <<retStatus, retQty>> \/ Next
    BY DEF vars, retVars
  <2> QED
    BY <2>1, <2>2, <2>3, <2>4, <2>5 DEF Next
<1>4. \A g \in Completed : g \in Grn /\ grnStatus[g] # "none"
  BY DEF Completed
<1> QED
  BY <1>2, <1>3, <1>4, ReceiptStep

\* So what covered the order still does.
LEMMA CoverageStays ==
  ASSUME IInv, IInv', \A w \in Worker : Justified(w), ordered' = ordered, [Next]_vars,
         NEW R, R \in SUBSET Ret, \A r \in R : retStatus[r] # "none",
         NEW Q, Q \in SUBSET Ret, R \subseteq Q, NEW m \in Material, Covers(R, m)
  PROVE  Accepted(Completed, m)' + SumOf(ReturnedOf(m)', Q) >= ordered'[m]
<1> DEFINE f == AcceptedOf(m) fp == f' C == Completed Cp == C'
           h == ReturnedOf(m) hp == h'
<1>1. TypeOK /\ TypeOK' /\ C \in SUBSET Grn /\ Cp \in SUBSET Grn
  BY DEF IInv, Completed
<1>2. /\ IsFiniteSet(Grn) /\ IsFiniteSet(Ret) /\ ordered[m] \in Nat
      /\ Nats(f, Grn) /\ Accepted(C, m) = SumOf(f, C) /\ Accepted(C, m) \in Nat
      /\ Nats(h, Ret) /\ Returned(R, m) = SumOf(h, R) /\ Returned(R, m) \in Nat
  BY <1>1, Quantities
<1>3. /\ Nats(fp, Grn) /\ Accepted(C, m)' = SumOf(fp, Cp) /\ Accepted(C, m)' \in Nat
      /\ Nats(hp, Ret)
  <2>1. (Nats(f, Grn) /\ Nats(h, Ret)
         /\ \A G \in SUBSET Grn : Accepted(G, m) = SumOf(f, G) /\ Accepted(G, m) \in Nat)'
    BY <1>1, Quantities, PTL
  <2> QED
    BY <1>1, <2>1
<1>4. /\ C \subseteq Cp /\ \A g \in C : fp[g] = f[g]
      /\ \A r \in R : hp[r] = h[r]
  <2>1. C \subseteq Cp /\ (\A g \in C : grnItems'[g] = grnItems[g]) /\ \A r \in R : retQty'[r] = retQty[r]
    BY NothingUndone
  <2> QED
    BY <1>1, <2>1 DEF AcceptedOf, ReturnedOf
<1>5. Nats(f, C) /\ Nats(h, R) /\ Nats(hp, Q) /\ IsFiniteSet(Q)
  BY <1>1, <1>2, <1>3, FS_Subset DEF Nats
<1> HIDE DEF f, fp, C, Cp, h, hp
<1>6. SumOf(f, C) <= SumOf(fp, Cp)
  BY ONLY <1>1, <1>2, <1>3, <1>4, <1>5, SumGrows
<1>7. SumOf(h, R) <= SumOf(hp, Q)
  BY ONLY <1>2, <1>3, <1>4, <1>5, R \in SUBSET Ret, Q \in SUBSET Ret, R \subseteq Q, SumGrows
<1>8. SumOf(hp, Q) \in Nat
  BY ONLY <1>5, SumNat
<1>9. Accepted(C, m) + Returned(R, m) >= ordered[m]
  BY DEF Covers, C
<1>10. Accepted(C, m)' + SumOf(hp, Q) >= ordered[m]
  BY <1>2, <1>3, <1>6, <1>7, <1>8, <1>9
<1> QED
  BY <1>10 DEF hp, h, C

\* Returns that covered the order, if they are completed, or to be, cover it after a step.
LEMMA CoveredNext ==
  ASSUME IInv, IInv', \A w \in Worker : Justified(w), ordered' = ordered, [Next]_vars,
         NEW R, R \in SUBSET Ret, \A r \in R : retStatus[r] # "none", Covered(R)
  PROVE  /\ R \subseteq CompletedReturns' => Covered(CompletedReturns)'
         /\ \A r \in Ret : R \subseteq CompletedReturns' \cup {r} => Covered(CompletedReturns \cup {r})'
<1>1. ASSUME NEW m \in Material PROVE Covers(R, m)
  BY DEF Covered
<1>2. TypeOK' /\ CompletedReturns' \in SUBSET Ret
  BY DEF IInv, CompletedReturns
<1>3. ASSUME NEW m \in Material
      PROVE  /\ Returned(CompletedReturns, m)' = SumOf(ReturnedOf(m)', CompletedReturns')
             /\ \A r \in Ret :
                  Returned(CompletedReturns \cup {r}, m)' = SumOf(ReturnedOf(m)', CompletedReturns' \cup {r})
  BY DEF Returned, ReturnedOf
<1>4. ASSUME R \subseteq CompletedReturns', NEW m \in Material PROVE Covers(CompletedReturns, m)'
  <2>1. Accepted(Completed, m)' + SumOf(ReturnedOf(m)', CompletedReturns') >= ordered'[m]
    BY <1>1, <1>2, <1>4, CoverageStays
  <2> QED
    BY <1>3, <2>1 DEF Covers
<1>5. ASSUME NEW r \in Ret, R \subseteq CompletedReturns' \cup {r}, NEW m \in Material
      PROVE  Covers(CompletedReturns \cup {r}, m)'
  <2>1. CompletedReturns' \cup {r} \in SUBSET Ret
    BY <1>2
  <2>2. Accepted(Completed, m)' + SumOf(ReturnedOf(m)', CompletedReturns' \cup {r}) >= ordered'[m]
    BY <1>1, <1>5, <2>1, CoverageStays
  <2> QED
    BY <1>3, <2>2 DEF Covers
<1> QED
  BY <1>4, <1>5 DEF Covered

\* A step moves one request; a document's row is the mover's.
LEMMA OneMoves ==
  ASSUME IInv, NEW w \in Worker, Arrive(w) \/ Step(w) \/ Timeout(w), NEW v \in Worker \ {w}
  PROVE  pc'[v] = pc[v] /\ on'[v] = on[v] /\ seen'[v] = seen[v]
<1>1. pc \in [Worker -> PC] /\ on \in [Worker -> Grn \cup Ret \cup {None}] /\ seen \in [Worker -> Snapshot]
  BY DEF IInv, TypeOK
<1>2. CASE End(w)
  BY <1>1, <1>2 DEF End
<1>3. CASE Arrive(w)
  BY <1>1, <1>3 DEF Arrive, Start, SeeStatus, SeeQty, CreateLock, ApproveLockGRN, CancelGRNRead, ReturnLock,
                    CompleteRead, CancelReturnRead, StatusRead, CancelPORead, EditRead, PayRead
<1>4. CASE Step(w)
  BY <1>1, <1>2, <1>4 DEF Step, Goto, SeeStatus, CreateInsert, ApproveLockPO, ApproveReject, ApprovePost,
       ApproveNothing, CancelGRNWrite, CancelPOWrite, StatusWrite, EditWrite, PayWrite, ReturnInsert,
       CompleteClaim, ClaimLost, RecognizeRead, RecognizeAgain,
       CompleteReadPO, CompleteCommit, CancelReturnWrite
<1> QED
  BY <1>2, <1>3, <1>4 DEF Timeout

\* The status a completion computes is RECEIVED only if its return makes the order covered.
LEMMA ComputedReceived ==
  ASSUME IInv, ReceivedCovered, NEW w \in Worker, CompleteReadPO(w), IInv', ordered' = ordered, [Next]_vars
  PROVE  Justified(w)'
<1>1. /\ pc'[w] = "returnPO" /\ on'[w] = on[w] /\ seen'[w].status = StatusAfterReturn(on[w])
      /\ on[w] \in Ret /\ retStatus[on[w]] # "none" /\ CompletedReturns' = CompletedReturns
  BY DEF CompleteReadPO, SeeStatus, Goto, IInv, TypeOK, RequestsOK, retVars, CompletedReturns
<1>2. ASSUME StatusAfterReturn(on[w]) = "RECEIVED" PROVE Covered(CompletedReturns \cup {on[w]})'
  <2>1. \/ Covered(CompletedReturns \cup {on[w]})
        \/ Covered(CompletedReturns)
    BY <1>2 DEF StatusAfterReturn, Fulfilled, Covered, Covers, ReceivedCovered
  <2>2. CompletedReturns \in SUBSET Ret /\ \A r \in CompletedReturns \cup {on[w]} : retStatus[r] # "none"
    BY <1>1 DEF CompletedReturns
  <2>3. \A v \in Worker : Justified(v)
    BY DEF ReceivedCovered
  <2>4. CASE Covered(CompletedReturns \cup {on[w]})
    <3> DEFINE R == CompletedReturns \cup {on[w]}
    <3>1. /\ R \in SUBSET Ret /\ (\A r \in R : retStatus[r] # "none") /\ Covered(R)
          /\ R \subseteq CompletedReturns' \cup {on[w]}
      BY <1>1, <2>2, <2>4
    <3> HIDE DEF R
    <3> QED
      BY <1>1, <2>3, <3>1, CoveredNext
  <2>5. CASE Covered(CompletedReturns)
    BY <1>1, <2>2, <2>3, <2>5, CoveredNext
  <2> QED
    BY <2>1, <2>4, <2>5
<1> QED
  BY <1>1, <1>2 DEF Justified, Overriding

\* An approval that finds the order received has made it covered.
LEMMA PostedReceived ==
  ASSUME IInv, IInv', ReceivedCovered, Unedited, ordered' = ordered, [Next]_vars,
         NEW w \in Worker, ApprovePost(w), poStatus' = "RECEIVED"
  PROVE  Covered(CompletedReturns)'
<1>1. CASE poStatus = "RECEIVED"
  <2>1. CompletedReturns \in SUBSET Ret /\ \A r \in CompletedReturns : retStatus[r] # "none"
    BY DEF CompletedReturns
  <2>2. CompletedReturns \subseteq CompletedReturns' /\ \A v \in Worker : Justified(v)
    BY NothingUndone DEF ReceivedCovered
  <2> QED
    BY <1>1, <2>1, <2>2, CoveredNext DEF ReceivedCovered
<1>2. CASE poStatus # "RECEIVED"
  <2> DEFINE g == on[w]
  <2>1. /\ pc[w] = "post" /\ g \in Grn /\ grnStatus[g] = "PENDING" /\ grnItems' = grnItems /\ Post(g)
        /\ poStatus' \in StatusAfterPost(g, seen[w].qty) /\ seen[w].qty = ordered
    BY <1>2 DEF ApprovePost, IInv, RequestsOK, Unedited
  <2>2. Completed' = Completed \cup {g}
    BY <2>1 DEF Post, Completed, IInv, TypeOK
  <2>3. \A m \in Material : Accepted(Completed \cup {g}, m) >= ordered[m]
    BY <2>1 DEF StatusAfterPost
  <2> SUFFICES ASSUME NEW m \in Material PROVE Covers(CompletedReturns, m)'
    BY DEF Covered
  <2>4. Accepted(Completed, m)' = Accepted(Completed \cup {g}, m)
    BY <2>1, <2>2 DEF Accepted
  <2>5. Returned(CompletedReturns, m)' \in Nat
    <3>1. TypeOK' /\ CompletedReturns' \in SUBSET Ret
      BY DEF IInv, CompletedReturns
    <3>2. Returned(CompletedReturns, m)' = SumOf(ReturnedOf(m)', CompletedReturns')
      BY DEF Returned, ReturnedOf
    <3>3. Nats(ReturnedOf(m)', CompletedReturns') /\ IsFiniteSet(CompletedReturns')
      BY <3>1, InputAssumption, FS_Subset DEF Nats, ReturnedOf, TypeOK, ReturnQty
    <3> QED
      BY <3>2, <3>3, SumNat
  <2>6. Accepted(Completed \cup {g}, m) \in Nat /\ ordered[m] \in Nat
    <3>1. TypeOK /\ Completed \cup {g} \in SUBSET Grn
      BY <2>1 DEF IInv, Completed
    <3> QED
      BY <3>1, Quantities
  <2>7. Accepted(Completed \cup {g}, m) + Returned(CompletedReturns, m)' >= ordered[m]
    <3> DEFINE x == Accepted(Completed \cup {g}, m) y == Returned(CompletedReturns, m)' z == ordered[m]
    <3>1. x \in Nat /\ y \in Nat /\ z \in Nat /\ x >= z
      BY <2>3, <2>5, <2>6
    <3> HIDE DEF x, y, z
    <3>2. x + y >= z
      BY ONLY <3>1
    <3> QED
      BY <3>2 DEF x, y, z
  <2> QED
    BY <2>4, <2>7 DEF Covers
<1> QED
  BY <1>1, <1>2

\* The order is called received only while it is covered.
LEMMA ReceivedStep ==
  ASSUME IInv, IInv', Ops \cap Overriding = {}, ReceivedCovered, Unedited, ordered' = ordered, [Next]_vars
  PROVE  ReceivedCovered'
<1>1. /\ \A v \in Worker : Justified(v)
      /\ CompletedReturns \in SUBSET Ret /\ \A r \in CompletedReturns : retStatus[r] # "none"
      /\ CompletedReturns \subseteq CompletedReturns'
  BY NothingUndone DEF ReceivedCovered, CompletedReturns
<1>2. Covered(CompletedReturns) => Covered(CompletedReturns)'
  BY <1>1, CoveredNext
<1>3. ASSUME NEW r \in Ret, retStatus[r] # "none", Covered(CompletedReturns \cup {r})
      PROVE  /\ Covered(CompletedReturns \cup {r})'
             /\ r \in CompletedReturns' => Covered(CompletedReturns)'
  <2> DEFINE R == CompletedReturns \cup {r}
  <2>1. /\ R \in SUBSET Ret /\ (\A x \in R : retStatus[x] # "none") /\ Covered(R)
        /\ R \subseteq CompletedReturns' \cup {r} /\ (r \in CompletedReturns' => R \subseteq CompletedReturns')
    BY <1>1, <1>3
  <2> HIDE DEF R
  <2> QED
    BY <1>1, <2>1, CoveredNext
<1>4. /\ pc \in [Worker -> PC] /\ on \in [Worker -> Grn \cup Ret \cup {None}] /\ seen \in [Worker -> Snapshot]
      /\ \A v \in Worker : pc[v] = "returnPO" => on[v] \in Ret /\ retStatus[on[v]] # "none"
      /\ \A v \in Worker : pc[v] = "returnPO" => retStatus[on[v]] = "PENDING"
      /\ retStatus \in [Ret -> RetStatus]
  BY DEF IInv, TypeOK, RequestsOK
<1>5. ASSUME NEW v \in Worker, pc'[v] = pc[v], on'[v] = on[v], seen'[v] = seen[v] PROVE Justified(v)'
  <2>1. pc'[v] = "pay" /\ seen'[v].status = "RECEIVED" => Covered(CompletedReturns)'
    BY <1>1, <1>2, <1>5 DEF Justified
  <2>2. pc'[v] = "returnPO" /\ seen'[v].status = "RECEIVED" => Covered(CompletedReturns \cup {on[v]})'
    BY <1>1, <1>3, <1>4, <1>5 DEF Justified
  <2>3. pc'[v] \notin Overriding
    BY <1>1, <1>5 DEF Justified
  <2> QED
    BY <1>5, <2>1, <2>2, <2>3 DEF Justified
<1>6. CASE UNCHANGED vars
  <2>1. UNCHANGED <<pc, on, seen, poStatus>>
    BY <1>6 DEF vars, poVars, reqVars
  <2> QED
    BY <1>2, <1>5, <2>1 DEF ReceivedCovered
<1>7. ASSUME NEW w \in Worker, Arrive(w) \/ Step(w) \/ Timeout(w) PROVE ReceivedCovered'
  <2>1. \A v \in Worker \ {w} : Justified(v)'
    BY <1>5, <1>7, OneMoves
  <2>2. ASSUME End(w) PROVE Justified(w)'
    BY <1>4, <2>2 DEF End, Justified, Overriding
  <2>3. Justified(w)'
    <3>1. CASE Arrive(w)
      <4>1. ~ EditRead(w) /\ (\A s \in ManualStatus : ~ StatusRead(w, s)) /\ (\A g \in Grn : ~ CancelGRNRead(w, g))
            /\ \A r \in Ret : ~ CancelReturnRead(w, r)
        BY DEF EditRead, StatusRead, CancelGRNRead, CancelReturnRead, Start, Overriding
      <4>2. CASE PayRead(w)
        <5>1. pc'[w] = "pay" /\ seen'[w].status = poStatus
          BY <1>4, <4>2 DEF PayRead, Start, SeeStatus
        <5> QED
          BY <1>2, <5>1 DEF Justified, Overriding, ReceivedCovered
      <4>3. CASE ~ PayRead(w)
        <5>1. pc'[w] \in {"create", "approve", "newReturn", "complete", "recognize", "cancelPO"}
          BY <1>4, <3>1, <4>1, <4>3 DEF Arrive, CreateLock, ApproveLockGRN, ReturnLock, CompleteRead,
             CancelPORead, Start
        <5> QED
          BY <5>1 DEF Justified, Overriding
      <4> QED
        BY <4>2, <4>3
    <3>2. CASE Step(w) /\ ~ End(w)
      <4>1. CASE CompleteReadPO(w)
        BY <4>1, ComputedReceived
      <4>2. CASE ~ CompleteReadPO(w)
        <5>1. pc'[w] \in {"post", "claimed", "recognize", "debited", "insertEntry"}
          BY <1>4, <3>2, <4>2 DEF Step, Goto, CreateInsert, ApproveLockPO, ApproveReject, ApprovePost, ApproveNothing,
                CancelGRNWrite, CancelPOWrite, StatusWrite, EditWrite, PayWrite, ReturnInsert, CompleteClaim,
                ClaimLost, RecognizeRead, RecognizeAgain,
                CompleteCommit, CancelReturnWrite
        <5> QED
          BY <5>1 DEF Justified, Overriding
      <4> QED
        BY <4>1, <4>2
    <3> QED
      BY <1>7, <2>2, <3>1, <3>2 DEF Timeout
  <2>4. poStatus' = "RECEIVED" => Covered(CompletedReturns)'
    <3>1. CASE poStatus' = poStatus
      BY <1>2, <3>1 DEF ReceivedCovered
    <3>2. ~ StatusWrite(w) /\ ~ EditWrite(w)
      BY <1>1 DEF Justified, Overriding, StatusWrite, EditWrite
    <3>3. CASE ApprovePost(w)
      BY <3>3, PostedReceived
    <3>4. CASE CompleteCommit(w)
      <4>1. pc[w] = "returnPO" /\ poStatus' = seen[w].status /\ retStatus' = [retStatus EXCEPT ![on[w]] = "COMPLETED"]
        BY <3>4 DEF CompleteCommit
      <4>2. on[w] \in Ret /\ retStatus[on[w]] # "none" /\ on[w] \in CompletedReturns'
        BY <1>4, <4>1 DEF CompletedReturns
      <4>3. seen[w].status = "RECEIVED" => Covered(CompletedReturns \cup {on[w]})
        BY <1>1, <4>1 DEF Justified
      <4> QED
        BY <1>3, <4>1, <4>2, <4>3
    <3>5. CASE PayWrite(w)
      BY <1>1, <1>2, <3>5 DEF PayWrite, Justified
    <3>6. CASE CancelPOWrite(w)
      BY <3>6 DEF CancelPOWrite
    <3>7. Arrive(w) \/ Timeout(w) => poStatus' = poStatus
      BY DEF Arrive, Timeout, poVars, CreateLock, ApproveLockGRN, CancelGRNRead, ReturnLock, CompleteRead,
             CancelReturnRead, StatusRead, CancelPORead, EditRead, PayRead
    <3>8. Step(w) => \/ poStatus' = poStatus \/ ApprovePost(w) \/ CompleteCommit(w) \/ PayWrite(w) \/ CancelPOWrite(w)
      BY <3>2 DEF Step, poVars, CreateInsert, ApproveLockPO, ApproveReject, ApproveNothing, CancelGRNWrite,
                  ReturnInsert, CompleteClaim, ClaimLost, RecognizeRead, RecognizeAgain, CompleteReadPO,
                  CancelReturnWrite
    <3> QED
      BY <1>7, <3>1, <3>3, <3>4, <3>5, <3>6, <3>7, <3>8
  <2> QED
    BY <2>1, <2>3, <2>4 DEF ReceivedCovered
<1> QED
  BY <1>6, <1>7 DEF Next

\* What the list of orders works out of a line and what createFromPO finds open of it agree:
\* the list says the order is receivable if and only if a receipt can be created of it.
LEMMA ShownAsIs ==
  ASSUME TypeOK
  PROVE  /\ AllFulfilled <=> Covered(CompletedReturns)
         /\ canReceive <=> poStatus \in ReceiptReady /\ \E m \in Material : CumulativeReceived(m, None) < ordered[m]
<1> DEFINE q == [m \in Material |-> FulfilledQty(m)]
<1>1. Completed \in SUBSET Grn /\ CompletedReturns \in SUBSET Ret /\ Completed \ {None} = Completed
  BY InputAssumption DEF Completed, CompletedReturns
<1>2. ASSUME NEW m \in Material
      PROVE  /\ q[m] \in Nat /\ ordered[m] \in Nat /\ q[m] <= ordered[m] /\ q[m] = FulfilledQty(m)
             /\ FulfilledQty(m) >= ordered[m] <=> Covers(CompletedReturns, m)
             /\ q[m] < ordered[m] <=> ~ Covers(CompletedReturns, m)
             /\ CumulativeReceived(m, None) < ordered[m] <=> ~ Covers(CompletedReturns, m)
  <2>1. Accepted(Completed, m) \in Nat /\ Returned(CompletedReturns, m) \in Nat /\ ordered[m] \in Nat
    BY <1>1, Quantities
  <2> DEFINE a == Accepted(Completed, m) r == Returned(CompletedReturns, m) o == ordered[m]
  <2>2. /\ FulfilledQty(m) = IF o < a + r THEN o ELSE a + r
        /\ CumulativeReceived(m, None) =
             a + (IF (IF o > a THEN o - a ELSE 0) < r THEN (IF o > a THEN o - a ELSE 0) ELSE r)
        /\ Covers(CompletedReturns, m) <=> a + r >= o
    BY <1>1 DEF FulfilledQty, CumulativeReceived, Lesser, Minus, Covers
  <2>3. q[m] = FulfilledQty(m)
    OBVIOUS
  <2>4. a \in Nat /\ r \in Nat /\ o \in Nat
    BY <2>1
  <2> HIDE DEF a, r, o, q
  <2>5. /\ FulfilledQty(m) \in Nat /\ FulfilledQty(m) <= o
        /\ FulfilledQty(m) >= o <=> Covers(CompletedReturns, m)
        /\ FulfilledQty(m) < o <=> ~ Covers(CompletedReturns, m)
        /\ CumulativeReceived(m, None) < o <=> ~ Covers(CompletedReturns, m)
    BY ONLY <2>2, <2>4
  <2> QED
    BY <2>1, <2>3, <2>5 DEF o
<1>3. AllFulfilled <=> Covered(CompletedReturns)
  BY <1>2 DEF AllFulfilled, Covered
<1>4. IsFiniteSet(Material) /\ Ints(q, Material) /\ Ints(ordered, Material) /\ \A m \in Material : q[m] <= ordered[m]
  BY <1>2, InputAssumption DEF Ints
<1> HIDE DEF q
<1>5. (\E m \in Material : q[m] < ordered[m]) => SumOf(q, Material) < SumOf(ordered, Material)
  <2> SUFFICES ASSUME NEW y \in Material, q[y] < ordered[y] PROVE SumOf(q, Material) < SumOf(ordered, Material)
    OBVIOUS
  <2> QED
    BY ONLY <1>4, q[y] < ordered[y], y \in Material, SumLess
<1>6. (\E m \in Material : CumulativeReceived(m, None) < ordered[m]) <=> ~ Covered(CompletedReturns)
  BY <1>2 DEF Covered
<1>7. ~ Covered(CompletedReturns) => SumOf(ordered, Material) > SumOf(q, Material)
  <2>1. ~ Covered(CompletedReturns) => \E m \in Material : q[m] < ordered[m]
    BY <1>2 DEF Covered
  <2>2. SumOf(ordered, Material) \in Int /\ SumOf(q, Material) \in Int
    BY ONLY <1>4, SumInt
  <2> QED
    BY <1>5, <2>1, <2>2
<1>8. canReceive <=> poStatus \in ReceiptReady /\ ~ Covered(CompletedReturns)
  <2>1. canReceive <=> /\ effectiveStatus \in ReceiptReady /\ ~ AllFulfilled
                       /\ SumOf(ordered, Material) > SumOf(q, Material)
    BY DEF canReceive, q
  <2>2. ~ AllFulfilled => effectiveStatus = poStatus
    BY DEF effectiveStatus
  <2> QED
    BY <1>3, <1>7, <2>1, <2>2
<1> QED
  BY <1>3, <1>6, <1>8

\* An order that is received, or listed as received, is covered by accepted and returned
\* goods, although completing a return writes a status it computed before it locked the
\* order, and money writes back one it read; and the list offers for receipt just the
\* orders of which something is still open.  Editing the order, setting its status by hand
\* and cancelling receipts or returns override that.
THEOREM ReceivedIsCovered ==
  ASSUME Ops \cap {"edit", "status", "cancelGRN", "cancelReturn"} = {}
  PROVE  Spec => []ReceivedIsFulfilled
<1> DEFINE J == Unedited /\ ReceivedCovered
<1>1. "edit" \notin Ops /\ Ops \cap Overriding = {}
  BY DEF Overriding
<1>2. Init => J
  BY DEF Init, Unedited, ReceivedCovered, Justified, Overriding
<1>3. IInv /\ IInv' /\ J /\ [Next]_vars => J'
  BY <1>1, UneditedStep, ReceivedStep
<1>4. Spec => []J
  <2> HIDE DEF J
  <2> QED
    BY <1>2, <1>3, Invariance, PTL DEF Spec
<1>5. IInv /\ J => ReceivedIsFulfilled
  <2> SUFFICES ASSUME IInv, J PROVE ReceivedIsFulfilled
    OBVIOUS
  <2>1. TypeOK
    BY DEF IInv
  <2>2. effectiveStatus = "RECEIVED" => Covered(CompletedReturns)
    BY <2>1, ShownAsIs DEF effectiveStatus, ReceivedCovered
  <2> QED
    BY <2>1, <2>2, ShownAsIs DEF ReceivedIsFulfilled, Covered, Covers
<1> QED
  BY <1>4, <1>5, Invariance, PTL
=============================================================================
