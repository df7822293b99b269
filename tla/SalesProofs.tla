----------------------------- MODULE SalesProofs ----------------------------
(***************************************************************************)
(* Proofs about Sales, for any documents, challans, returns and requests.  *)
(*                                                                         *)
(* The three families of operations meet in few rows, and so does the      *)
(* invariant: a part for the chain of documents, one for challans, one for *)
(* customers' returns, each with what a request of that family relies on   *)
(* between its read and its write.  A step of one family preserves the     *)
(* other two parts because it leaves their rows alone, or writes of them   *)
(* only what DocSteady, ChallanSteady and ReturnSteady say.                *)
(***************************************************************************)
EXTENDS Sales, SumLemmas

-----------------------------------------------------------------------------
(* Requests. *)

ChainControl ==
  {"updateQuotation", "quotationToOrder", "quotationToSale", "createOrder", "updateOrder", "orderToSale",
   "orderToProforma", "updateProforma", "proformaStatus", "proformaToInvoice", "proformaToOrder"}
DispatchControl ==
  {"reconcile", "editChallan", "deleteChallan", "challanStatus", "dispatch", "deliver", "raiseReturn",
   "receive", "cancelInvoice"}
ReturnControl == {"createReturn", "updateReturn", "refund"}

RowStatus ==
  {"none", "deleted"} \cup EstimateStatus \cup OrderStatus \cup ProformaStatus \cup InvoiceStatus
    \cup ChallanStatus \cup ReturnStatus
Version == 0..MaxEdits
Seen == [status : RowStatus, lines : SUBSET Version, n : Int, m : Int, fits : BOOLEAN]

RequestsOK ==
  /\ lock \in [Row -> Worker \cup {None}]
  /\ pc \in [Worker -> {"idle"} \cup ChainControl \cup DispatchControl \cup ReturnControl]
  /\ on \in [Worker -> Row \cup {None}] /\ seen \in [Worker -> Seen]

-----------------------------------------------------------------------------
(* The chain of documents. *)

DocTypes ==
  /\ mix \in Mixes /\ edits \in Version
  /\ status \in [Doc -> RowStatus] /\ status[Estimate] \in {"none", "deleted"} \cup EstimateStatus
  /\ \A so \in SO : status[so] \in {"none"} \cup OrderStatus
  /\ \A p \in PI : status[p] \in {"none"} \cup ProformaStatus
  /\ \A i \in INV : status[i] \in {"none"} \cup InvoiceStatus
  /\ source \in [Doc -> Row \cup {None, Key}] /\ lines \in [Doc -> SUBSET Version]
  /\ converted \in [Doc -> Doc \cup {None}] /\ proforma \in [SO -> PI \cup {None}]

OneVersion(l) == \E k \in Version : l = {k}

\* Where no estimate is edited, every document before the invoice has one version of its lines.
Kept == "updateQuotation" \notin mix.ops
Versions == Kept => \A d \in {Estimate} \cup SO \cup PI : Exists(d) => OneVersion(lines[d])

OrderThere == \A p \in PI : source[p] \in SO => status[source[p]] # "none"

OnEstimate(w) ==
  /\ pc[w] = "updateQuotation" => ~Kept
  /\ pc[w] \in {"quotationToOrder", "orderToProforma", "proformaToOrder"} /\ Kept => OneVersion(seen[w].lines)
  /\ pc[w] = "createOrder" => seen[w].lines = {0}

OnOrder(w) ==
  /\ pc[w] \in {"updateOrder", "orderToSale", "orderToProforma"} => on[w] \in SO /\ status[on[w]] # "none"
  /\ pc[w] = "updateOrder" =>
       /\ lock[on[w]] = w /\ status[on[w]] = seen[w].status /\ lines[on[w]] = seen[w].lines
       /\ seen[w].status \notin SALES_ORDER_LOCKED_STATUSES

OnProforma(w) ==
  /\ pc[w] \in {"updateProforma", "proformaStatus", "proformaToInvoice", "proformaToOrder"} =>
       on[w] \in PI /\ status[on[w]] # "none"
  /\ pc[w] = "updateProforma" => seen[w].status = "DRAFT"

OnInvoice(w) == pc[w] = "cancelInvoice" => on[w] \in INV /\ status[on[w]] # "none"

OnDoc(w) == OnEstimate(w) /\ OnOrder(w) /\ OnProforma(w) /\ OnInvoice(w)

ChainInv == DocTypes /\ Versions /\ OrderThere /\ OnePerSource /\ \A w \in Worker : OnDoc(w)

-----------------------------------------------------------------------------
(* Challans. *)

ChallanTypes ==
  /\ challan \in [Challan -> [status : {"none", "deleted"} \cup ChallanStatus, of : INV \cup {None},
                              qty : 0..Units, key : INV \cup {None}]]
  /\ out \in [Challan -> Nat] /\ back \in [Challan -> Nat]
  /\ voided \subseteq Challan /\ unbacked \subseteq Challan /\ fulfilled \in [INV -> BOOLEAN]
  /\ dcReturn \in [DCReturn -> [status : {"none", "PENDING", "RECEIVED"}, of : Challan \cup {None}, qty : 0..Units]]
  /\ received \in [DCReturn -> Nat]

\* Units of the invoice that challans never cancelled or deleted have posted.
Shipped(i) == PostedBy(ChallansOf(i) \ voided)

ChallanSound(c) ==
  /\ challan[c].status = "none" => challan[c].of = None /\ challan[c].qty = 0 /\ out[c] = 0 /\ c \notin voided
  /\ challan[c].status # "none" => challan[c].qty > 0
  /\ challan[c].status \in {"deleted", "CANCELLED"} => c \in voided
  /\ c \notin voided /\ out[c] > 0 => challan[c].status \in ACTIVE
  /\ back[c] \in {0, out[c]}
  /\ challan[c].of # None => status[challan[c].of] # "none"
  /\ Returned(c) <= challan[c].qty

ReturnSound(d) ==
  /\ dcReturn[d].status = "none" => dcReturn[d].of = None
  /\ received[d] <= dcReturn[d].qty
  /\ dcReturn[d].status # "RECEIVED" => received[d] = 0

\* An invoice is marked fulfilled when all of it has been posted, unless a challan was undone.
Marked(i) ==
  source[i] \in PI /\ ChallansOf(i) \cap voided = {} => (fulfilled[i] <=> PostedBy(Active(i)) >= Units)

InvoiceSound(i) ==
  /\ Shipped(i) <= Units
  /\ source[i] \notin PI => \A c \in ChallansOf(i) : out[c] = 0
  /\ status[i] = "none" => ~fulfilled[i]
  /\ Marked(i)

OnChallan(w) ==
  /\ pc[w] \in {"editChallan", "deleteChallan", "challanStatus", "dispatch", "deliver", "raiseReturn"} =>
       on[w] \in Challan /\ challan[on[w]].status # "none"
  /\ pc[w] = "raiseReturn" =>
       lock[on[w]] = w /\ seen[w].n \in 1..Units /\ Returned(on[w]) + seen[w].n <= challan[on[w]].qty
  /\ pc[w] = "receive" => on[w] \in DCReturn /\ lock[on[w]] = w /\ dcReturn[on[w]].status = "PENDING"

OnDispatch(w) ==
  /\ pc[w] = "reconcile" =>
       on[w] \in INV /\ status[on[w]] # "none" /\ source[on[w]] \in PI /\ seen[w].n > 0
  /\ pc[w] = "dispatch" =>
       LET i == challan[on[w]].of IN
       /\ i \in INV /\ source[i] \in PI /\ lock[on[w]] = w /\ lock[i] = w
       /\ out[on[w]] > 0 \/ Shipped(i) + challan[on[w]].qty <= Units

DispatchInv ==
  /\ ChallanTypes
  /\ \A c \in Challan : ChallanSound(c)
  /\ \A d \in DCReturn : ReturnSound(d)
  /\ \A i \in INV : InvoiceSound(i)
  /\ \A w \in Worker : OnChallan(w) /\ OnDispatch(w)

-----------------------------------------------------------------------------
(* Customers' returns. *)

ReturnTypes ==
  /\ ret \in [Return -> [status : {"none"} \cup ReturnStatus, of : INV \cup {None}, qty : 0..Units]]
  /\ rejected \subseteq Return /\ restocked \in [Return -> Nat] /\ paid \in [INV -> 0..Units]
  /\ applied \in [Return -> Nat] /\ cash \in [Return -> Nat]

NotRejected(i) == SumOf(Brought, ReturnsAgainst(i) \ rejected)

RefundSound(r) ==
  /\ ret[r].status = "none" => ret[r].of = None /\ applied[r] = 0 /\ cash[r] = 0
  /\ ret[r].status # "none" => ret[r].of \in INV
  /\ ret[r].status = "REJECTED" => r \in rejected
  /\ applied[r] <= ret[r].qty /\ cash[r] <= ret[r].qty

OnReturn(w) ==
  /\ pc[w] = "createReturn" =>
       on[w] \in INV /\ lock[on[w]] = w /\ seen[w].n \in 1..Units /\ NotRejected(on[w]) + seen[w].n <= Units
  /\ pc[w] \in {"updateReturn", "refund"} => on[w] \in Return /\ ret[on[w]].status # "none"
  /\ pc[w] = "refund" => seen[w].n >= 0

ReturnInv ==
  /\ ReturnTypes
  /\ \A r \in Return : RefundSound(r)
  /\ \A i \in INV : NotRejected(i) <= Units
  /\ \A w \in Worker : OnReturn(w)

IInv == RequestsOK /\ ChainInv /\ DispatchInv /\ ReturnInv
-----------------------------------------------------------------------------
(* Tables, requests and locks. *)

USE SalesAssumption

\* A row is in one table.
LEMMA Apart ==
  /\ {Estimate} \cap (SO \cup PI \cup INV) = {} /\ SO \cap (PI \cup INV) = {} /\ PI \cap INV = {}
  /\ Doc \cap (Challan \cup DCReturn \cup Return) = {}
  /\ Challan \cap (DCReturn \cup Return) = {} /\ DCReturn \cap Return = {}
  /\ None \notin Row /\ Key \notin Row /\ None \notin Worker
<1> DEFINE D(s, t) == Tables[s] \cap Tables[t] = {}
<1>1. \A s, t \in 1..7 : s # t => D(s, t)
  BY DEF SalesAssumption
<1>2. /\ D(1, 2) /\ D(1, 3) /\ D(1, 4) /\ D(1, 5) /\ D(1, 6) /\ D(1, 7)
      /\ D(2, 3) /\ D(2, 4) /\ D(2, 5) /\ D(2, 6) /\ D(2, 7)
      /\ D(3, 4) /\ D(3, 5) /\ D(3, 6) /\ D(3, 7)
      /\ D(4, 5) /\ D(4, 6) /\ D(4, 7) /\ D(5, 6) /\ D(5, 7) /\ D(6, 7)
  <2> HIDE DEF D
  <2> QED
    BY <1>1
<1>3. /\ Tables[1] = {Estimate} /\ Tables[2] = SO /\ Tables[3] = PI /\ Tables[4] = INV
      /\ Tables[5] = Challan /\ Tables[6] = DCReturn /\ Tables[7] = Return
  BY DEF Tables
<1>4. {Estimate} \cap (SO \cup PI \cup INV) = {} /\ SO \cap (PI \cup INV) = {} /\ PI \cap INV = {}
  BY <1>2, <1>3
<1>5. Doc \cap (Challan \cup DCReturn \cup Return) = {}
  BY <1>2, <1>3 DEF Doc
<1>6. Challan \cap (DCReturn \cup Return) = {} /\ DCReturn \cap Return = {}
  BY <1>2, <1>3
<1> QED
  BY <1>4, <1>5, <1>6 DEF SalesAssumption

LEMMA FirstIn == ASSUME NEW S, S # {} PROVE First(S) \in S
BY DEF First

Steady(v) == pc'[v] = pc[v] /\ on'[v] = on[v] /\ seen'[v] = seen[v]
KeepsLocks(w) == \A x \in Row : lock[x] \notin {None, w} => lock'[x] = lock[x]

\* What every step leaves to the requests that do not take it.
Passes(w) == RequestsOK' /\ KeepsLocks(w) /\ \A v \in Worker \ {w} : Steady(v)

At(w, p, x, r) == pc'[w] = p /\ on'[w] = x /\ seen'[w] = r

Control == {"idle"} \cup ChainControl \cup DispatchControl \cup ReturnControl

\* A step that takes no lock.
LEMMA GoPasses ==
  ASSUME RequestsOK, NEW w \in Worker, NEW p \in Control, NEW x \in Row \cup {None}, NEW r \in Seen,
         Go(w, p, x, r), KeepsLocks(w), lock' \in [Row -> Worker \cup {None}]
  PROVE  Passes(w) /\ At(w, p, x, r)
<1>1. RequestsOK'
  BY DEF RequestsOK, Go, Control
<1>2. At(w, p, x, r) /\ \A v \in Worker \ {w} : Steady(v)
  BY DEF RequestsOK, Go, At, Steady
<1> QED
  BY <1>1, <1>2 DEF Passes

LEMMA ReadPasses ==
  ASSUME RequestsOK, NEW w \in Worker, NEW p \in Control, NEW x \in Row \cup {None}, NEW r \in Seen,
         Read(w, p, x, r)
  PROVE  Passes(w) /\ At(w, p, x, r) /\ UNCHANGED data /\ p \in mix.ops
<1>1. KeepsLocks(w) /\ lock' \in [Row -> Worker \cup {None}]
  BY DEF Read, RequestsOK, KeepsLocks
<1> QED
  BY <1>1, GoPasses DEF Read, Idle

\* A step that locks rows, and goes on.
LEMMA LockPasses ==
  ASSUME RequestsOK, NEW w \in Worker, NEW p \in Control, NEW x \in Row \cup {None}, NEW r \in Seen,
         NEW rows \in SUBSET Row, Lock(w, rows), Go(w, p, x, r)
  PROVE  Passes(w) /\ At(w, p, x, r) /\ \A y \in rows : lock'[y] = w
<1>1. KeepsLocks(w) /\ lock' \in [Row -> Worker \cup {None}] /\ \A y \in rows : lock'[y] = w
  BY DEF Lock, RequestsOK, KeepsLocks
<1> QED
  BY <1>1, GoPasses

LEMMA EndPasses ==
  ASSUME RequestsOK, NEW w \in Worker, End(w)
  PROVE  Passes(w) /\ pc'[w] = "idle"
<1>1. KeepsLocks(w) /\ lock' \in [Row -> Worker \cup {None}]
  BY DEF End, RequestsOK, KeepsLocks
<1>2. NothingSeen \in Seen
  BY DEF NothingSeen, Seen, RowStatus
<1> QED
  BY <1>1, <1>2, GoPasses DEF End, Control, At

\* A request answered in one step.
LEMMA StayPasses ==
  ASSUME RequestsOK, NEW w \in Worker, UNCHANGED <<lock, pc, on, seen>>
  PROVE  Passes(w)
BY DEF RequestsOK, Passes, KeepsLocks, Steady

\* A request at rest, or of another family, relies on nothing.
LEMMA IdleRelies ==
  ASSUME NEW w \in Worker
  PROVE  /\ pc'[w] \notin ChainControl \cup {"cancelInvoice"} => OnDoc(w)'
         /\ pc'[w] \notin DispatchControl => OnChallan(w)' /\ OnDispatch(w)'
         /\ pc'[w] \notin ReturnControl => OnReturn(w)'
<1>1. pc'[w] \notin ChainControl \cup {"cancelInvoice"} => OnDoc(w)'
  BY DEF OnDoc, OnEstimate, OnOrder, OnProforma, OnInvoice, ChainControl
<1>2. pc'[w] \notin DispatchControl => OnChallan(w)' /\ OnDispatch(w)'
  BY DEF OnChallan, OnDispatch, DispatchControl
<1>3. pc'[w] \notin ReturnControl => OnReturn(w)'
  BY DEF OnReturn, ReturnControl
<1> QED
  BY <1>1, <1>2, <1>3
-----------------------------------------------------------------------------
(* What a family leaves to the others. *)

\* A document is never made again, an invoice keeps its source, and an order that
\* another request has locked stays as it is.
DocSteady(w) ==
  /\ mix' = mix
  /\ \A d \in Doc : status[d] # "none" => status'[d] # "none"
  /\ \A i \in INV : status[i] # "none" => source'[i] = source[i]
  /\ \A so \in SO : lock[so] \notin {None, w} /\ status[so] # "none" => status'[so] = status[so] /\ lines'[so] = lines[so]

LEMMA DocOthers ==
  ASSUME IInv, NEW w \in Worker, NEW v \in Worker \ {w}, Steady(v), KeepsLocks(w), DocSteady(w)
  PROVE  OnDoc(v)'
<1>1. v \notin {None, w} /\ OnDoc(v) /\ SO \subseteq Row \cap Doc /\ PI \subseteq Doc /\ INV \subseteq Doc
  BY Apart DEF IInv, ChainInv, Doc, Row
<1>2. OnEstimate(v)'
  BY <1>1 DEF OnDoc, OnEstimate, Steady, DocSteady, Kept
<1>3. OnOrder(v)'
  BY <1>1 DEF OnDoc, OnOrder, Steady, DocSteady, KeepsLocks
<1>4. OnProforma(v)' /\ OnInvoice(v)'
  BY <1>1 DEF OnDoc, OnProforma, OnInvoice, Steady, DocSteady
<1> QED
  BY <1>2, <1>3, <1>4 DEF OnDoc

\* A step that leaves the documents alone.
LEMMA DocsUntouched ==
  ASSUME IInv, NEW w \in Worker, Passes(w), UNCHANGED <<mix, docVars>>, OnDoc(w)'
  PROVE  ChainInv' /\ DocSteady(w)
<1> USE DEF docVars
<1>1. DocSteady(w)
  BY DEF DocSteady
<1>2. DocTypes' /\ OrderThere'
  BY DEF IInv, ChainInv, DocTypes, OrderThere
<1>3. Versions'
  BY DEF IInv, ChainInv, Versions, Kept, Exists
<1>4. OnePerSource'
  BY DEF IInv, ChainInv, OnePerSource
<1>5. \A v \in Worker : OnDoc(v)'
  BY <1>1, DocOthers DEF Passes
<1> QED
  BY <1>1, <1>2, <1>3, <1>4, <1>5 DEF ChainInv

\* What challans that others locked, or rely on, keep.
ChallanSteady(w) ==
  /\ \A c \in Challan : challan[c].status # "none" => challan'[c].status # "none" /\ challan'[c].of = challan[c].of
  /\ \A c \in Challan : lock[c] \notin {None, w} /\ challan[c].status # "none" =>
       challan'[c].qty = challan[c].qty /\ Returned(c)' = Returned(c)
         /\ (out[c] > 0 => out'[c] > 0)
  /\ \A d \in DCReturn : dcReturn[d].status # "none" /\ lock[d] \notin {None, w} => dcReturn'[d] = dcReturn[d]
  /\ \A i \in INV : lock[i] \notin {None, w} => Shipped(i)' <= Shipped(i)

LEMMA DispatchOthers ==
  ASSUME IInv, NEW w \in Worker, NEW v \in Worker \ {w}, Steady(v), KeepsLocks(w), DocSteady(w), ChallanSteady(w),
         \A i \in INV : Shipped(i) \in Nat /\ Shipped(i)' \in Nat
  PROVE  OnChallan(v)' /\ OnDispatch(v)'
<1>1. /\ v \notin {None, w} /\ OnChallan(v) /\ OnDispatch(v) /\ Challan \subseteq Row /\ DCReturn \subseteq Row
      /\ INV \subseteq Doc /\ INV \subseteq Row /\ ChallanTypes /\ \A c \in Challan : ChallanSound(c)
  BY Apart DEF IInv, DispatchInv, Row, Doc
<1>2. OnChallan(v)'
  BY <1>1 DEF OnChallan, Steady, ChallanSteady, KeepsLocks
<1>3. ASSUME pc[v] = "reconcile" PROVE OnDispatch(v)'
  BY <1>1, <1>3 DEF OnDispatch, Steady, DocSteady
<1>4. ASSUME NEW c \in Challan, c = on[v], NEW i \in INV, i = challan[c].of, pc[v] = "dispatch"
      PROVE  OnDispatch(v)'
  <2>1. /\ challan[c].status # "none" /\ source[i] \in PI /\ lock[c] = v /\ lock[i] = v
        /\ out[c] > 0 \/ Shipped(i) + challan[c].qty <= Units
    BY <1>1, <1>4 DEF OnDispatch, OnChallan
  <2>2. status[i] # "none" /\ i # None /\ challan[c].qty \in Nat
    BY <1>1, <1>4, Apart DEF ChallanSound, ChallanTypes
  <2>3. /\ challan'[c].of = i /\ challan'[c].qty = challan[c].qty /\ source'[i] = source[i]
        /\ lock'[c] = v /\ lock'[i] = v
    BY <1>1, <1>4, <2>1, <2>2 DEF ChallanSteady, DocSteady, KeepsLocks
  <2>4. out'[c] > 0 \/ Shipped(i)' + challan[c].qty <= Units
    <3>1. CASE out[c] > 0
      BY <1>1, <2>1, <3>1 DEF ChallanSteady
    <3>2. CASE Shipped(i) + challan[c].qty <= Units
      <4>1. Shipped(i)' <= Shipped(i)
        BY <1>1, <2>1 DEF ChallanSteady
      <4>2. Shipped(i) \in Nat /\ Shipped(i)' \in Nat
        OBVIOUS
      <4> QED
        BY <2>2, <3>2, <4>1, <4>2 DEF SalesAssumption
    <3> QED
      BY <2>1, <3>1, <3>2
  <2> QED
    BY <1>4, <2>1, <2>3, <2>4 DEF OnDispatch, Steady
<1>5. ASSUME pc[v] = "dispatch" PROVE on[v] \in Challan /\ challan[on[v]].of \in INV
  BY <1>1, <1>5 DEF OnChallan, OnDispatch
<1> QED
  BY <1>2, <1>3, <1>4, <1>5 DEF OnDispatch, Steady

\* What challans have posted is a number.
LEMMA PostedNat ==
  ASSUME ChallanTypes, NEW S \in SUBSET Challan
  PROVE  PostedBy(S) \in Nat /\ IsFiniteSet(S) /\ Nats(out, S) /\ Ints(out, S)
<1>1. IsFiniteSet(S) /\ Nats(out, S) /\ Ints(out, S)
  BY FS_Subset DEF SalesAssumption, ChallanTypes, Nats, Ints
<1> QED
  BY <1>1, SumNat DEF PostedBy

LEMMA ShippedNat ==
  ASSUME ChallanTypes, NEW i
  PROVE  Shipped(i) \in Nat /\ PostedBy(Active(i)) \in Nat
<1>1. ChallansOf(i) \ voided \in SUBSET Challan /\ Active(i) \in SUBSET Challan
  BY DEF ChallansOf, Active
<1> QED
  BY <1>1, PostedNat DEF Shipped

\* A step that leaves the challans alone.
LEMMA ChallansUntouched ==
  ASSUME IInv, NEW w \in Worker, Passes(w), DocSteady(w), UNCHANGED dispatchVars, OnChallan(w)', OnDispatch(w)'
  PROVE  DispatchInv'
<1> USE DEF dispatchVars
<1>1. ChallanTypes'
  BY DEF IInv, DispatchInv, ChallanTypes
<1>2. /\ \A c \in Challan : Returned(c)' = Returned(c)
      /\ \A i \in INV : ChallansOf(i)' = ChallansOf(i) /\ Active(i)' = Active(i) /\ Shipped(i)' = Shipped(i)
      /\ \A S \in SUBSET Challan : PostedBy(S)' = PostedBy(S)
  BY DEF Returned, ReturnsOf, ChallansOf, Active, Shipped, PostedBy
<1>3. ASSUME NEW c \in Challan PROVE ChallanSound(c)'
  <2>1. ChallanSound(c) /\ challan[c].of \in INV \cup {None} /\ INV \subseteq Doc
    BY DEF IInv, DispatchInv, ChallanTypes, Doc
  <2>2. challan[c].of # None => status'[challan[c].of] # "none"
    BY <2>1 DEF ChallanSound, DocSteady
  <2> QED
    BY <1>2, <2>1, <2>2 DEF ChallanSound
<1>4. \A d \in DCReturn : ReturnSound(d)'
  BY DEF IInv, DispatchInv, ReturnSound
<1>5. ASSUME NEW i \in INV PROVE InvoiceSound(i)'
  <2>1. InvoiceSound(i) /\ i \in Doc /\ (status[i] # "none" => status'[i] # "none" /\ source'[i] = source[i])
    BY DEF IInv, DispatchInv, DocSteady, Doc
  <2>2. Active(i) \in SUBSET Challan /\ PostedBy(Active(i))' = PostedBy(Active(i))
    BY <1>2 DEF Active, ChallansOf, PostedBy
  <2>3. CASE status[i] = "none"
    <3>1. ChallansOf(i) = {}
      BY <2>3, Apart DEF ChallansOf, IInv, DispatchInv, ChallanSound, Row, Doc
    <3>2. PostedBy(Active(i)) = 0
      BY <3>1, SumEmpty DEF Active, PostedBy
    <3> QED
      BY <1>2, <2>1, <2>2, <2>3, <3>1, <3>2 DEF InvoiceSound, Marked, SalesAssumption
  <2>4. CASE status[i] # "none"
    BY <1>2, <2>1, <2>2, <2>4 DEF InvoiceSound, Marked
  <2> QED
    BY <2>3, <2>4
<1>6. ChallanSteady(w)
  <2>1. \A i \in INV : Shipped(i)' <= Shipped(i)
    BY <1>2, ShippedNat DEF IInv, DispatchInv
  <2> QED
    BY <1>2, <2>1 DEF ChallanSteady
<1>7. \A i \in INV : Shipped(i) \in Nat /\ Shipped(i)' \in Nat
  BY <1>2, ShippedNat DEF IInv, DispatchInv
<1>8. \A v \in Worker : OnChallan(v)' /\ OnDispatch(v)'
  BY <1>6, <1>7, DispatchOthers DEF Passes
<1> QED
  BY <1>1, <1>3, <1>4, <1>5, <1>8 DEF DispatchInv

\* Returns raised stay raised, and nothing is added to an invoice another request has locked.
ReturnSteady(w) ==
  /\ \A r \in Return : ret[r].status # "none" => ret'[r].status # "none"
  /\ \A i \in INV : lock[i] \notin {None, w} => NotRejected(i)' <= NotRejected(i)

LEMMA ReturnOthers ==
  ASSUME IInv, NEW w \in Worker, NEW v \in Worker \ {w}, Steady(v), KeepsLocks(w), ReturnSteady(w),
         \A i \in INV : NotRejected(i) \in Nat /\ NotRejected(i)' \in Nat
  PROVE  OnReturn(v)'
<1>1. v \notin {None, w} /\ OnReturn(v) /\ INV \subseteq Row /\ seen[v].n \in Int
  BY Apart DEF IInv, ReturnInv, RequestsOK, Seen, Row, Doc
<1>2. ASSUME NEW i \in INV, i = on[v], pc[v] = "createReturn" PROVE OnReturn(v)'
  <2>1. lock[i] = v /\ seen[v].n \in 1..Units /\ NotRejected(i) + seen[v].n <= Units
    BY <1>1, <1>2 DEF OnReturn
  <2>2. lock'[i] = v /\ NotRejected(i)' <= NotRejected(i)
    BY <1>1, <2>1 DEF KeepsLocks, ReturnSteady
  <2>3. NotRejected(i) \in Nat /\ NotRejected(i)' \in Nat
    OBVIOUS
  <2>4. NotRejected(i)' + seen[v].n <= Units
    BY <1>1, <2>1, <2>2, <2>3 DEF SalesAssumption
  <2> QED
    BY <1>2, <2>1, <2>2, <2>4 DEF OnReturn, Steady
<1>3. pc[v] = "createReturn" => on[v] \in INV
  BY <1>1 DEF OnReturn
<1>4. ASSUME pc[v] # "createReturn" PROVE OnReturn(v)'
  BY <1>1, <1>4 DEF OnReturn, Steady, ReturnSteady
<1> QED
  BY <1>2, <1>3, <1>4

LEMMA BroughtNat ==
  ASSUME ReturnTypes, NEW S \in SUBSET Return
  PROVE  SumOf(Brought, S) \in Nat /\ IsFiniteSet(S) /\ Nats(Brought, S) /\ Ints(Brought, S)
<1>1. IsFiniteSet(S) /\ Nats(Brought, S) /\ Ints(Brought, S)
  BY FS_Subset DEF SalesAssumption, ReturnTypes, Nats, Ints, Brought
<1> QED
  BY <1>1, SumNat

LEMMA NotRejectedNat == ASSUME ReturnTypes, NEW i PROVE NotRejected(i) \in Nat
BY BroughtNat DEF NotRejected, ReturnsAgainst

\* A step that leaves customers' returns alone.
LEMMA ReturnsUntouched ==
  ASSUME IInv, NEW w \in Worker, Passes(w), UNCHANGED returnVars, OnReturn(w)'
  PROVE  ReturnInv'
<1> USE DEF returnVars
<1>1. ReturnTypes' /\ (\A r \in Return : RefundSound(r)')
  BY DEF IInv, ReturnInv, ReturnTypes, RefundSound
<1>2. \A i \in INV : NotRejected(i)' = NotRejected(i) /\ NotRejected(i) \in Nat
  BY NotRejectedNat DEF NotRejected, Brought, ReturnsAgainst, IInv, ReturnInv
<1>3. ReturnSteady(w)
  BY <1>2 DEF ReturnSteady
<1>4. \A v \in Worker : OnReturn(v)'
  BY <1>2, <1>3, ReturnOthers DEF Passes
<1> QED
  BY <1>1, <1>2, <1>4 DEF IInv, ReturnInv
-----------------------------------------------------------------------------
(* Steps of the chain. *)

\* What EditIsWhole says of one step.
EditWhole ==
  \A d \in SO \cup PI : (Exists(d) /\ lines'[d] # lines[d]) =>
    /\ Cardinality(lines'[d]) = 1
    /\ status[d] \notin SALES_ORDER_LOCKED_STATUSES
    /\ d \in PI => status[d] = "DRAFT"

DocsKept(w) == DocSteady(w) /\ EditWhole

\* What is shown of a step of the chain.
ChainOK(w) ==
  /\ Passes(w) /\ DocsKept(w) /\ ChainInv' /\ UNCHANGED <<dispatchVars, returnVars>>
  /\ pc'[w] \notin DispatchControl \cup ReturnControl

LEMMA DocKinds ==
  /\ Estimate \in Doc /\ SO \subseteq Doc /\ PI \subseteq Doc /\ INV \subseteq Doc /\ Doc \subseteq Row
  /\ Challan \subseteq Row /\ DCReturn \subseteq Row /\ Return \subseteq Row
BY DEF Doc, Row

LEMMA NothingIsSeen == NothingSeen \in Seen
BY DEF NothingSeen, Seen, RowStatus

LEMMA ShownSeen ==
  ASSUME DocTypes, NEW d \in Doc
  PROVE  Shown(d) \in Seen /\ Shown(d).status = status[d] /\ Shown(d).lines = lines[d]
<1>1. status[d] \in RowStatus /\ lines[d] \in SUBSET Version /\ NothingSeen \in Seen
  BY NothingIsSeen DEF DocTypes
<1> QED
  BY <1>1 DEF Shown, Seen

\* A request of the chain that only reads.
LEMMA ChainRead ==
  ASSUME IInv, NEW w \in Worker, NEW p \in ChainControl, NEW x \in Row \cup {None}, NEW r \in Seen, Read(w, p, x, r),
         At(w, p, x, r) => OnDoc(w)'
  PROVE  ChainOK(w)
<1>1. Passes(w) /\ At(w, p, x, r) /\ UNCHANGED data
  BY ReadPasses DEF IInv, Control
<1>2. ChainInv' /\ DocSteady(w)
  BY <1>1, DocsUntouched DEF data
<1>3. EditWhole
  BY <1>1 DEF EditWhole, data, docVars
<1>4. p \notin DispatchControl \cup ReturnControl
  BY DEF ChainControl, DispatchControl, ReturnControl
<1> QED
  BY <1>1, <1>2, <1>3, <1>4 DEF ChainOK, DocsKept, At, data

LEMMA EstimateReads ==
  ASSUME IInv, NEW w \in Worker,
         UpdateQuotationRead(w) \/ QuotationToOrderRead(w) \/ QuotationToSaleRead(w)
  PROVE  ChainOK(w)
<1> USE DocKinds
<1>1. DocTypes /\ Versions /\ Shown(Estimate) \in Seen /\ Shown(Estimate).lines = lines[Estimate]
  BY ShownSeen DEF IInv, ChainInv
<1>2. CASE UpdateQuotationRead(w)
  <2>1. Read(w, "updateQuotation", Estimate, Shown(Estimate)) /\ ~Kept /\ mix' = mix
    BY <1>2 DEF UpdateQuotationRead, Read, Idle, Kept, data
  <2>2. At(w, "updateQuotation", Estimate, Shown(Estimate)) => OnDoc(w)'
    BY <2>1 DEF At, OnDoc, OnEstimate, OnOrder, OnProforma, OnInvoice, Kept
  <2> QED
    BY <1>1, <2>1, <2>2, ChainRead DEF ChainControl
<1>3. CASE QuotationToOrderRead(w)
  <2>1. Read(w, "quotationToOrder", Estimate, Shown(Estimate)) /\ Exists(Estimate) /\ mix' = mix
    BY <1>3 DEF QuotationToOrderRead, Convertible, Exists, Read, data
  <2>2. Kept => OneVersion(Shown(Estimate).lines)
    BY <1>1, <2>1 DEF Versions
  <2>3. At(w, "quotationToOrder", Estimate, Shown(Estimate)) => OnDoc(w)'
    BY <2>1, <2>2 DEF At, OnDoc, OnEstimate, OnOrder, OnProforma, OnInvoice, Kept, OneVersion
  <2> QED
    BY <1>1, <2>1, <2>3, ChainRead DEF ChainControl
<1>4. CASE QuotationToSaleRead(w)
  <2>1. Read(w, "quotationToSale", Estimate, Shown(Estimate))
    BY <1>4 DEF QuotationToSaleRead
  <2>2. At(w, "quotationToSale", Estimate, Shown(Estimate)) => OnDoc(w)'
    BY DEF At, OnDoc, OnEstimate, OnOrder, OnProforma, OnInvoice
  <2> QED
    BY <1>1, <2>1, <2>2, ChainRead DEF ChainControl
<1> QED
  BY <1>2, <1>3, <1>4

LEMMA CreateOrderReads ==
  ASSUME IInv, NEW w \in Worker, CreateOrderRead(w)
  PROVE  ChainOK(w)
<1> DEFINE r == [NothingSeen EXCEPT !.lines = {0}]
<1>1. Read(w, "createOrder", None, r) /\ r \in Seen /\ r.lines = {0}
  <2>1. {0} \in SUBSET Version
    BY DEF SalesAssumption, Version
  <2>2. r \in Seen /\ r.lines = {0}
    BY <2>1, NothingIsSeen DEF Seen
  <2> QED
    BY <2>2 DEF CreateOrderRead
<1>2. At(w, "createOrder", None, r) => OnDoc(w)'
  BY <1>1 DEF At, OnDoc, OnEstimate, OnOrder, OnProforma, OnInvoice
<1> HIDE DEF r
<1> QED
  BY <1>1, <1>2, ChainRead DEF ChainControl

LEMMA OrderReads ==
  ASSUME IInv, NEW w \in Worker, NEW so \in SO,
         OrderToSaleRead(w, so) \/ OrderToProformaRead(w, so)
  PROVE  ChainOK(w)
<1> USE DocKinds
<1>1. /\ DocTypes /\ Versions /\ Shown(so) \in Seen /\ Shown(so).lines = lines[so] /\ Shown(so).status = status[so]
      /\ DocTypes /\ so \in Row /\ so \in Doc /\ status[so] \in {"none"} \cup OrderStatus
  BY ShownSeen DEF IInv, ChainInv, DocTypes
<1>2. CASE OrderToSaleRead(w, so)
  <2>1. Read(w, "orderToSale", so, Shown(so)) /\ status[so] # "none" /\ status' = status
    BY <1>2 DEF OrderToSaleRead, Exists, Read, data, docVars
  <2>2. At(w, "orderToSale", so, Shown(so)) => OnDoc(w)'
    BY <2>1 DEF At, OnDoc, OnEstimate, OnOrder, OnProforma, OnInvoice
  <2> QED
    BY <1>1, <2>1, <2>2, ChainRead DEF ChainControl
<1>3. CASE OrderToProformaRead(w, so)
  <2>1. Read(w, "orderToProforma", so, Shown(so)) /\ status[so] = "CONFIRMED" /\ status' = status /\ mix' = mix
    BY <1>3 DEF OrderToProformaRead, Read, data, docVars
  <2>2. Kept => OneVersion(Shown(so).lines)
    BY <1>1, <2>1 DEF Versions, Exists
  <2>3. At(w, "orderToProforma", so, Shown(so)) => OnDoc(w)'
    BY <2>1, <2>2 DEF At, OnDoc, OnEstimate, OnOrder, OnProforma, OnInvoice, Kept, OneVersion
  <2> QED
    BY <1>1, <2>1, <2>3, ChainRead DEF ChainControl
<1> QED
  BY <1>2, <1>3

LEMMA ProformaReads ==
  ASSUME IInv, NEW w \in Worker, NEW p \in PI,
         UpdateProformaRead(w, p) \/ ProformaToInvoiceRead(w, p) \/ ProformaToOrderRead(w, p)
  PROVE  ChainOK(w)
<1> USE DocKinds
<1>1. /\ DocTypes /\ Versions /\ Shown(p) \in Seen /\ Shown(p).lines = lines[p] /\ Shown(p).status = status[p]
      /\ p \in Row
  BY ShownSeen DEF IInv, ChainInv, DocTypes
<1>2. CASE UpdateProformaRead(w, p)
  <2>1. Read(w, "updateProforma", p, Shown(p)) /\ status[p] = "DRAFT" /\ status' = status
    BY <1>2 DEF UpdateProformaRead, Read, data, docVars
  <2>2. At(w, "updateProforma", p, Shown(p)) => OnDoc(w)'
    BY <1>1, <2>1 DEF At, OnDoc, OnEstimate, OnOrder, OnProforma, OnInvoice
  <2> QED
    BY <1>1, <2>1, <2>2, ChainRead DEF ChainControl
<1>3. CASE ProformaToInvoiceRead(w, p)
  <2>1. Read(w, "proformaToInvoice", p, Shown(p)) /\ status[p] # "none" /\ status' = status
    BY <1>3 DEF ProformaToInvoiceRead, Exists, Read, data, docVars
  <2>2. At(w, "proformaToInvoice", p, Shown(p)) => OnDoc(w)'
    BY <2>1 DEF At, OnDoc, OnEstimate, OnOrder, OnProforma, OnInvoice
  <2> QED
    BY <1>1, <2>1, <2>2, ChainRead DEF ChainControl
<1>4. CASE ProformaToOrderRead(w, p)
  <2>1. Read(w, "proformaToOrder", p, Shown(p)) /\ Exists(p) /\ status[p] # "none" /\ status' = status /\ mix' = mix
    BY <1>4 DEF ProformaToOrderRead, Read, data, docVars, Exists
  <2>2. Kept => OneVersion(Shown(p).lines)
    BY <1>1, <2>1 DEF Versions
  <2>3. At(w, "proformaToOrder", p, Shown(p)) => OnDoc(w)'
    BY <2>1, <2>2 DEF At, OnDoc, OnEstimate, OnOrder, OnProforma, OnInvoice, Kept, OneVersion
  <2> QED
    BY <1>1, <2>1, <2>3, ChainRead DEF ChainControl
<1> QED
  BY <1>2, <1>3, <1>4

\* A step of the chain that ends its request, having written documents.
LEMMA ChainWrite ==
  ASSUME IInv, NEW w \in Worker, Passes(w), pc'[w] = "idle", UNCHANGED <<dispatchVars, returnVars>>,
         DocTypes', Versions', OrderThere', OnePerSource', DocsKept(w)
  PROVE  ChainOK(w)
<1>1. \A v \in Worker : OnDoc(v)'
  <2>1. OnDoc(w)'
    BY IdleRelies DEF ChainControl
  <2> QED
    BY <2>1, DocOthers DEF Passes, DocsKept
<1> QED
  BY <1>1 DEF ChainOK, ChainInv, DispatchControl, ReturnControl

LEMMA AbortUnchanged ==
  ASSUME IInv, NEW w \in Worker, Abort(w)
  PROVE  Passes(w) /\ pc'[w] = "idle" /\ UNCHANGED data
BY EndPasses DEF IInv, Abort

LEMMA ChainAbort ==
  ASSUME IInv, NEW w \in Worker, Abort(w)
  PROVE  ChainOK(w)
<1>1. Passes(w) /\ pc'[w] = "idle" /\ UNCHANGED data
  BY AbortUnchanged
<1>2. ChainInv' /\ DocSteady(w)
  BY <1>1, IdleRelies, DocsUntouched DEF data, ChainControl
<1>3. EditWhole
  BY <1>1 DEF EditWhole, data, docVars
<1> QED
  BY <1>1, <1>2, <1>3 DEF ChainOK, DocsKept, DispatchControl, ReturnControl, data

\* A document of one table is made from a document of another.
LEMMA MakeKeeps ==
  ASSUME IInv, NEW w \in Worker, NEW S \in {SO, PI, INV}, NEW d \in S, NEW s \in Doc \ S,
         status[d] = "none", Exists(s), s \in SO => lock[s] \in {None, w},
         NEW st \in RowStatus \ {"none"}, NEW t \in RowStatus \ {"none"}, Make(w, d, st, s, t), mix' = mix,
         d \notin INV /\ Kept => OneVersion(seen[w].lines)
  PROVE  /\ DocsKept(w) /\ Versions'
         /\ status' = [status EXCEPT ![d] = st, ![s] = t] /\ source' = [source EXCEPT ![d] = s]
         /\ status' \in [Doc -> RowStatus] /\ source' \in [Doc -> Row \cup {None, Key}]
         /\ lines' \in [Doc -> SUBSET Version]
         /\ \A e \in Doc \ {d, s} : status'[e] = status[e]
         /\ status'[d] = st /\ status'[s] = t
<1> USE DocKinds, Apart
<1>1. /\ DocTypes /\ Versions /\ RequestsOK /\ d \in Doc /\ s \in Row /\ d # s /\ seen[w].lines \in SUBSET Version
      /\ status \in [Doc -> RowStatus] /\ lines \in [Doc -> SUBSET Version] /\ source \in [Doc -> Row \cup {None, Key}]
  BY DEF IInv, ChainInv, DocTypes, RequestsOK, Seen
<1>2. /\ status' = [status EXCEPT ![d] = st, ![s] = t] /\ source' = [source EXCEPT ![d] = s]
      /\ lines' = [lines EXCEPT ![d] = seen[w].lines]
  BY DEF Make
<1>3. /\ status' \in [Doc -> RowStatus] /\ source' \in [Doc -> Row \cup {None, Key}]
      /\ lines' \in [Doc -> SUBSET Version]
      /\ \A e \in Doc \ {d, s} : status'[e] = status[e]
      /\ status'[d] = st /\ status'[s] = t
      /\ \A e \in Doc \ {d} : source'[e] = source[e] /\ lines'[e] = lines[e]
      /\ lines'[d] = seen[w].lines
  BY <1>1, <1>2
<1>4. DocSteady(w)
  <2>1. \A e \in Doc : status[e] # "none" => status'[e] # "none"
    BY <1>3
  <2>2. \A i \in INV : status[i] # "none" => source'[i] = source[i]
    BY <1>3
  <2>3. ASSUME NEW so \in SO, lock[so] \notin {None, w}, status[so] # "none"
        PROVE  status'[so] = status[so] /\ lines'[so] = lines[so]
    BY <1>3, <2>3
  <2> QED
    BY <2>1, <2>2, <2>3 DEF DocSteady
<1>5. EditWhole
  BY <1>3 DEF EditWhole, Exists
<1>6. Versions'
  BY <1>1, <1>3 DEF Versions, Exists, Kept, OneVersion
<1> QED
  BY <1>2, <1>3, <1>4, <1>5, <1>6 DEF DocsKept

\* A source that is written keeps the unique columns unique.
LEMMA OneMore ==
  ASSUME DocTypes, OnePerSource, NEW d \in SO \cup PI \cup INV, NEW x, source' = [source EXCEPT ![d] = x],
         d \in SO => Unique(SO, x), d \in PI => Unique(PI, x), d \in INV => x \notin SO \/ Unique(INV, x),
         \A p \in PI, so \in SO : source'[p] = so => proforma'[so] = p
  PROVE  OnePerSource'
<1> USE DocKinds, Apart
<1>1. source'[d] = x /\ \A e \in Doc \ {d} : source'[e] = source[e]
  BY DEF DocTypes
<1>2. \A so, to \in SO : source'[so] = source'[to] /\ source'[so] # None => so = to
  BY <1>1 DEF OnePerSource, Unique
<1>3. \A p, q \in PI : source'[p] = source'[q] /\ source'[p] # None => p = q
  BY <1>1 DEF OnePerSource, Unique
<1>4. \A i, j \in INV : source'[i] = source'[j] /\ source'[i] \in SO => i = j
  BY <1>1 DEF OnePerSource, Unique
<1> QED
  BY <1>2, <1>3, <1>4 DEF OnePerSource

\* Documents exist until they are deleted, and only estimates are.
LEMMA NotDeleted ==
  ASSUME DocTypes, NEW d \in SO \cup PI \cup INV
  PROVE  (Exists(d) <=> status[d] # "none")
BY DEF DocTypes, Exists, OrderStatus, ProformaStatus, InvoiceStatus

LEMMA FreeIn == ASSUME NEW S, Free(S) # {} PROVE First(Free(S)) \in S /\ status[First(Free(S))] = "none"
BY FirstIn DEF Free

LEMMA QuotationToOrder ==
  ASSUME IInv, NEW w \in Worker, QuotationToOrderWrite(w)
  PROVE  ChainOK(w)
<1> USE DocKinds, Apart
<1>1. CASE ~Exists(Estimate) \/ ~Unique(SO, Estimate) \/ Free(SO) = {}
  BY <1>1, ChainAbort DEF QuotationToOrderWrite
<1>2. CASE Exists(Estimate) /\ Unique(SO, Estimate) /\ Free(SO) # {}
  <2> DEFINE so == First(Free(SO))
  <2>1. /\ so \in SO /\ status[so] = "none" /\ Make(w, so, "DRAFT", Estimate, "CONVERTED")
        /\ converted' = [converted EXCEPT ![Estimate] = so] /\ End(w) /\ UNCHANGED <<proforma, edits>>
        /\ UNCHANGED <<mix, dispatchVars, returnVars>> /\ (Kept => OneVersion(seen[w].lines))
    BY <1>2, FreeIn DEF QuotationToOrderWrite, UnchangedElse, IInv, ChainInv, OnDoc, OnEstimate
  <2>2. RequestsOK /\ DocTypes /\ OnePerSource /\ OrderThere
    BY DEF IInv, ChainInv
  <2> HIDE DEF so
  <2>3. Passes(w) /\ pc'[w] = "idle"
    BY <2>1, <2>2, EndPasses
  <2>4. /\ DocsKept(w) /\ Versions' /\ source' = [source EXCEPT ![so] = Estimate]
        /\ status' \in [Doc -> RowStatus] /\ source' \in [Doc -> Row \cup {None, Key}]
        /\ lines' \in [Doc -> SUBSET Version]
        /\ \A e \in Doc \ {so, Estimate} : status'[e] = status[e]
        /\ status'[so] = "DRAFT" /\ status'[Estimate] = "CONVERTED"
    <3>1. Estimate \in Doc \ SO /\ "DRAFT" \in RowStatus /\ "CONVERTED" \in RowStatus
      BY DEF RowStatus, EstimateStatus
    <3> QED
      BY <1>2, <2>1, <3>1, MakeKeeps
  <2>5. DocTypes'
    BY <2>1, <2>2, <2>4 DEF DocTypes, EstimateStatus, OrderStatus
  <2>6. \A p \in PI : source'[p] = source[p]
    BY <2>1, <2>2, <2>4 DEF DocTypes
  <2>7. OnePerSource'
    BY <1>2, <2>1, <2>2, <2>4, <2>6, OneMore DEF OnePerSource
  <2>8. OrderThere'
    BY <2>1, <2>2, <2>4, <2>6 DEF OrderThere, DocsKept, DocSteady
  <2> QED
    BY <2>1, <2>3, <2>4, <2>5, <2>7, <2>8, ChainWrite
<1> QED
  BY <1>1, <1>2

LEMMA QuotationToSale ==
  ASSUME IInv, NEW w \in Worker, QuotationToSaleWrite(w)
  PROVE  ChainOK(w)
<1> USE DocKinds, Apart
<1>1. CASE ~Exists(Estimate) \/ Free(INV) = {}
  BY <1>1, ChainAbort DEF QuotationToSaleWrite
<1>2. CASE Exists(Estimate) /\ Free(INV) # {}
  <2> DEFINE i == First(Free(INV))
  <2>1. /\ i \in INV /\ status[i] = "none" /\ Make(w, i, "PENDING", Estimate, "CONVERTED")
        /\ converted' = [converted EXCEPT ![Estimate] = i] /\ End(w) /\ UNCHANGED <<proforma, edits>>
        /\ UNCHANGED <<mix, dispatchVars, returnVars>>
    BY <1>2, FreeIn DEF QuotationToSaleWrite, UnchangedElse
  <2>2. RequestsOK /\ DocTypes /\ OnePerSource /\ OrderThere
    BY DEF IInv, ChainInv
  <2> HIDE DEF i
  <2>3. Passes(w) /\ pc'[w] = "idle"
    BY <2>1, <2>2, EndPasses
  <2>4. /\ DocsKept(w) /\ Versions' /\ source' = [source EXCEPT ![i] = Estimate]
        /\ status' \in [Doc -> RowStatus] /\ source' \in [Doc -> Row \cup {None, Key}]
        /\ lines' \in [Doc -> SUBSET Version]
        /\ \A e \in Doc \ {i, Estimate} : status'[e] = status[e]
        /\ status'[i] = "PENDING" /\ status'[Estimate] = "CONVERTED"
    <3>1. Estimate \in Doc \ INV /\ i \notin SO \cup PI /\ "PENDING" \in RowStatus /\ "CONVERTED" \in RowStatus
      BY <2>1 DEF RowStatus, EstimateStatus, InvoiceStatus
    <3> QED
      BY <1>2, <2>1, <3>1, MakeKeeps
  <2>5. DocTypes'
    BY <2>1, <2>2, <2>4 DEF DocTypes, EstimateStatus, InvoiceStatus
  <2>6. \A p \in PI : source'[p] = source[p]
    BY <2>1, <2>2, <2>4 DEF DocTypes
  <2>7. OnePerSource'
    BY <2>1, <2>2, <2>4, <2>6, OneMore DEF OnePerSource
  <2>8. OrderThere'
    BY <2>1, <2>2, <2>4, <2>6 DEF OrderThere, DocsKept, DocSteady
  <2> QED
    BY <2>1, <2>3, <2>4, <2>5, <2>7, <2>8, ChainWrite
<1> QED
  BY <1>1, <1>2

LEMMA OrderToSale ==
  ASSUME IInv, NEW w \in Worker, OrderToSaleWrite(w)
  PROVE  ChainOK(w)
<1> USE DocKinds, Apart
<1>1. CASE ~Unique(INV, on[w]) \/ Free(INV) = {}
  BY <1>1, ChainAbort DEF OrderToSaleWrite
<1>2. CASE Unique(INV, on[w]) /\ Free(INV) # {}
  <2>0. PICK so \in SO : so = on[w] /\ status[so] # "none"
    BY DEF OrderToSaleWrite, IInv, ChainInv, OnDoc, OnOrder
  <2> DEFINE i == First(Free(INV))
  <2>1. /\ i \in INV /\ status[i] = "none" /\ Make(w, i, "PENDING", so, "DELIVERED")
        /\ converted' = [converted EXCEPT ![so] = i] /\ End(w) /\ UNCHANGED <<proforma, edits>>
        /\ UNCHANGED <<mix, dispatchVars, returnVars>> /\ lock[so] \in {None, w} /\ Unique(INV, so)
    BY <1>2, <2>0, FreeIn DEF OrderToSaleWrite, UnchangedElse, AtRow
  <2>2. RequestsOK /\ DocTypes /\ OnePerSource /\ OrderThere /\ Exists(so)
    BY <2>0, NotDeleted DEF IInv, ChainInv
  <2> HIDE DEF i
  <2>3. Passes(w) /\ pc'[w] = "idle"
    BY <2>1, <2>2, EndPasses
  <2>4. /\ DocsKept(w) /\ Versions' /\ source' = [source EXCEPT ![i] = so]
        /\ status' \in [Doc -> RowStatus] /\ source' \in [Doc -> Row \cup {None, Key}]
        /\ lines' \in [Doc -> SUBSET Version]
        /\ \A e \in Doc \ {i, so} : status'[e] = status[e]
        /\ status'[i] = "PENDING" /\ status'[so] = "DELIVERED"
    <3>1. so \in Doc \ INV /\ i \notin SO \cup PI /\ "PENDING" \in RowStatus /\ "DELIVERED" \in RowStatus
      BY <2>1 DEF RowStatus, OrderStatus, InvoiceStatus
    <3> QED
      BY <2>1, <2>2, <3>1, MakeKeeps
  <2>5. DocTypes'
    BY <2>1, <2>2, <2>4 DEF DocTypes, OrderStatus, InvoiceStatus
  <2>6. \A p \in PI : source'[p] = source[p]
    BY <2>1, <2>2, <2>4 DEF DocTypes
  <2>7. OnePerSource'
    <3>1. i \in SO \cup PI \cup INV /\ i \notin SO /\ i \notin PI
      BY <2>1
    <3>2. \A p \in PI, to \in SO : source'[p] = to => proforma'[to] = p
      BY <2>1, <2>2, <2>6 DEF OnePerSource
    <3> QED
      BY <2>1, <2>2, <2>4, <3>1, <3>2, OneMore
  <2>8. OrderThere'
    BY <2>1, <2>2, <2>4, <2>6 DEF OrderThere, DocsKept, DocSteady
  <2> QED
    BY <2>1, <2>3, <2>4, <2>5, <2>7, <2>8, ChainWrite
<1> QED
  BY <1>1, <1>2

LEMMA OrderToProforma ==
  ASSUME IInv, NEW w \in Worker, OrderToProformaWrite(w)
  PROVE  ChainOK(w)
<1> USE DocKinds, Apart
<1>1. CASE ~Unique(PI, on[w]) \/ Free(PI) = {}
  BY <1>1, ChainAbort DEF OrderToProformaWrite
<1>2. CASE Unique(PI, on[w]) /\ Free(PI) # {}
  <2>0. PICK so \in SO : so = on[w] /\ status[so] # "none" /\ (Kept => OneVersion(seen[w].lines))
    BY DEF OrderToProformaWrite, IInv, ChainInv, OnDoc, OnOrder, OnEstimate
  <2> DEFINE p == First(Free(PI))
  <2>1. /\ p \in PI /\ status[p] = "none" /\ Make(w, p, "DRAFT", so, "PROCESSING")
        /\ proforma' = [proforma EXCEPT ![so] = p] /\ End(w) /\ UNCHANGED <<converted, edits>>
        /\ UNCHANGED <<mix, dispatchVars, returnVars>> /\ lock[so] \in {None, w} /\ Unique(PI, so)
    BY <1>2, <2>0, FreeIn DEF OrderToProformaWrite, UnchangedElse, AtRow
  <2>2. RequestsOK /\ DocTypes /\ OnePerSource /\ OrderThere /\ Exists(so)
    BY <2>0, NotDeleted DEF IInv, ChainInv
  <2> HIDE DEF p
  <2>3. Passes(w) /\ pc'[w] = "idle"
    BY <2>1, <2>2, EndPasses
  <2>4. /\ DocsKept(w) /\ Versions' /\ source' = [source EXCEPT ![p] = so]
        /\ status' \in [Doc -> RowStatus] /\ source' \in [Doc -> Row \cup {None, Key}]
        /\ lines' \in [Doc -> SUBSET Version]
        /\ \A e \in Doc \ {p, so} : status'[e] = status[e]
        /\ status'[p] = "DRAFT" /\ status'[so] = "PROCESSING"
    <3>1. so \in Doc \ PI /\ "DRAFT" \in RowStatus /\ "PROCESSING" \in RowStatus
      BY DEF RowStatus, OrderStatus
    <3> QED
      BY <2>0, <2>1, <2>2, <3>1, MakeKeeps
  <2>5. DocTypes'
    BY <2>1, <2>2, <2>4 DEF DocTypes, OrderStatus, ProformaStatus
  <2>6. source'[p] = so /\ \A q \in PI \ {p} : source'[q] = source[q] /\ source[q] # so
    BY <2>1, <2>2, <2>4 DEF DocTypes, Unique
  <2>7. OnePerSource'
    <3>1. p \in SO \cup PI \cup INV /\ p \notin SO /\ p \notin INV
      BY <2>1
    <3>2. \A q \in PI, to \in SO : source'[q] = to => proforma'[to] = q
      BY <2>1, <2>2, <2>6 DEF OnePerSource, DocTypes
    <3> QED
      BY <2>1, <2>2, <2>4, <3>1, <3>2, OneMore
  <2>8. OrderThere'
    BY <2>1, <2>2, <2>4, <2>6 DEF OrderThere, DocsKept, DocSteady
  <2> QED
    BY <2>1, <2>3, <2>4, <2>5, <2>7, <2>8, ChainWrite
<1> QED
  BY <1>1, <1>2

LEMMA ProformaToInvoice ==
  ASSUME IInv, NEW w \in Worker, ProformaToInvoiceWrite(w)
  PROVE  ChainOK(w)
<1> USE DocKinds, Apart
<1>1. CASE Free(INV) = {}
  BY <1>1, ChainAbort DEF ProformaToInvoiceWrite
<1>2. CASE Free(INV) # {}
  <2>0. PICK p \in PI : p = on[w] /\ status[p] # "none"
    BY DEF ProformaToInvoiceWrite, IInv, ChainInv, OnDoc, OnProforma
  <2> DEFINE i == First(Free(INV))
  <2>1. /\ i \in INV /\ status[i] = "none" /\ Make(w, i, "PENDING", p, "CONVERTED")
        /\ converted' = [converted EXCEPT ![p] = i] /\ End(w) /\ UNCHANGED <<proforma, edits>>
        /\ UNCHANGED <<mix, dispatchVars, returnVars>>
    BY <1>2, <2>0, FreeIn DEF ProformaToInvoiceWrite, UnchangedElse
  <2>2. RequestsOK /\ DocTypes /\ OnePerSource /\ OrderThere /\ Exists(p)
    BY <2>0, NotDeleted DEF IInv, ChainInv
  <2> HIDE DEF i
  <2>3. Passes(w) /\ pc'[w] = "idle"
    BY <2>1, <2>2, EndPasses
  <2>4. /\ DocsKept(w) /\ Versions' /\ source' = [source EXCEPT ![i] = p]
        /\ status' \in [Doc -> RowStatus] /\ source' \in [Doc -> Row \cup {None, Key}]
        /\ lines' \in [Doc -> SUBSET Version]
        /\ \A e \in Doc \ {i, p} : status'[e] = status[e]
        /\ status'[i] = "PENDING" /\ status'[p] = "CONVERTED"
    <3>1. p \in Doc \ INV /\ p \notin SO /\ i \notin SO \cup PI /\ "PENDING" \in RowStatus /\ "CONVERTED" \in RowStatus
      BY <2>1 DEF RowStatus, ProformaStatus, InvoiceStatus
    <3> QED
      BY <2>1, <2>2, <3>1, MakeKeeps
  <2>5. DocTypes'
    BY <2>1, <2>2, <2>4 DEF DocTypes, ProformaStatus, InvoiceStatus
  <2>6. \A q \in PI : source'[q] = source[q]
    BY <2>1, <2>2, <2>4 DEF DocTypes
  <2>7. OnePerSource'
    <3>1. i \in SO \cup PI \cup INV /\ i \notin SO /\ i \notin PI /\ p \notin SO
      BY <2>1
    <3>2. \A q \in PI, to \in SO : source'[q] = to => proforma'[to] = q
      BY <2>1, <2>2, <2>6 DEF OnePerSource
    <3> QED
      BY <2>1, <2>2, <2>4, <3>1, <3>2, OneMore
  <2>8. OrderThere'
    BY <2>1, <2>2, <2>4, <2>6 DEF OrderThere, DocsKept, DocSteady
  <2> QED
    BY <2>1, <2>3, <2>4, <2>5, <2>7, <2>8, ChainWrite
<1> QED
  BY <1>1, <1>2

LEMMA ProformaToOrder ==
  ASSUME IInv, NEW w \in Worker, ProformaToOrderWrite(w)
  PROVE  ChainOK(w)
<1> USE DocKinds, Apart
<1>1. CASE ~Unique(SO, on[w]) \/ OrderOf(on[w]) # {} \/ Free(SO) = {}
  BY <1>1, ChainAbort DEF ProformaToOrderWrite
<1>2. CASE Unique(SO, on[w]) /\ OrderOf(on[w]) = {} /\ Free(SO) # {}
  <2>0. PICK p \in PI : p = on[w] /\ status[p] # "none" /\ (Kept => OneVersion(seen[w].lines))
    BY DEF ProformaToOrderWrite, IInv, ChainInv, OnDoc, OnProforma, OnEstimate
  <2> DEFINE so == First(Free(SO))
  <2>1. /\ so \in SO /\ status[so] = "none" /\ Make(w, so, "CONFIRMED", p, "CONVERTED")
        /\ proforma' = [proforma EXCEPT ![so] = p] /\ End(w) /\ UNCHANGED <<converted, edits>>
        /\ UNCHANGED <<mix, dispatchVars, returnVars>> /\ Unique(SO, p)
    BY <1>2, <2>0, FreeIn DEF ProformaToOrderWrite, UnchangedElse
  <2>2. RequestsOK /\ DocTypes /\ OnePerSource /\ OrderThere /\ Exists(p)
    BY <2>0, NotDeleted DEF IInv, ChainInv
  <2> HIDE DEF so
  <2>3. Passes(w) /\ pc'[w] = "idle"
    BY <2>1, <2>2, EndPasses
  <2>4. /\ DocsKept(w) /\ Versions' /\ source' = [source EXCEPT ![so] = p]
        /\ status' \in [Doc -> RowStatus] /\ source' \in [Doc -> Row \cup {None, Key}]
        /\ lines' \in [Doc -> SUBSET Version]
        /\ \A e \in Doc \ {so, p} : status'[e] = status[e]
        /\ status'[so] = "CONFIRMED" /\ status'[p] = "CONVERTED"
    <3>1. p \in Doc \ SO /\ "CONFIRMED" \in RowStatus /\ "CONVERTED" \in RowStatus
      BY DEF RowStatus, OrderStatus, ProformaStatus
    <3> QED
      BY <2>0, <2>1, <2>2, <3>1, MakeKeeps
  <2>5. DocTypes'
    BY <2>1, <2>2, <2>4 DEF DocTypes, OrderStatus, ProformaStatus
  <2>6. \A q \in PI : source'[q] = source[q] /\ source[q] # so
    BY <2>1, <2>2, <2>4 DEF DocTypes, OrderThere
  <2>7. OnePerSource'
    <3>1. so \in SO \cup PI \cup INV /\ so \notin PI /\ so \notin INV
      BY <2>1
    <3>2. \A q \in PI, to \in SO : source'[q] = to => proforma'[to] = q
      BY <2>1, <2>2, <2>6 DEF OnePerSource, DocTypes
    <3> QED
      BY <2>1, <2>2, <2>4, <3>1, <3>2, OneMore
  <2>8. OrderThere'
    BY <2>1, <2>2, <2>4, <2>6 DEF OrderThere, DocsKept, DocSteady
  <2> QED
    BY <2>1, <2>3, <2>4, <2>5, <2>7, <2>8, ChainWrite
<1> QED
  BY <1>1, <1>2

\* A write of the lines or the status of one document that leaves sources alone.
LEMMA EditKeeps ==
  ASSUME IInv, NEW w \in Worker, NEW d \in Doc, NEW st \in RowStatus \ {"none"}, NEW l \in SUBSET Version, NEW e \in Version,
         status' = [status EXCEPT ![d] = st], lines' = [lines EXCEPT ![d] = l], edits' = e,
         UNCHANGED <<mix, source, converted, proforma>>,
         d = Estimate => st \in {"deleted"} \cup EstimateStatus, d \in SO => st \in OrderStatus,
         d \in PI => st \in ProformaStatus, d \in INV => st \in InvoiceStatus,
         d \in SO /\ status[d] # "none" => lock[d] \in {None, w},
         d \notin INV /\ st # "deleted" /\ Kept => OneVersion(l),
         Exists(d) /\ d \in SO \cup PI /\ l # lines[d] =>
           /\ OneVersion(l) /\ status[d] \notin SALES_ORDER_LOCKED_STATUSES /\ (d \in PI => status[d] = "DRAFT")
  PROVE  DocTypes' /\ Versions' /\ OrderThere' /\ OnePerSource' /\ DocsKept(w)
<1> USE DocKinds, Apart
<1>1. DocTypes /\ Versions /\ OrderThere /\ OnePerSource
  BY DEF IInv, ChainInv
<1>2. /\ status'[d] = st /\ lines'[d] = l /\ status' \in [Doc -> RowStatus] /\ lines' \in [Doc -> SUBSET Version]
      /\ \A x \in Doc \ {d} : status'[x] = status[x] /\ lines'[x] = lines[x]
  BY <1>1 DEF DocTypes
<1>3. DocTypes'
  <2>1. status'[Estimate] \in {"none", "deleted"} \cup EstimateStatus
    BY <1>1, <1>2 DEF DocTypes
  <2>2. \A so \in SO : status'[so] \in {"none"} \cup OrderStatus
    BY <1>1, <1>2 DEF DocTypes
  <2>3. \A p \in PI : status'[p] \in {"none"} \cup ProformaStatus
    BY <1>1, <1>2 DEF DocTypes
  <2>4. \A i \in INV : status'[i] \in {"none"} \cup InvoiceStatus
    BY <1>1, <1>2 DEF DocTypes
  <2> QED
    BY <1>1, <1>2, <2>1, <2>2, <2>3, <2>4 DEF DocTypes
<1>4. Versions'
  <2> SUFFICES ASSUME Kept, NEW x \in {Estimate} \cup SO \cup PI, Exists(x)' PROVE OneVersion(lines'[x])
    BY DEF Versions, Kept, OneVersion
  <2>1. CASE x = d
    <3>1. st # "deleted" /\ d \notin INV
      BY <1>2, <2>1 DEF Exists
    <3> QED
      BY <1>2, <2>1, <3>1
  <2>2. CASE x # d
    BY <1>1, <1>2, <2>2 DEF Exists, Versions
  <2> QED
    BY <2>1, <2>2
<1>5. OrderThere' /\ OnePerSource'
  BY <1>1, <1>2 DEF OrderThere, OnePerSource
<1>6. DocSteady(w)
  BY <1>1, <1>2 DEF DocSteady
<1>7. EditWhole
  <2> SUFFICES ASSUME NEW x \in SO \cup PI, Exists(x), lines'[x] # lines[x]
               PROVE  /\ Cardinality(lines'[x]) = 1 /\ status[x] \notin SALES_ORDER_LOCKED_STATUSES
                      /\ x \in PI => status[x] = "DRAFT"
    BY DEF EditWhole
  <2>1. x = d
    BY <1>2
  <2>2. PICK k : l = {k}
    BY <1>2, <2>1 DEF OneVersion
  <2>3. Cardinality(l) = 1
    BY <2>2, FS_Singleton
  <2> QED
    BY <1>2, <2>1, <2>3
<1> QED
  BY <1>3, <1>4, <1>5, <1>6, <1>7 DEF DocsKept

LEMMA VersionNext ==
  ASSUME DocTypes, edits # MaxEdits
  PROVE  edits + 1 \in Version
BY DEF DocTypes, Version, SalesAssumption

\* The lines of a document that nobody changed since they were read.
LEMMA ReplacedAll ==
  ASSUME DocTypes, NEW w, NEW d \in Doc, seen[w].lines = lines[d]
  PROVE  Replaced(w, d) = [lines EXCEPT ![d] = {edits + 1}]
<1>1. (lines[d] \ seen[w].lines) \cup {edits + 1} = {edits + 1}
  OBVIOUS
<1> QED
  BY <1>1 DEF Replaced, DocTypes

LEMMA CreateDocs ==
  ASSUME IInv, NEW w \in Worker, CreateQuotation(w) \/ DeleteQuotation(w) \/ CreateProforma(w)
  PROVE  ChainOK(w)
<1> USE DocKinds, Apart
<1>1. /\ Passes(w) /\ pc'[w] = "idle" /\ UNCHANGED <<mix, source, converted, proforma, edits, dispatchVars, returnVars>>
  BY StayPasses DEF CreateQuotation, DeleteQuotation, CreateProforma, Idle, UnchangedElse, IInv
<1>2. DocTypes /\ edits \in Version /\ {0} \in SUBSET Version /\ OneVersion({0})
  BY DEF IInv, ChainInv, DocTypes, Version, OneVersion, SalesAssumption
<1>3. CASE CreateQuotation(w)
  <2>1. status' = [status EXCEPT ![Estimate] = "DRAFT"] /\ lines' = [lines EXCEPT ![Estimate] = {0}]
    BY <1>3 DEF CreateQuotation
  <2>2. DocTypes' /\ Versions' /\ OrderThere' /\ OnePerSource' /\ DocsKept(w)
    BY <1>1, <1>2, <2>1, EditKeeps DEF RowStatus, EstimateStatus
  <2> QED
    BY <1>1, <2>2, ChainWrite
<1>4. CASE DeleteQuotation(w)
  <2>1. status' = [status EXCEPT ![Estimate] = "deleted"] /\ lines' = [lines EXCEPT ![Estimate] = {}]
    BY <1>4 DEF DeleteQuotation
  <2>2. DocTypes' /\ Versions' /\ OrderThere' /\ OnePerSource' /\ DocsKept(w)
    BY <1>1, <1>2, <2>1, EditKeeps DEF RowStatus
  <2> QED
    BY <1>1, <2>2, ChainWrite
<1>5. CASE CreateProforma(w)
  <2>1. PICK p \in PI, st \in {"DRAFT", "SENT"} :
          /\ status[p] = "none" /\ status' = [status EXCEPT ![p] = st] /\ lines' = [lines EXCEPT ![p] = {0}]
    BY <1>5, FreeIn DEF CreateProforma
  <2>2. DocTypes' /\ Versions' /\ OrderThere' /\ OnePerSource' /\ DocsKept(w)
    BY <1>1, <1>2, <2>1, EditKeeps DEF RowStatus, ProformaStatus, Exists
  <2> QED
    BY <1>1, <2>2, ChainWrite
<1> QED
  BY <1>3, <1>4, <1>5

LEMMA UpdateQuotation ==
  ASSUME IInv, NEW w \in Worker, UpdateQuotationWrite(w)
  PROVE  ChainOK(w)
<1> USE DocKinds, Apart
<1>1. CASE ~Exists(Estimate) \/ edits = MaxEdits
  BY <1>1, ChainAbort DEF UpdateQuotationWrite
<1>2. CASE Exists(Estimate) /\ edits # MaxEdits
  <2> DEFINE l == (lines[Estimate] \ seen[w].lines) \cup {edits + 1}
  <2>1. PICK st \in {status[Estimate], "SENT"} :
          /\ status' = [status EXCEPT ![Estimate] = st] /\ lines' = [lines EXCEPT ![Estimate] = l]
          /\ edits' = edits + 1 /\ UNCHANGED <<mix, source, converted, proforma, dispatchVars, returnVars>>
          /\ End(w) /\ ~Kept
    BY <1>2 DEF UpdateQuotationWrite, UnchangedElse, Replaced, IInv, ChainInv, OnDoc, OnEstimate
  <2>2. RequestsOK /\ DocTypes /\ edits + 1 \in Version
    BY <1>2, VersionNext DEF IInv, ChainInv
  <2>3. l \in SUBSET Version
    BY <2>2 DEF DocTypes
  <2>4. st \in EstimateStatus /\ st \in RowStatus \ {"none"}
    BY <1>2, <2>1, <2>2 DEF DocTypes, Exists, EstimateStatus, RowStatus
  <2> HIDE DEF l
  <2>5. DocTypes' /\ Versions' /\ OrderThere' /\ OnePerSource' /\ DocsKept(w)
    BY <2>1, <2>2, <2>3, <2>4, EditKeeps
  <2> QED
    BY <2>1, <2>2, <2>5, EndPasses, ChainWrite
<1> QED
  BY <1>1, <1>2

LEMMA CreateOrder ==
  ASSUME IInv, NEW w \in Worker, CreateOrderWrite(w)
  PROVE  ChainOK(w)
<1> USE DocKinds, Apart
<1>1. CASE ~Unique(SO, Key) \/ Free(SO) = {}
  BY <1>1, ChainAbort DEF CreateOrderWrite
<1>2. CASE Unique(SO, Key) /\ Free(SO) # {}
  <2> DEFINE so == First(Free(SO))
  <2>1. /\ so \in SO /\ status[so] = "none" /\ status' = [status EXCEPT ![so] = "DRAFT"]
        /\ source' = [source EXCEPT ![so] = Key] /\ lines' = [lines EXCEPT ![so] = {0}] /\ End(w)
        /\ UNCHANGED <<converted, proforma, edits>> /\ UNCHANGED <<mix, dispatchVars, returnVars>>
    BY <1>2, FreeIn DEF CreateOrderWrite, UnchangedElse, IInv, ChainInv, OnDoc, OnEstimate
  <2> HIDE DEF so
  <2>2. RequestsOK /\ DocTypes /\ Versions /\ OnePerSource /\ OrderThere /\ {0} \in SUBSET Version /\ OneVersion({0})
    BY DEF IInv, ChainInv, Version, OneVersion, SalesAssumption
  <2>3. Passes(w) /\ pc'[w] = "idle"
    BY <2>1, <2>2, EndPasses
  <2>4. /\ status'[so] = "DRAFT" /\ lines'[so] = {0} /\ source'[so] = Key
        /\ status' \in [Doc -> RowStatus] /\ source' \in [Doc -> Row \cup {None, Key}]
        /\ lines' \in [Doc -> SUBSET Version]
        /\ \A e \in Doc \ {so} : status'[e] = status[e] /\ source'[e] = source[e] /\ lines'[e] = lines[e]
    BY <2>1, <2>2 DEF DocTypes, RowStatus, OrderStatus
  <2>5. DocTypes'
    BY <2>1, <2>2, <2>4 DEF DocTypes, OrderStatus
  <2>6. OnePerSource'
    <3>1. so \in SO \cup PI \cup INV /\ so \notin PI /\ so \notin INV
      BY <2>1
    <3>2. \A q \in PI, to \in SO : source'[q] = to => proforma'[to] = q
      BY <2>1, <2>2, <2>4 DEF OnePerSource
    <3> QED
      BY <1>2, <2>1, <2>2, <3>1, <3>2, OneMore
  <2>7. OrderThere'
    BY <2>1, <2>2, <2>4 DEF OrderThere
  <2>8. Versions'
    BY <2>1, <2>2, <2>4 DEF Versions, Kept, Exists, OneVersion
  <2>9. DocsKept(w)
    <3>1. DocSteady(w)
      BY <2>1, <2>4 DEF DocSteady
    <3>2. EditWhole
      BY <2>1, <2>4 DEF EditWhole, Exists
    <3> QED
      BY <3>1, <3>2 DEF DocsKept
  <2> QED
    BY <2>1, <2>3, <2>5, <2>6, <2>7, <2>8, <2>9, ChainWrite
<1> QED
  BY <1>1, <1>2

LEMMA Transitions ==
  /\ \A s \in OrderStatus : SALES_ORDER_TRANSITIONS[s] \subseteq OrderStatus
  /\ \A s \in ProformaStatus : PROFORMA_TRANSITIONS[s] \subseteq ProformaStatus
BY DEF SALES_ORDER_TRANSITIONS, PROFORMA_TRANSITIONS, OrderStatus, ProformaStatus

LEMMA UpdateOrderLocks ==
  ASSUME IInv, NEW w \in Worker, NEW so \in SO, UpdateOrderLock(w, so)
  PROVE  ChainOK(w)
<1> USE DocKinds
<1>1. /\ RequestsOK /\ DocTypes /\ Shown(so) \in Seen /\ Shown(so).lines = lines[so] /\ Shown(so).status = status[so]
      /\ so \in Row /\ status[so] # "none" /\ status[so] \notin SALES_ORDER_LOCKED_STATUSES
      /\ Lock(w, {so}) /\ Go(w, "updateOrder", so, Shown(so)) /\ UNCHANGED data
  BY ShownSeen DEF IInv, ChainInv, UpdateOrderLock, OrderRows, Exists
<1>2. Passes(w) /\ At(w, "updateOrder", so, Shown(so)) /\ lock'[so] = w
  BY <1>1, LockPasses DEF Control, ChainControl
<1>3. OnDoc(w)'
  BY <1>1, <1>2 DEF At, OnDoc, OnEstimate, OnOrder, OnProforma, OnInvoice, data, docVars
<1>4. ChainInv' /\ DocSteady(w)
  BY <1>1, <1>2, <1>3, DocsUntouched DEF data
<1>5. EditWhole
  BY <1>1 DEF EditWhole, data, docVars
<1> QED
  BY <1>1, <1>2, <1>4, <1>5 DEF ChainOK, DocsKept, At, data, DispatchControl, ReturnControl

LEMMA UpdateOrder ==
  ASSUME IInv, NEW w \in Worker, UpdateOrderWrite(w)
  PROVE  ChainOK(w)
<1> USE DocKinds, Apart
<1>1. PICK so \in SO :
        /\ so = on[w] /\ status[so] # "none" /\ lock[so] = w /\ status[so] = seen[w].status
        /\ lines[so] = seen[w].lines /\ status[so] \notin SALES_ORDER_LOCKED_STATUSES
  BY DEF UpdateOrderWrite, IInv, ChainInv, OnDoc, OnOrder
<1>2. /\ RequestsOK /\ DocTypes /\ Versions /\ Exists(so) /\ status[so] \in OrderStatus
      /\ SALES_ORDER_TRANSITIONS[status[so]] \subseteq OrderStatus /\ edits \in Version
  BY <1>1, NotDeleted, Transitions DEF IInv, ChainInv, DocTypes
<1>3. /\ End(w) /\ UNCHANGED <<mix, source, converted, proforma, dispatchVars, returnVars>>
      /\ \/ /\ \E st \in SALES_ORDER_TRANSITIONS[status[so]] : status' = [status EXCEPT ![so] = st]
            /\ UNCHANGED <<lines, edits>>
         \/ /\ edits < MaxEdits /\ lines' = Replaced(w, so) /\ edits' = edits + 1
            /\ \E st \in SALES_ORDER_TRANSITIONS[status[so]] \cup {status[so]} : status' = [status EXCEPT ![so] = st]
  BY <1>1 DEF UpdateOrderWrite, UnchangedElse
<1>4. PICK st \in OrderStatus : status' = [status EXCEPT ![so] = st]
  BY <1>2, <1>3
<1>5. st \in RowStatus \ {"none"} /\ st # "deleted"
  BY DEF OrderStatus, RowStatus
<1>6. DocTypes' /\ Versions' /\ OrderThere' /\ OnePerSource' /\ DocsKept(w)
  <2>1. CASE UNCHANGED <<lines, edits>>
    <3>1. lines' = [lines EXCEPT ![so] = lines[so]] /\ lines[so] \in SUBSET Version /\ edits' = edits
      BY <1>2, <2>1 DEF DocTypes
    <3>2. Kept => OneVersion(lines[so])
      BY <1>2 DEF Versions
    <3> QED
      BY <1>1, <1>2, <1>3, <1>4, <1>5, <3>1, <3>2, EditKeeps
  <2>2. CASE edits < MaxEdits /\ lines' = Replaced(w, so) /\ edits' = edits + 1
    <3>1. edits + 1 \in Version
      BY <1>2, <2>2, VersionNext DEF Version, SalesAssumption
    <3>2. lines' = [lines EXCEPT ![so] = {edits + 1}] /\ {edits + 1} \in SUBSET Version /\ OneVersion({edits + 1})
      BY <1>1, <1>2, <2>2, <3>1, ReplacedAll DEF OneVersion
    <3>3. /\ so # Estimate /\ so \notin PI /\ so \notin INV /\ so \in Doc /\ lock[so] \in {None, w}
          /\ UNCHANGED <<mix, source, converted, proforma>> /\ edits' = edits + 1
      BY <1>1, <1>3, <2>2
    <3> QED
      BY ONLY IInv, w \in Worker, <1>1, <1>4, <1>5, <3>1, <3>2, <3>3, EditKeeps
  <2> QED
    BY <1>3, <2>1, <2>2
<1> QED
  BY <1>2, <1>3, <1>6, EndPasses, ChainWrite

LEMMA UpdateProforma ==
  ASSUME IInv, NEW w \in Worker, UpdateProformaWrite(w)
  PROVE  ChainOK(w)
<1> USE DocKinds, Apart
<1>1. PICK p \in PI : p = on[w] /\ status[p] # "none" /\ seen[w].status = "DRAFT"
  BY DEF UpdateProformaWrite, IInv, ChainInv, OnDoc, OnProforma
<1>2. CASE ~Serializable(w, p) \/ edits = MaxEdits
  BY <1>1, <1>2, ChainAbort DEF UpdateProformaWrite
<1>3. CASE Serializable(w, p) /\ edits # MaxEdits
  <2>1. RequestsOK /\ DocTypes /\ edits + 1 \in Version
    BY <1>3, VersionNext DEF IInv, ChainInv
  <2>2. seen[w].lines = lines[p] /\ status[p] = "DRAFT"
    BY <1>1, <1>3, <2>1, ShownSeen DEF Serializable
  <2>3. /\ End(w) /\ UNCHANGED <<mix, source, converted, proforma, dispatchVars, returnVars>>
        /\ lines' = Replaced(w, p) /\ edits' = edits + 1
        /\ \E st \in PROFORMA_TRANSITIONS["DRAFT"] \cup {"DRAFT"} : status' = [status EXCEPT ![p] = st]
    BY <1>1, <1>3 DEF UpdateProformaWrite, UnchangedElse
  <2>4. PICK st \in ProformaStatus : status' = [status EXCEPT ![p] = st]
    BY <2>3 DEF PROFORMA_TRANSITIONS, ProformaStatus
  <2>5. st \in RowStatus \ {"none"} /\ st # "deleted"
    BY DEF ProformaStatus, RowStatus
  <2>6. lines' = [lines EXCEPT ![p] = {edits + 1}] /\ {edits + 1} \in SUBSET Version /\ OneVersion({edits + 1})
    BY <2>1, <2>2, <2>3, ReplacedAll DEF OneVersion
  <2>7. "DRAFT" \notin SALES_ORDER_LOCKED_STATUSES
    BY DEF SALES_ORDER_LOCKED_STATUSES
  <2>8. DocTypes' /\ Versions' /\ OrderThere' /\ OnePerSource' /\ DocsKept(w)
    <3>1. /\ p # Estimate /\ p \notin SO /\ p \notin INV /\ p \in Doc /\ edits' = edits + 1
          /\ UNCHANGED <<mix, source, converted, proforma>>
      BY <2>3
    <3> QED
      BY ONLY IInv, w \in Worker, <2>1, <2>2, <2>4, <2>5, <2>6, <2>7, <3>1, EditKeeps
  <2> QED
    BY <2>1, <2>3, <2>8, EndPasses, ChainWrite
<1> QED
  BY <1>2, <1>3

LEMMA ProformaStatusSteps ==
  ASSUME IInv, NEW w \in Worker, ProformaStatusWrite(w) \/ \E p \in PI : ProformaStatusLock(w, p)
  PROVE  ChainOK(w)
<1> USE DocKinds, Apart
<1>1. ASSUME NEW p \in PI, ProformaStatusLock(w, p) PROVE ChainOK(w)
  <2>1. /\ RequestsOK /\ DocTypes /\ Shown(p) \in Seen /\ p \in Row /\ status[p] # "none"
        /\ Lock(w, {p}) /\ Go(w, "proformaStatus", p, Shown(p)) /\ UNCHANGED data
    BY <1>1, ShownSeen DEF IInv, ChainInv, ProformaStatusLock, Exists
  <2>2. Passes(w) /\ At(w, "proformaStatus", p, Shown(p))
    BY <2>1, LockPasses DEF Control, ChainControl
  <2>3. OnDoc(w)'
    BY <2>1, <2>2 DEF At, OnDoc, OnEstimate, OnOrder, OnProforma, OnInvoice, data, docVars
  <2>4. ChainInv' /\ DocSteady(w)
    BY <2>1, <2>2, <2>3, DocsUntouched DEF data
  <2>5. EditWhole
    BY <2>1 DEF EditWhole, data, docVars
  <2> QED
    BY <2>1, <2>2, <2>4, <2>5 DEF ChainOK, DocsKept, At, data, DispatchControl, ReturnControl
<1>2. CASE ProformaStatusWrite(w)
  <2>1. PICK p \in PI : p = on[w] /\ status[p] # "none"
    BY <1>2 DEF ProformaStatusWrite, IInv, ChainInv, OnDoc, OnProforma
  <2>2. RequestsOK /\ DocTypes /\ Versions /\ Exists(p) /\ status[p] \in ProformaStatus /\ edits \in Version
    BY <2>1, NotDeleted DEF IInv, ChainInv, DocTypes
  <2>3. PICK st \in ProformaStatus : status' = [status EXCEPT ![p] = st]
    BY <1>2, <2>1, <2>2, Transitions DEF ProformaStatusWrite
  <2>4. End(w) /\ UNCHANGED <<mix, source, lines, converted, proforma, edits, dispatchVars, returnVars>>
    BY <1>2 DEF ProformaStatusWrite, UnchangedElse
  <2>5. st \in RowStatus \ {"none"} /\ st # "deleted"
    BY DEF ProformaStatus, RowStatus
  <2>6. /\ lines' = [lines EXCEPT ![p] = lines[p]] /\ lines[p] \in SUBSET Version
        /\ (Kept => OneVersion(lines[p])) /\ edits' = edits
    BY <2>2, <2>4 DEF DocTypes, Versions
  <2>7. DocTypes' /\ Versions' /\ OrderThere' /\ OnePerSource' /\ DocsKept(w)
    BY <2>2, <2>3, <2>4, <2>5, <2>6, EditKeeps
  <2> QED
    BY <2>2, <2>4, <2>7, EndPasses, ChainWrite
<1> QED
  BY <1>1, <1>2

\* Every step of the chain.
LEMMA ChainKeeps ==
  ASSUME IInv, NEW w \in Worker, ChainArrive(w) \/ ChainStep(w)
  PROVE  ChainOK(w)
<1>1. ASSUME NEW so \in SO, UpdateOrderLock(w, so) \/ OrderToSaleRead(w, so) \/ OrderToProformaRead(w, so)
      PROVE  ChainOK(w)
  BY <1>1, UpdateOrderLocks, OrderReads
<1>2. ASSUME NEW p \in PI, \/ UpdateProformaRead(w, p) \/ ProformaStatusLock(w, p)
                           \/ ProformaToInvoiceRead(w, p) \/ ProformaToOrderRead(w, p)
      PROVE  ChainOK(w)
  BY <1>2, ProformaReads, ProformaStatusSteps
<1>3. CASE CreateOrderRead(w)
  BY <1>3, CreateOrderReads
<1>4. CASE ChainArrive(w)
  BY <1>1, <1>2, <1>3, <1>4, EstimateReads, CreateDocs DEF ChainArrive
<1>5. CASE ChainStep(w)
  BY <1>5, UpdateQuotation, QuotationToOrder, QuotationToSale, CreateOrder, UpdateOrder, OrderToSale, OrderToProforma,
     UpdateProforma, ProformaStatusSteps, ProformaToInvoice, ProformaToOrder DEF ChainStep
<1> QED
  BY <1>4, <1>5
-----------------------------------------------------------------------------
(* Steps of challans. *)

\* What PostedOnce says of one step.
PostedStep ==
  \A c \in Challan :
    /\ out[c] > 0 => out'[c] = out[c]
    /\ back[c] > 0 => back'[c] = back[c]
    /\ back'[c] <= out'[c]

\* What is shown of a step of challans.
DispatchOK(w) ==
  /\ Passes(w) /\ DocsKept(w) /\ PostedStep /\ ChainInv' /\ DispatchInv' /\ UNCHANGED returnVars
  /\ pc'[w] \notin ReturnControl

LEMMA PostedSame ==
  ASSUME IInv, UNCHANGED <<out, back>>
  PROVE  PostedStep
BY DEF IInv, DispatchInv, ChallanTypes, ChallanSound, PostedStep

\* A step that only reads or locks.
LEMMA DispatchQuiet ==
  ASSUME IInv, NEW w \in Worker, Passes(w), UNCHANGED data, OnDoc(w)', OnChallan(w)', OnDispatch(w)',
         pc'[w] \notin ReturnControl
  PROVE  DispatchOK(w)
<1>1. ChainInv' /\ DocSteady(w)
  BY DocsUntouched DEF data
<1>2. EditWhole
  BY DEF EditWhole, data, docVars
<1>3. DispatchInv'
  BY <1>1, ChallansUntouched DEF data
<1>4. PostedStep
  BY PostedSame DEF data, dispatchVars
<1> QED
  BY <1>1, <1>2, <1>3, <1>4 DEF DispatchOK, DocsKept, data

LEMMA DispatchAbort ==
  ASSUME IInv, NEW w \in Worker, Abort(w)
  PROVE  DispatchOK(w)
BY AbortUnchanged, IdleRelies, DispatchQuiet DEF ChainControl, DispatchControl, ReturnControl

\* A step that ends its request, having written challans.
LEMMA DispatchWrites ==
  ASSUME IInv, NEW w \in Worker, Passes(w), pc'[w] = "idle", UNCHANGED returnVars, DocsKept(w), ChainInv', PostedStep,
         ChallanTypes', \A c \in Challan : ChallanSound(c)', \A d \in DCReturn : ReturnSound(d)',
         \A i \in INV : InvoiceSound(i)', ChallanSteady(w)
  PROVE  DispatchOK(w)
<1>1. ASSUME NEW i \in INV PROVE Shipped(i) \in Nat /\ Shipped(i)' \in Nat
  <2>1. Shipped(i)' = SumOf(out', (ChallansOf(i) \ voided)')
    BY DEF Shipped, PostedBy
  <2>2. /\ (ChallansOf(i) \ voided)' \in SUBSET Challan /\ IsFiniteSet((ChallansOf(i) \ voided)')
        /\ Nats(out', (ChallansOf(i) \ voided)')
    BY FS_Subset DEF SalesAssumption, ChallansOf, ChallanTypes, Nats
  <2> QED
    BY <2>1, <2>2, SumNat, ShippedNat DEF IInv, DispatchInv
<1>2. \A v \in Worker : OnChallan(v)' /\ OnDispatch(v)'
  <2>1. OnChallan(w)' /\ OnDispatch(w)'
    BY IdleRelies DEF DispatchControl
  <2> QED
    BY <1>1, <2>1, DispatchOthers DEF Passes, DocsKept
<1> QED
  BY <1>2 DEF DispatchInv, DispatchOK, ReturnControl

\* Sums over challans depend on those that have a share.
LEMMA ShareLeq ==
  ASSUME NEW f \in [Challan -> Nat], NEW A \in SUBSET Challan, NEW B \in SUBSET Challan,
         \A x \in A : f[x] > 0 => x \in B
  PROVE  SumOf(f, A) <= SumOf(f, B) /\ SumOf(f, A) \in Nat /\ SumOf(f, B) \in Nat
<1> DEFINE T == {x \in A : f[x] > 0}
<1>1. /\ IsFiniteSet(A) /\ IsFiniteSet(B) /\ Ints(f, A) /\ Nats(f, A) /\ Nats(f, B) /\ T \in SUBSET A /\ T \in SUBSET B
      /\ \A x \in A \ T : f[x] = 0
  BY FS_Subset DEF SalesAssumption, Ints, Nats
<1> HIDE DEF T
<1>2. SumOf(f, A) = SumOf(f, T)
  BY ONLY <1>1, SumWithout
<1>3. SumOf(f, T) <= SumOf(f, B)
  BY ONLY <1>1, SumPart
<1> QED
  BY <1>1, <1>2, <1>3, SumNat

ChallanRecord == [status : {"deleted"} \cup ChallanStatus, of : INV \cup {None}, qty : 1..Units, key : INV \cup {None}]

\* A challan's row is created or written, and its dispatch perhaps undone, while
\* nothing new leaves stock.
LEMMA RowWrite ==
  ASSUME IInv, NEW w \in Worker, DocsKept(w), ChainInv', NEW c \in Challan, NEW n \in ChallanRecord,
         challan' = [challan EXCEPT ![c] = n],
         UNCHANGED <<out, dcReturn, received>>, back' \in [Challan -> Nat], unbacked' \subseteq Challan,
         \A x \in Challan \ {c} : back'[x] = back[x], back'[c] \in {back[c], out[c]},
         voided' = voided \/ voided' = voided \cup {c}, n.status \in {"deleted", "CANCELLED"} => c \in voided',
         n.status = "DRAFT" => challan[c].status \in {"none", "DRAFT"},
         IF challan[c].status = "none" THEN n.of # None => status[n.of] # "none" ELSE n.of = challan[c].of,
         challan[c].status = "none" \/ n.qty = challan[c].qty \/ (Returned(c) = 0 /\ lock[c] \in {None, w}),
         fulfilled' \in [INV -> BOOLEAN], \A i \in INV : fulfilled'[i] => fulfilled[i],
         \A i \in INV : fulfilled'[i] # fulfilled[i] => i = n.of /\ c \in voided'
  PROVE  /\ ChallanTypes' /\ (\A x \in Challan : ChallanSound(x)') /\ (\A d \in DCReturn : ReturnSound(d)')
         /\ (\A i \in INV : InvoiceSound(i)') /\ ChallanSteady(w) /\ PostedStep
<1> USE DocKinds, Apart
<1>1. /\ ChallanTypes /\ DocTypes /\ (\A x \in Challan : ChallanSound(x)) /\ (\A d \in DCReturn : ReturnSound(d))
      /\ \A i \in INV : InvoiceSound(i)
  BY DEF IInv, DispatchInv, ChainInv
<1>2. challan'[c] = n /\ \A x \in Challan \ {c} : challan'[x] = challan[x]
  BY <1>1 DEF ChallanTypes
<1>3. ChallanTypes'
  <2>1. n \in [status : {"none", "deleted"} \cup ChallanStatus, of : INV \cup {None}, qty : 0..Units, key : INV \cup {None}]
    BY DEF ChallanRecord, SalesAssumption
  <2> QED
    BY <1>1, <2>1 DEF ChallanTypes
<1>4. \A x \in Challan : Returned(x)' = Returned(x) /\ ReturnsOf(x)' = ReturnsOf(x)
  BY DEF Returned, ReturnsOf
<1>5. /\ n.status \in {"deleted"} \cup ChallanStatus /\ n.qty \in 1..Units /\ n.of \in INV \cup {None} /\ n.status # "none"
      /\ n.status \in ACTIVE \cup {"deleted", "CANCELLED", "DRAFT"}
  BY DEF ChallanRecord, ChallanStatus, ACTIVE
<1>6. c \notin voided' => c \notin voided /\ (out[c] > 0 => n.status \in ACTIVE /\ challan[c].status \in ACTIVE)
  <2>1. ChallanSound(c) /\ out[c] \in Nat
    BY <1>1 DEF ChallanTypes
  <2>2. "none" \notin ACTIVE /\ "DRAFT" \notin ACTIVE
    BY DEF ACTIVE
  <2> QED
    BY <1>5, <2>1, <2>2 DEF ChallanSound
<1>7. ASSUME NEW x \in Challan PROVE ChallanSound(x)'
  <2>1. CASE x # c
    <3>1. ChallanSound(x) /\ challan'[x] = challan[x] /\ back'[x] = back[x] /\ out'[x] = out[x] /\ (x \in voided' <=> x \in voided)
      BY <1>1, <1>2, <2>1
    <3>2. challan[x].of # None => status'[challan[x].of] # "none"
      BY <1>1, <3>1 DEF ChallanSound, ChallanTypes, DocsKept, DocSteady
    <3> QED
      BY <1>4, <3>1, <3>2 DEF ChallanSound
  <2>2. CASE x = c
    <3>1. ChallanSound(c) /\ out[c] \in Nat /\ back[c] \in Nat /\ challan[c].qty \in Nat /\ Returned(c) <= challan[c].qty
      BY <1>1 DEF ChallanTypes, ChallanSound
    <3>2. n.of # None => status'[n.of] # "none"
      BY <1>1, <1>5, <3>1 DEF ChallanSound, DocsKept, DocSteady
    <3>3. Returned(c) <= n.qty
      <4>1. CASE challan[c].status = "none"
        <5>1. challan[c].qty = 0 /\ Returned(c) <= 0
          BY <3>1, <4>1 DEF ChallanSound
        <5>2. IsFiniteSet(ReturnsOf(c)) /\ Nats([d \in DCReturn |-> dcReturn[d].qty], ReturnsOf(c))
          BY <1>1, FS_Subset DEF SalesAssumption, ReturnsOf, ChallanTypes, Nats
        <5>3. Returned(c) \in Nat
          BY <5>2, SumNat DEF Returned
        <5> QED
          BY <1>5, <5>1, <5>3
      <4>2. CASE n.qty = challan[c].qty
        BY <3>1, <4>2
      <4>3. CASE Returned(c) = 0
        BY <1>5, <4>3
      <4> QED
        BY <4>1, <4>2, <4>3
    <3>4. back'[c] \in {0, out[c]}
      BY <3>1 DEF ChallanSound
    <3> QED
      BY <1>2, <1>4, <1>5, <1>6, <2>2, <3>1, <3>2, <3>3, <3>4 DEF ChallanSound
  <2> QED
    BY <2>1, <2>2
<1>8. ASSUME NEW i \in INV
      PROVE  /\ \A x \in Challan \ {c} : (x \in ChallansOf(i)' <=> x \in ChallansOf(i)) /\ (x \in Active(i)' <=> x \in Active(i))
             /\ c \in ChallansOf(i)' => status[i] # "none"
             /\ out[c] > 0 => (c \in ChallansOf(i)' <=> c \in ChallansOf(i))
             /\ c \in ChallansOf(i) => c \in ChallansOf(i)'
             /\ c \notin voided' /\ out[c] > 0 => (c \in Active(i)' <=> c \in Active(i))
             /\ ChallansOf(i) \in SUBSET Challan /\ ChallansOf(i)' \in SUBSET Challan
             /\ Active(i) \in SUBSET Challan /\ Active(i)' \in SUBSET Challan
  <2>1. ChallanSound(c) /\ out[c] \in Nat /\ i # None
    BY <1>1 DEF ChallanTypes
  <2>2. c \in ChallansOf(i)' <=> n.of = i
    BY <1>2 DEF ChallansOf
  <2>3. c \in ChallansOf(i)' => status[i] # "none"
    BY <2>1, <2>2 DEF ChallanSound
  <2>4. (out[c] > 0 => (c \in ChallansOf(i)' <=> c \in ChallansOf(i))) /\ (c \in ChallansOf(i) => c \in ChallansOf(i)')
    BY <2>1, <2>2 DEF ChallanSound, ChallansOf
  <2>5. c \notin voided' /\ out[c] > 0 => (c \in Active(i)' <=> c \in Active(i))
    BY <1>2, <1>6, <2>4 DEF Active
  <2>6. \A x \in Challan \ {c} : (x \in ChallansOf(i)' <=> x \in ChallansOf(i)) /\ (x \in Active(i)' <=> x \in Active(i))
    BY <1>2 DEF ChallansOf, Active
  <2> QED
    BY <2>3, <2>4, <2>5, <2>6 DEF ChallansOf, Active
<1>9. ASSUME NEW i \in INV
      PROVE  Shipped(i)' <= Shipped(i) /\ Shipped(i) \in Nat /\ Shipped(i)' \in Nat
  <2> DEFINE A == ChallansOf(i)' \ voided'
             B == ChallansOf(i) \ voided
  <2>1. A \in SUBSET Challan /\ B \in SUBSET Challan /\ \A x \in A : out[x] > 0 => x \in B
    BY <1>8
  <2>2. Shipped(i)' = SumOf(out, A) /\ Shipped(i) = SumOf(out, B)
    BY DEF Shipped, PostedBy
  <2>3. out \in [Challan -> Nat]
    BY <1>1 DEF ChallanTypes
  <2> HIDE DEF A, B
  <2>4. SumOf(out, A) <= SumOf(out, B) /\ SumOf(out, A) \in Nat /\ SumOf(out, B) \in Nat
    BY ONLY <2>1, <2>3, ShareLeq
  <2> QED
    BY ONLY <2>2, <2>4
<1>10. ASSUME NEW i \in INV PROVE InvoiceSound(i)'
  <2>1. InvoiceSound(i) /\ Shipped(i)' <= Units
    BY <1>1, <1>9 DEF InvoiceSound, SalesAssumption
  <2>2. status'[i] = "none" => status[i] = "none"
    BY DEF DocsKept, DocSteady
  <2>3. ChallansOf(i)' # {} => status[i] # "none"
    <3>1. ASSUME NEW x \in ChallansOf(i)' PROVE status[i] # "none"
      <4>1. CASE x = c
        BY <1>8, <3>1, <4>1
      <4>2. CASE x # c
        BY <1>1, <1>8, <3>1, <4>2 DEF ChallansOf, ChallanSound
      <4> QED
        BY <4>1, <4>2
    <3> QED
      BY <3>1
  <2>4. ChallansOf(i)' # {} => source'[i] = source[i]
    BY <2>3 DEF DocsKept, DocSteady
  <2>5. source'[i] \notin PI => \A x \in ChallansOf(i)' : out[x] = 0
    <3> SUFFICES ASSUME source'[i] \notin PI, NEW x \in ChallansOf(i)', out[x] # 0 PROVE FALSE
      OBVIOUS
    <3>1. x \in ChallansOf(i)
      BY <1>1, <1>8 DEF ChallanTypes
    <3> QED
      BY <2>1, <2>4, <3>1 DEF InvoiceSound
  <2>6. status'[i] = "none" => ~fulfilled'[i]
    BY <2>1, <2>2 DEF InvoiceSound
  <2>7. Marked(i)'
    <3> SUFFICES ASSUME source'[i] \in PI, ChallansOf(i)' \cap voided' = {}
                 PROVE  fulfilled'[i] <=> SumOf(out, Active(i)') >= Units
      BY DEF Marked, PostedBy
    <3>1. CASE status[i] = "none"
      <4>1. ChallansOf(i)' = {} /\ ~fulfilled'[i]
        BY <2>1, <2>3, <3>1 DEF InvoiceSound
      <4>2. SumOf(out, Active(i)') = 0
        BY <4>1, SumEmpty DEF Active
      <4> QED
        BY <4>1, <4>2 DEF SalesAssumption
    <3>2. CASE status[i] # "none"
      <4>1. source[i] \in PI /\ ChallansOf(i) \cap voided = {}
        <5>1. source[i] \in PI
          BY <3>2 DEF DocsKept, DocSteady
        <5>2. ASSUME NEW x \in ChallansOf(i) PROVE x \notin voided
          BY <1>8
        <5> QED
          BY <5>1, <5>2
      <4>2. fulfilled'[i] = fulfilled[i]
        <5>1. i = n.of => c \in ChallansOf(i)'
          BY <1>2 DEF ChallansOf
        <5> QED
          BY <1>1, <5>1 DEF ChallanTypes
      <4>3. fulfilled[i] <=> SumOf(out, Active(i)) >= Units
        BY <2>1, <4>1 DEF InvoiceSound, Marked, PostedBy
      <4>4. \A x \in Challan : x \in Active(i)' \cup Active(i) => x \in ChallansOf(i)' \cup ChallansOf(i)
        BY DEF Active
      <4>5. \A x \in Challan : out[x] > 0 => (x \in Active(i)' <=> x \in Active(i))
        <5> SUFFICES ASSUME out[c] > 0 PROVE c \in Active(i)' <=> c \in Active(i)
          BY <1>8
        <5>1. CASE c \in voided'
          BY <1>8, <4>4, <5>1
        <5>2. CASE c \notin voided'
          BY <1>8, <5>2
        <5> QED
          BY <5>1, <5>2
      <4>6. SumOf(out, Active(i)') = SumOf(out, Active(i))
        <5>1. out \in [Challan -> Nat] /\ Active(i)' \in SUBSET Challan /\ Active(i) \in SUBSET Challan
          BY <1>1, <1>8 DEF ChallanTypes
        <5>2. /\ SumOf(out, Active(i)') <= SumOf(out, Active(i)) /\ SumOf(out, Active(i)) <= SumOf(out, Active(i)')
              /\ SumOf(out, Active(i)') \in Nat /\ SumOf(out, Active(i)) \in Nat
          <6> DEFINE A == Active(i)'
                     B == Active(i)
          <6>1. (\A x \in A : out[x] > 0 => x \in B) /\ (\A x \in B : out[x] > 0 => x \in A)
            BY <4>5, <5>1
          <6>2. A \in SUBSET Challan /\ B \in SUBSET Challan
            BY <5>1
          <6> HIDE DEF A, B
          <6>3. /\ SumOf(out, A) <= SumOf(out, B) /\ SumOf(out, B) <= SumOf(out, A)
                /\ SumOf(out, A) \in Nat /\ SumOf(out, B) \in Nat
            BY ONLY <5>1, <6>1, <6>2, SalesAssumption, ShareLeq
          <6> QED
            BY <6>3 DEF A, B
        <5> QED
          BY <5>2
      <4> QED
        BY <4>2, <4>3, <4>6
    <3> QED
      BY <3>1, <3>2
  <2> QED
    BY <2>1, <2>5, <2>6, <2>7 DEF InvoiceSound
<1>11. ChallanSteady(w)
  <2>1. \A x \in Challan : challan[x].status # "none" => challan'[x].status # "none" /\ challan'[x].of = challan[x].of
    BY <1>2, <1>5
  <2>2. \A x \in Challan : lock[x] \notin {None, w} /\ challan[x].status # "none" => challan'[x].qty = challan[x].qty
    BY <1>2
  <2> QED
    BY <1>4, <1>9, <2>1, <2>2 DEF ChallanSteady
<1>12. PostedStep
  BY <1>1 DEF PostedStep, ChallanSound, ChallanTypes
<1>13. \A d \in DCReturn : ReturnSound(d)'
  BY <1>1 DEF ReturnSound
<1> QED
  BY <1>3, <1>7, <1>10, <1>11, <1>12, <1>13

\* A sum over challans after one of them, that had no share, got one.
LEMMA ShareAdded ==
  ASSUME NEW f \in [Challan -> Nat], NEW g \in [Challan -> Nat], NEW A \in SUBSET Challan, NEW c \in Challan, f[c] = 0,
         \A x \in Challan \ {c} : g[x] = f[x]
  PROVE  /\ c \in A => SumOf(g, A) = SumOf(f, A) + g[c]
         /\ c \notin A => SumOf(g, A) = SumOf(f, A)
         /\ SumOf(f, A \ {c}) = SumOf(f, A) /\ SumOf(f, A) \in Nat
<1>1. IsFiniteSet(A) /\ IsFiniteSet(A \ {c}) /\ Ints(f, A)
  BY FS_Subset DEF SalesAssumption, Ints
<1>2. SumOf(f, A) <= SumOf(f, A \ {c}) /\ SumOf(f, A \ {c}) <= SumOf(f, A) /\ SumOf(f, A) \in Nat /\ SumOf(f, A \ {c}) \in Nat
  BY ShareLeq
<1>3. CASE c \in A
  <2>1. SumOf(g, A) = SumOf(f, A) + g[c] - f[c]
    BY <1>1, <1>3, SumChange
  <2> QED
    BY <1>1, <1>2, <1>3, <2>1
<1>4. CASE c \notin A
  <2>1. SumOf(g, A) = SumOf(f, A)
    BY <1>1, <1>4, SumSame
  <2> QED
    BY <1>2, <1>4, <2>1
<1> QED
  BY <1>3, <1>4

\* Goods of an invoice leave stock with a challan that posts for the first time.
LEMMA IssueWrite ==
  ASSUME IInv, NEW w \in Worker, ChainInv', UNCHANGED docVars, DocsKept(w), NEW c \in Challan, NEW n \in ChallanRecord,
         challan' = [challan EXCEPT ![c] = n], Issue(c), out[c] = 0,
         UNCHANGED <<voided, back, unbacked, dcReturn, received>>,
         n.status = "IN_TRANSIT", NEW i \in INV, n.of = i, source[i] \in PI, status[i] # "none", lock[i] \in {None, w},
         challan[c].status = "none" \/ (n.of = challan[c].of /\ n.qty = challan[c].qty),
         Shipped(i) + n.qty <= Units
  PROVE  /\ ChallanTypes' /\ (\A x \in Challan : ChallanSound(x)') /\ (\A d \in DCReturn : ReturnSound(d)')
         /\ (\A j \in INV : InvoiceSound(j)') /\ ChallanSteady(w) /\ PostedStep
<1> USE DocKinds, Apart
<1>1. /\ ChallanTypes /\ DocTypes /\ (\A x \in Challan : ChallanSound(x)) /\ (\A d \in DCReturn : ReturnSound(d))
      /\ (\A j \in INV : InvoiceSound(j)) /\ n.qty \in 1..Units /\ n.qty \in Nat /\ n.qty > 0 /\ i # None
  BY DEF IInv, DispatchInv, ChainInv, ChallanRecord, SalesAssumption
<1>0. c \in Challan /\ out[c] = 0 /\ n.qty \in Nat /\ out \in [Challan -> Nat]
  BY <1>1 DEF ChallanTypes
<1>2. challan'[c] = n /\ \A x \in Challan \ {c} : challan'[x] = challan[x]
  BY <1>1 DEF ChallanTypes
<1>3. /\ out' = [out EXCEPT ![c] = n.qty]
      /\ fulfilled' = [fulfilled EXCEPT ![i] = PostedBy(Active(i) \ {c}) + n.qty >= Units]
  <2>1. out[c] + n.qty = n.qty /\ challan'[c].of = i /\ challan'[c].qty = n.qty /\ ~Posted(c)
    BY <1>1, <1>2 DEF Posted
  <2>2. /\ out' = [out EXCEPT ![c] = out[c] + challan'[c].qty]
        /\ fulfilled' = [fulfilled EXCEPT ![challan'[c].of] =
                           PostedBy(Active(challan'[c].of) \ {c}) + challan'[c].qty >= Units]
    BY <2>1, Zenon DEF Issue
  <2> QED
    BY <2>1, <2>2, Zenon
<1>4. /\ out'[c] = n.qty /\ (\A x \in Challan \ {c} : out'[x] = out[x]) /\ out' \in [Challan -> Nat]
      /\ (\A j \in INV \ {i} : fulfilled'[j] = fulfilled[j]) /\ fulfilled' \in [INV -> BOOLEAN]
      /\ fulfilled'[i] = (PostedBy(Active(i) \ {c}) + n.qty >= Units)
  BY <1>1, <1>3 DEF ChallanTypes
<1>5. ChallanTypes'
  <2>1. n \in [status : {"none", "deleted"} \cup ChallanStatus, of : INV \cup {None}, qty : 0..Units, key : INV \cup {None}]
    BY DEF ChallanRecord, SalesAssumption
  <2> QED
    BY <1>1, <1>4, <2>1 DEF ChallanTypes
<1>6. \A x \in Challan : Returned(x)' = Returned(x) /\ ReturnsOf(x)' = ReturnsOf(x)
  BY DEF Returned, ReturnsOf
<1>7. \A x \in Challan \ {c} : ChallanSound(x)'
  BY <1>1, <1>2, <1>4, <1>6 DEF ChallanSound, docVars
<1>8. ChallanSound(c)'
  <2>1. ChallanSound(c) /\ Returned(c) <= challan[c].qty /\ back[c] = 0 /\ challan[c].qty \in Nat
    BY <1>1 DEF ChallanSound, ChallanTypes
  <2>2. Returned(c) <= n.qty
    <3>1. CASE challan[c].status = "none"
      <4>1. challan[c].qty = 0
        BY <2>1, <3>1 DEF ChallanSound
      <4>2. IsFiniteSet(ReturnsOf(c)) /\ Nats([d \in DCReturn |-> dcReturn[d].qty], ReturnsOf(c))
        BY <1>1, FS_Subset DEF SalesAssumption, ReturnsOf, ChallanTypes, Nats
      <4>3. Returned(c) \in Nat
        BY <4>2, SumNat DEF Returned
      <4> QED
        BY <1>1, <2>1, <4>1, <4>3
    <3>2. CASE n.qty = challan[c].qty
      BY <2>1, <3>2
    <3> QED
      BY <3>1, <3>2
  <2>3. "IN_TRANSIT" \in ACTIVE
    BY DEF ACTIVE
  <2> QED
    BY <1>1, <1>2, <1>4, <1>6, <2>1, <2>2, <2>3 DEF ChallanSound, docVars
<1>9. ASSUME NEW j \in INV
      PROVE  /\ ChallansOf(j) \in SUBSET Challan /\ ChallansOf(j)' \in SUBSET Challan
             /\ Active(j) \in SUBSET Challan /\ Active(j)' \in SUBSET Challan
             /\ \A x \in Challan \ {c} : (x \in ChallansOf(j)' <=> x \in ChallansOf(j)) /\ (x \in Active(j)' <=> x \in Active(j))
             /\ c \in ChallansOf(j)' <=> j = i
             /\ c \in Active(j)' <=> j = i
             /\ c \in ChallansOf(j) => j = i
  <2>1. "IN_TRANSIT" \in ACTIVE /\ ChallanSound(c) /\ j # None
    BY <1>1 DEF ACTIVE
  <2>2. c \in ChallansOf(j) => j = i
    BY <1>1, <2>1 DEF ChallansOf, ChallanSound
  <2> QED
    BY <1>2, <2>1, <2>2 DEF ChallansOf, Active
<1>10. ASSUME NEW j \in INV
       PROVE  /\ Shipped(j)' <= (IF j = i THEN Shipped(i) + n.qty ELSE Shipped(j))
              /\ Shipped(j) \in Nat /\ Shipped(j)' \in Nat
  <2> DEFINE A == ChallansOf(j)' \ voided
             B == ChallansOf(j) \ voided
  <2>1. /\ A \in SUBSET Challan /\ B \in SUBSET Challan /\ (\A x \in A : out[x] > 0 => x \in B) /\ (c \in A => j = i)
        /\ out \in [Challan -> Nat]
    BY <1>1, <1>9 DEF ChallanTypes
  <2>2. Shipped(j)' = SumOf(out', A) /\ Shipped(j) = SumOf(out, B)
    BY DEF Shipped, PostedBy
  <2> HIDE DEF A, B
  <2>3. SumOf(out, A) <= SumOf(out, B) /\ SumOf(out, A) \in Nat /\ SumOf(out, B) \in Nat
    BY <2>1, ShareLeq
  <2>4. (c \in A => SumOf(out', A) = SumOf(out, A) + n.qty) /\ (c \notin A => SumOf(out', A) = SumOf(out, A))
    <3>1. A \in SUBSET Challan
      BY <2>1
    <3>2. (c \in A => SumOf(out', A) = SumOf(out, A) + out'[c]) /\ (c \notin A => SumOf(out', A) = SumOf(out, A))
      BY ONLY <1>0, <1>4, <3>1, ShareAdded
    <3> QED
      BY <1>4, <3>2
  <2> QED
    BY <1>1, <1>3, <2>1, <2>2, <2>3, <2>4
<1>11. ASSUME NEW j \in INV PROVE InvoiceSound(j)'
  <2>1. InvoiceSound(j) /\ Shipped(j)' <= Units /\ source'[j] = source[j] /\ status'[j] = status[j]
    BY <1>1, <1>10 DEF InvoiceSound, SalesAssumption, docVars
  <2>2. source[j] \notin PI => \A x \in ChallansOf(j)' : out'[x] = 0
    BY <1>4, <1>9, <2>1 DEF InvoiceSound
  <2>3. status[j] = "none" => ~fulfilled'[j]
    BY <1>4, <2>1 DEF InvoiceSound
  <2>4. Marked(j)'
    <3> SUFFICES ASSUME source[j] \in PI, ChallansOf(j)' \cap voided = {}
                 PROVE  fulfilled'[j] <=> SumOf(out', Active(j)') >= Units
      BY <2>1 DEF Marked, PostedBy
    <3>1. CASE j = i
      <4> DEFINE A == Active(i)'
                 B == Active(i) \ {c}
      <4>1. A \in SUBSET Challan /\ B \in SUBSET Challan /\ A \ {c} = B /\ c \in A /\ out \in [Challan -> Nat]
        BY <1>1, <1>9 DEF ChallanTypes
      <4> HIDE DEF A, B
      <4>2. SumOf(out', A) = SumOf(out, A) + n.qty /\ SumOf(out, A \ {c}) = SumOf(out, A)
        BY ONLY <1>0, <1>4, <4>1, ShareAdded
      <4>3. SumOf(out', A) = SumOf(out, B) + n.qty
        BY <1>3, <4>1, <4>2
      <4>4. fulfilled'[i] = (SumOf(out, B) + n.qty >= Units)
        BY <1>4 DEF PostedBy, B
      <4> QED
        BY <3>1, <4>3, <4>4 DEF A
    <3>2. CASE j # i
      <4> DEFINE A == Active(j)
      <4>1. Active(j)' = A /\ A \in SUBSET Challan /\ c \notin A /\ out \in [Challan -> Nat]
        <5>1. c \notin Active(j)
          BY <1>9, <3>2 DEF Active
        <5>2. \A x \in Challan : x \in Active(j)' <=> x \in Active(j)
          BY <1>9, <3>2, <5>1
        <5>3. Active(j)' \in SUBSET Challan /\ Active(j) \in SUBSET Challan
          BY <1>9
        <5>4. Active(j)' = Active(j)
          BY ONLY <5>2, <5>3
        <5> QED
          BY <1>0, <5>1, <5>3, <5>4
      <4>2. ChallansOf(j) \cap voided = {}
        BY <1>9, <3>2
      <4>3. fulfilled[j] <=> SumOf(out, A) >= Units
        BY <2>1, <4>2 DEF InvoiceSound, Marked, PostedBy
      <4> HIDE DEF A
      <4>4. SumOf(out', A) = SumOf(out, A)
        BY ONLY <1>0, <1>4, <4>1, ShareAdded
      <4> QED
        BY <1>4, <3>2, <4>1, <4>3, <4>4
    <3> QED
      BY <3>1, <3>2
  <2> QED
    BY <2>1, <2>2, <2>3, <2>4 DEF InvoiceSound
<1>12. ChallanSteady(w)
  <2>1. \A x \in Challan : challan[x].status # "none" =>
          challan'[x].status # "none" /\ challan'[x].of = challan[x].of /\ challan'[x].qty = challan[x].qty
    BY <1>2
  <2>2. \A x \in Challan : out[x] > 0 => out'[x] > 0
    BY <1>4
  <2>3. \A j \in INV : lock[j] \notin {None, w} => Shipped(j)' <= Shipped(j)
    BY <1>10
  <2> QED
    BY <1>6, <2>1, <2>2, <2>3 DEF ChallanSteady
<1>13. PostedStep
  <2>1. \A x \in Challan : back[x] <= out'[x]
    BY <1>1, <1>4 DEF ChallanSound, ChallanTypes
  <2> QED
    BY <1>1, <1>4, <2>1 DEF PostedStep, ChallanTypes
<1>14. \A d \in DCReturn : ReturnSound(d)'
  BY <1>1 DEF ReturnSound
<1> QED
  BY <1>5, <1>7, <1>8, <1>11, <1>12, <1>13, <1>14

LEMMA DispatchDocs ==
  ASSUME IInv, NEW w \in Worker, Passes(w), pc'[w] = "idle", UNCHANGED <<mix, docVars>>
  PROVE  ChainInv' /\ DocsKept(w)
<1>1. ChainInv' /\ DocSteady(w)
  BY IdleRelies, DocsUntouched DEF ChainControl
<1> QED
  BY <1>1 DEF DocsKept, EditWhole, docVars

\* Only a proforma's invoice is deferred.
LEMMA DeferredOrigin ==
  ASSUME IInv, NEW i \in INV, Deferred(i)
  PROVE  source[i] \in PI
<1>1. InvoiceSound(i) /\ out \in [Challan -> Nat]
  BY DEF IInv, DispatchInv, ChallanTypes
<1>2. CASE ~inventory_deducted(i)
  BY <1>2 DEF inventory_deducted
<1>3. CASE \E c \in ChallansOf(i) : out[c] > 0
  BY <1>1, <1>3 DEF InvoiceSound, ChallansOf
<1> QED
  BY <1>2, <1>3 DEF Deferred

\* What is pending of an invoice has not been shipped.
LEMMA PendingFits ==
  ASSUME IInv, NEW i \in INV, NEW x, x \in Challan => out[x] = 0, NEW q \in Int, q > 0, q <= Pending(i, x)
  PROVE  Shipped(i) + q <= Units /\ q \in 1..Units
<1> DEFINE A == ChallansOf(i) \ voided
           B == Active(i) \ {x}
<1>1. ChallanTypes /\ (\A c \in Challan : ChallanSound(c)) /\ out \in [Challan -> Nat]
  BY DEF IInv, DispatchInv, ChallanTypes
<1>2. A \in SUBSET Challan /\ B \in SUBSET Challan
  BY DEF ChallansOf, Active
<1>3. \A c \in A : out[c] > 0 => c \in B
  BY <1>1 DEF ChallanSound, ChallansOf, Active
<1>4. Shipped(i) = SumOf(out, A) /\ PostedBy(Active(i) \ {x}) = SumOf(out, B)
  BY DEF Shipped, PostedBy
<1>5. q <= Units - PostedBy(Active(i) \ {x})
  BY DEF Pending
<1> HIDE DEF A, B
<1>6. SumOf(out, A) <= SumOf(out, B) /\ SumOf(out, A) \in Nat /\ SumOf(out, B) \in Nat
  BY <1>1, <1>2, <1>3, ShareLeq
<1> QED
  BY <1>4, <1>5, <1>6 DEF SalesAssumption

\* A challan's status is written.
LEMMA StatusRecord ==
  ASSUME IInv, NEW c \in Challan, challan[c].status # "none", NEW st \in {"deleted"} \cup ChallanStatus, SetStatus(c, st)
  PROVE  \E n \in ChallanRecord :
           /\ challan' = [challan EXCEPT ![c] = n]
           /\ n.status = st /\ n.of = challan[c].of /\ n.qty = challan[c].qty
<1> DEFINE n == [challan[c] EXCEPT !.status = st]
<1>1. /\ challan[c] \in [status : {"none", "deleted"} \cup ChallanStatus, of : INV \cup {None}, qty : 0..Units, key : INV \cup {None}]
      /\ challan[c].qty > 0
  BY DEF IInv, DispatchInv, ChallanTypes, ChallanSound
<1>2. n.status = st /\ n.of = challan[c].of /\ n.qty = challan[c].qty /\ n.key = challan[c].key
  BY <1>1
<1>3. n \in ChallanRecord
  BY <1>1 DEF ChallanRecord, SalesAssumption
<1>4. challan' = [challan EXCEPT ![c] = n]
  BY DEF SetStatus
<1> QED
  BY <1>2, <1>3, <1>4

LEMMA CreateChallans ==
  ASSUME IInv, NEW w \in Worker, NEW i \in INV \cup {None}, NEW q \in Quantity, CreateChallan(w, i, q)
  PROVE  DispatchOK(w)
<1> USE Apart
<1>1. /\ Passes(w) /\ pc'[w] = "idle" /\ UNCHANGED <<mix, docVars, returnVars>>
      /\ UNCHANGED <<voided, out, back, unbacked, fulfilled, dcReturn, received>> /\ (i # None => status[i] # "none")
  BY StayPasses DEF CreateChallan, Idle, UnchangedElsewhere, IInv
<1>2. ChainInv' /\ DocsKept(w) /\ ChallanTypes
  BY <1>1, DispatchDocs DEF IInv, DispatchInv
<1>3. PICK c \in Challan, st \in {"DRAFT", "IN_TRANSIT"} :
        challan[c].status = "none" /\ challan' = [challan EXCEPT ![c] = [status |-> st, of |-> i, qty |-> q, key |-> None]]
  BY FirstIn DEF CreateChallan, Unplanned
<1> DEFINE n == [status |-> st, of |-> i, qty |-> q, key |-> None]
<1>4. n \in ChallanRecord /\ n.status = st /\ n.of = i /\ challan' = [challan EXCEPT ![c] = n]
  BY <1>3 DEF ChallanRecord, ChallanStatus, SalesAssumption
<1> HIDE DEF n
<1>5. back' \in [Challan -> Nat] /\ unbacked' \subseteq Challan /\ fulfilled' \in [INV -> BOOLEAN]
  BY <1>1, <1>2 DEF ChallanTypes
<1>6. /\ ChallanTypes' /\ (\A x \in Challan : ChallanSound(x)') /\ (\A d \in DCReturn : ReturnSound(d)')
      /\ (\A j \in INV : InvoiceSound(j)') /\ ChallanSteady(w) /\ PostedStep
  BY <1>1, <1>2, <1>3, <1>4, <1>5, RowWrite
<1> QED
  BY <1>1, <1>2, <1>6, DispatchWrites

\* A challan is created and dispatched in one step.
LEMMA CreateIssued ==
  ASSUME IInv, NEW w \in Worker, Passes(w), pc'[w] = "idle", UNCHANGED <<mix, docVars, returnVars>>,
         UNCHANGED <<voided, back, unbacked, dcReturn, received>>, NEW c \in Challan, challan[c].status = "none",
         NEW i \in INV, NEW k \in INV \cup {None}, NEW q \in Int, q > 0, q <= Pending(i, None),
         lock[i] \in {None, w}, status[i] # "none", source[i] \in PI,
         challan' = [challan EXCEPT ![c] = [status |-> "IN_TRANSIT", of |-> i, qty |-> q, key |-> k]], Issue(c)
  PROVE  DispatchOK(w)
<1> USE Apart
<1> DEFINE n == [status |-> "IN_TRANSIT", of |-> i, qty |-> q, key |-> k]
<1>1. Shipped(i) + q <= Units /\ q \in 1..Units
  BY PendingFits, DocKinds
<1>2. n \in ChallanRecord /\ n.status = "IN_TRANSIT" /\ n.of = i /\ n.qty = q /\ challan' = [challan EXCEPT ![c] = n]
  BY <1>1 DEF ChallanRecord, ChallanStatus
<1> HIDE DEF n
<1>3. ChainInv' /\ DocsKept(w) /\ UNCHANGED docVars
  BY DispatchDocs
<1>4. out[c] = 0
  BY DEF IInv, DispatchInv, ChallanSound
<1>5. /\ ChallanTypes' /\ (\A x \in Challan : ChallanSound(x)') /\ (\A d \in DCReturn : ReturnSound(d)')
      /\ (\A j \in INV : InvoiceSound(j)') /\ ChallanSteady(w) /\ PostedStep
  BY <1>1, <1>2, <1>3, <1>4, IssueWrite
<1> QED
  BY <1>3, <1>5, DispatchWrites

LEMMA CreateDispatches ==
  ASSUME IInv, NEW w \in Worker, NEW i \in INV, NEW q \in Quantity, CreateDispatched(w, i, q)
  PROVE  DispatchOK(w)
<1> DEFINE c == First(Unplanned)
<1>1. /\ Passes(w) /\ pc'[w] = "idle" /\ UNCHANGED <<mix, docVars, returnVars>>
      /\ UNCHANGED <<voided, back, unbacked, dcReturn, received>>
  BY StayPasses DEF CreateDispatched, Idle, UnchangedElsewhere, IInv
<1>2. c \in Challan /\ challan[c].status = "none"
  BY FirstIn DEF CreateDispatched, Unplanned
<1>3. /\ lock[i] \in {None, w} /\ status[i] # "none" /\ q <= Pending(i, None) /\ Deferred(i) /\ Issue(c)
      /\ challan' = [challan EXCEPT ![c] = [status |-> "IN_TRANSIT", of |-> i, qty |-> q, key |-> None]]
  BY DEF CreateDispatched, AtRow
<1>4. q \in Int /\ q > 0
  <2>1. Quantity \subseteq 1..Units /\ Units \in Nat
    BY DEF SalesAssumption
  <2> QED
    BY ONLY <2>1, q \in Quantity
<1> HIDE DEF c
<1> QED
  BY <1>1, <1>2, <1>3, <1>4, DeferredOrigin, CreateIssued

LEMMA Reconciles ==
  ASSUME IInv, NEW w \in Worker, ReconcileWrite(w)
  PROVE  DispatchOK(w)
<1>1. CASE ~KeyFree(on[w]) \/ Unplanned = {} \/ status[on[w]] = "CANCELLED" \/ seen[w].n > Pending(on[w], None)
  BY <1>1, DispatchAbort DEF ReconcileWrite
<1>2. CASE ~(~KeyFree(on[w]) \/ Unplanned = {} \/ status[on[w]] = "CANCELLED" \/ seen[w].n > Pending(on[w], None))
  <2> DEFINE c == First(Unplanned)
  <2>1. PICK i \in INV : i = on[w] /\ status[i] # "none" /\ source[i] \in PI /\ seen[w].n > 0 /\ seen[w].n \in Int
    BY DEF ReconcileWrite, IInv, DispatchInv, OnDispatch, RequestsOK, Seen
  <2>2. c \in Challan /\ challan[c].status = "none"
    BY <1>2, FirstIn DEF Unplanned
  <2>3. /\ challan' = [challan EXCEPT ![c] = [status |-> "IN_TRANSIT", of |-> i, qty |-> seen[w].n, key |-> i]]
        /\ Issue(c) /\ lock[i] \in {None, w} /\ ~(seen[w].n > Pending(i, None)) /\ End(w)
        /\ UNCHANGED <<mix, docVars, returnVars>> /\ UNCHANGED <<voided, back, unbacked, dcReturn, received>>
    BY <1>2, <2>1 DEF ReconcileWrite, AtRow, UnchangedElsewhere
  <2>4. Pending(i, None) \in Int
    <3>1. PostedBy(Active(i) \ {None}) \in Nat
      BY PostedNat DEF Active, ChallansOf, IInv, DispatchInv
    <3> QED
      BY <3>1 DEF Pending, SalesAssumption
  <2>5. seen[w].n <= Pending(i, None)
    BY <2>1, <2>3, <2>4
  <2>6. Passes(w) /\ pc'[w] = "idle"
    BY <2>3, EndPasses DEF IInv
  <2> HIDE DEF c
  <2> QED
    BY <2>1, <2>2, <2>3, <2>5, <2>6, CreateIssued
<1> QED
  BY <1>1, <1>2

\* A challan's status is written, and no more.
LEMMA StatusOnly ==
  ASSUME IInv, NEW w \in Worker, Passes(w), pc'[w] = "idle", ChainInv', DocsKept(w), UNCHANGED returnVars,
         NEW c \in Challan, challan[c].status # "none", NEW st \in ACTIVE \cup {"CANCELLED", "deleted"}, SetStatus(c, st),
         voided' = IF st \in {"CANCELLED", "deleted"} THEN voided \cup {c} ELSE voided,
         UNCHANGED <<out, back, unbacked, fulfilled, dcReturn, received>>
  PROVE  DispatchOK(w)
<1>1. ChallanTypes /\ st \in {"deleted"} \cup ChallanStatus /\ st # "DRAFT"
  BY DEF IInv, DispatchInv, ACTIVE, ChallanStatus
<1>2. PICK n \in ChallanRecord : challan' = [challan EXCEPT ![c] = n] /\ n.status = st /\ n.of = challan[c].of /\ n.qty = challan[c].qty
  BY <1>1, StatusRecord
<1>3. back' \in [Challan -> Nat] /\ unbacked' \subseteq Challan /\ fulfilled' \in [INV -> BOOLEAN]
  BY <1>1 DEF ChallanTypes
<1>4. /\ ChallanTypes' /\ (\A x \in Challan : ChallanSound(x)') /\ (\A d \in DCReturn : ReturnSound(d)')
      /\ (\A j \in INV : InvoiceSound(j)') /\ ChallanSteady(w) /\ PostedStep
  BY <1>1, <1>2, <1>3, RowWrite
<1> QED
  BY <1>4, DispatchWrites

LEMMA OnItsChallan ==
  ASSUME IInv, NEW w \in Worker,
         pc[w] \in {"editChallan", "deleteChallan", "challanStatus", "dispatch", "deliver", "raiseReturn"}
  PROVE  on[w] \in Challan /\ challan[on[w]].status # "none"
BY DEF IInv, DispatchInv, OnChallan

LEMMA Deletes ==
  ASSUME IInv, NEW w \in Worker, DeleteWrite(w) \/ DeliverWrite(w)
  PROVE  DispatchOK(w)
<1>1. PICK c \in Challan : c = on[w] /\ challan[c].status # "none"
  BY OnItsChallan DEF DeleteWrite, DeliverWrite
<1>2. CASE Abort(w)
  BY <1>2, DispatchAbort
<1>3. CASE DeleteWrite(w) /\ ~Abort(w)
  <2>1. /\ SetStatus(c, "deleted") /\ voided' = voided \cup {c} /\ End(w)
        /\ UNCHANGED <<out, back, unbacked, fulfilled, dcReturn, received>> /\ UNCHANGED <<mix, docVars, returnVars>>
    BY <1>1, <1>3 DEF DeleteWrite, UnchangedElsewhere
  <2> QED
    BY <1>1, <2>1, EndPasses, DispatchDocs, StatusOnly DEF IInv
<1>4. CASE DeliverWrite(w) /\ ~Abort(w)
  <2>1. /\ SetStatus(c, "CLOSED") /\ End(w)
        /\ UNCHANGED <<voided, out, back, unbacked, fulfilled, dcReturn, received>> /\ UNCHANGED <<mix, docVars, returnVars>>
    BY <1>1, <1>4 DEF DeliverWrite, UnchangedElsewhere
  <2>2. "CLOSED" \in ACTIVE
    BY DEF ACTIVE
  <2> QED
    BY <1>1, <2>1, <2>2, EndPasses, DispatchDocs, StatusOnly DEF IInv
<1> QED
  BY <1>2, <1>3, <1>4

LEMMA Edits ==
  ASSUME IInv, NEW w \in Worker, EditWrite(w)
  PROVE  DispatchOK(w)
<1>1. PICK c \in Challan : c = on[w] /\ challan[c].status # "none"
  BY OnItsChallan DEF EditWrite
<1>2. CASE challan[c].status = "deleted" \/ ReturnsOf(c) # {}
  BY <1>1, <1>2, DispatchAbort DEF EditWrite
<1>3. CASE challan[c].status # "deleted" /\ ReturnsOf(c) = {}
  <2>1. PICK q \in Quantity : challan' = [challan EXCEPT ![c].qty = q]
    BY <1>1, <1>3 DEF EditWrite
  <2>2. /\ End(w) /\ lock[c] \in {None, w} /\ UNCHANGED <<mix, docVars, returnVars>>
        /\ UNCHANGED <<voided, out, back, unbacked, fulfilled, dcReturn, received>>
    BY <1>1, <1>3 DEF EditWrite, UnchangedElsewhere, AtRow
  <2>3. ChallanTypes /\ Returned(c) = 0 /\ ChallanSound(c)
    BY <1>3, SumEmpty DEF Returned, IInv, DispatchInv
  <2> DEFINE n == [challan[c] EXCEPT !.qty = q]
  <2>4. n \in ChallanRecord /\ n.status = challan[c].status /\ n.of = challan[c].of /\ challan' = [challan EXCEPT ![c] = n]
    <3>1. /\ challan[c] \in [status : {"none", "deleted"} \cup ChallanStatus, of : INV \cup {None}, qty : 0..Units, key : INV \cup {None}]
          /\ q \in 1..Units
      BY <2>3 DEF ChallanTypes, SalesAssumption
    <3>2. n.status = challan[c].status /\ n.of = challan[c].of /\ n.qty = q /\ n.key = challan[c].key
      BY <3>1
    <3>3. n \in ChallanRecord
      BY <1>1, <3>1 DEF ChallanRecord
    <3> QED
      BY <2>1, <3>2, <3>3
  <2> HIDE DEF n
  <2>5. Passes(w) /\ pc'[w] = "idle" /\ ChainInv' /\ DocsKept(w)
    BY <2>2, EndPasses, DispatchDocs DEF IInv
  <2>6. back' \in [Challan -> Nat] /\ unbacked' \subseteq Challan /\ fulfilled' \in [INV -> BOOLEAN]
    BY <2>2, <2>3 DEF ChallanTypes
  <2>7. n.status \in {"deleted", "CANCELLED"} => c \in voided'
    BY <2>2, <2>3, <2>4 DEF ChallanSound
  <2>8. /\ ChallanTypes' /\ (\A x \in Challan : ChallanSound(x)') /\ (\A d \in DCReturn : ReturnSound(d)')
        /\ (\A j \in INV : InvoiceSound(j)') /\ ChallanSteady(w) /\ PostedStep
    BY <1>1, <2>2, <2>3, <2>4, <2>5, <2>6, <2>7, RowWrite
  <2> QED
    BY <2>2, <2>5, <2>8, DispatchWrites
<1> QED
  BY <1>2, <1>3

LEMMA Statuses ==
  ASSUME IInv, NEW w \in Worker, NEW st \in {"IN_TRANSIT", "CLOSED", "CANCELLED"}, StatusWrite(w, st)
  PROVE  DispatchOK(w)
<1>1. PICK c \in Challan : c = on[w] /\ challan[c].status # "none"
  BY OnItsChallan DEF StatusWrite
<1>2. CASE Abort(w)
  BY <1>2, DispatchAbort
<1>3. CASE ~Abort(w)
  <2>1. /\ SetStatus(c, st) /\ voided' = (IF st = "CANCELLED" THEN voided \cup {c} ELSE voided) /\ End(w)
        /\ UNCHANGED <<out, dcReturn, received>> /\ UNCHANGED <<mix, docVars, returnVars>>
        /\ IF seen[w].status = "IN_TRANSIT" /\ st = "CANCELLED" /\ IsDeferred(c)
           THEN Reverse(c) ELSE UNCHANGED <<back, unbacked, fulfilled>>
    BY <1>1, <1>3 DEF StatusWrite, UnchangedElsewhere
  <2>2. Passes(w) /\ pc'[w] = "idle" /\ ChainInv' /\ DocsKept(w)
    BY <2>1, EndPasses, DispatchDocs DEF IInv
  <2>3. st \in ACTIVE \cup {"CANCELLED"} /\ st \in {"deleted"} \cup ChallanStatus
    BY DEF ACTIVE, ChallanStatus
  <2>4. CASE UNCHANGED <<back, unbacked, fulfilled>>
    BY <1>1, <2>1, <2>2, <2>3, <2>4, StatusOnly
  <2>5. CASE st = "CANCELLED" /\ IsDeferred(c) /\ Reverse(c)
    <3>1. PICK n \in ChallanRecord : challan' = [challan EXCEPT ![c] = n] /\ n.status = st /\ n.of = challan[c].of /\ n.qty = challan[c].qty
      BY <1>1, <2>1, <2>3, StatusRecord
    <3>2. ChallanTypes /\ n.of \in INV
      BY <2>5, <3>1 DEF IInv, DispatchInv, ChallanTypes, IsDeferred
    <3>3. /\ back' \in [Challan -> Nat] /\ unbacked' \subseteq Challan /\ fulfilled' \in [INV -> BOOLEAN]
          /\ (\A x \in Challan \ {c} : back'[x] = back[x]) /\ back'[c] \in {back[c], out[c]}
          /\ (\A i \in INV : fulfilled'[i] => fulfilled[i]) /\ (\A i \in INV : fulfilled'[i] # fulfilled[i] => i = n.of)
      <4>1. CASE Posted(c)
        <5>1. /\ back' = [back EXCEPT ![c] = out[c]] /\ unbacked' = unbacked
              /\ fulfilled' = [fulfilled EXCEPT ![challan[c].of] = fulfilled[challan[c].of] /\ back[c] > 0]
          BY <2>5, <4>1 DEF Reverse
        <5>2. back' \in [Challan -> Nat] /\ (\A x \in Challan \ {c} : back'[x] = back[x]) /\ back'[c] = out[c]
          BY <3>2, <5>1 DEF ChallanTypes
        <5>3. /\ fulfilled' \in [INV -> BOOLEAN] /\ (\A i \in INV : fulfilled'[i] => fulfilled[i])
              /\ (\A i \in INV : fulfilled'[i] # fulfilled[i] => i = n.of)
          BY <3>1, <3>2, <5>1, Zenon DEF ChallanTypes
        <5> QED
          BY <3>2, <5>1, <5>2, <5>3 DEF ChallanTypes
      <4>2. CASE ~Posted(c)
        <5>1. unbacked' = unbacked \cup {c} /\ back' = back /\ fulfilled' = fulfilled
          BY <2>5, <4>2 DEF Reverse
        <5> QED
          BY <3>2, <5>1 DEF ChallanTypes
      <4> QED
        BY <4>1, <4>2
    <3>4. voided' = voided \cup {c}
      BY <2>1, <2>5
    <3>5. n.status = "CANCELLED"
      BY <2>5, <3>1
    <3>6. /\ ChallanTypes' /\ (\A x \in Challan : ChallanSound(x)') /\ (\A d \in DCReturn : ReturnSound(d)')
          /\ (\A i \in INV : InvoiceSound(i)') /\ ChallanSteady(w) /\ PostedStep
      <4>1. /\ UNCHANGED <<out, dcReturn, received>> /\ (voided' = voided \/ voided' = voided \cup {c})
            /\ (n.status \in {"deleted", "CANCELLED"} => c \in voided')
            /\ (n.status = "DRAFT" => challan[c].status \in {"none", "DRAFT"})
            /\ (IF challan[c].status = "none" THEN n.of # None => status[n.of] # "none" ELSE n.of = challan[c].of)
            /\ (challan[c].status = "none" \/ n.qty = challan[c].qty \/ (Returned(c) = 0 /\ lock[c] \in {None, w}))
            /\ (\A i \in INV : fulfilled'[i] # fulfilled[i] => i = n.of /\ c \in voided')
        BY <1>1, <2>1, <3>1, <3>3, <3>4, <3>5
      <4>2. IInv /\ w \in Worker /\ c \in Challan /\ n \in ChallanRecord /\ challan' = [challan EXCEPT ![c] = n]
        BY <3>1
      <4> QED
        BY ONLY <2>2, <3>3, <4>1, <4>2, RowWrite
    <3> QED
      BY <2>1, <2>2, <3>6, DispatchWrites
  <2> QED
    BY <2>1, <2>4, <2>5
<1> QED
  BY <1>2, <1>3

LEMMA DispatchLocks ==
  ASSUME IInv, NEW w \in Worker, DispatchLock(w)
  PROVE  DispatchOK(w)
<1> USE DocKinds, Apart
<1>1. PICK c \in Challan : c = on[w] /\ challan[c].status # "none"
  BY OnItsChallan DEF DispatchLock
<1>2. CASE Gone(c) \/ ~MayDispatch(c)
  BY <1>1, <1>2, DispatchAbort DEF DispatchLock, Abort
<1>3. CASE ~(Gone(c) \/ ~MayDispatch(c))
  <2>1. IsDeferred(c) /\ UNCHANGED data /\ Lock(w, DispatchRows(c)) /\ Go(w, "dispatch", c, NothingSeen) /\ MayDispatch(c)
    BY <1>1, <1>3 DEF DispatchLock
  <2>2. PICK i \in INV : i = challan[c].of /\ Deferred(i)
    BY <2>1 DEF IsDeferred, IInv, DispatchInv, ChallanTypes
  <2>3. source[i] \in PI
    BY <2>2, DeferredOrigin
  <2>4. ChallanTypes /\ ChallanSound(c) /\ challan[c].qty > 0 /\ challan[c].qty \in Int
    BY <1>1 DEF IInv, DispatchInv, ChallanSound, ChallanTypes
  <2>5. out[c] > 0 \/ Shipped(i) + challan[c].qty <= Units
    <3>1. Posted(c) \/ challan[c].qty <= Pending(i, c)
      BY <2>1, <2>2 DEF MayDispatch
    <3>2. CASE out[c] = 0
      BY <2>4, <3>1, <3>2, PendingFits DEF Posted
    <3>3. CASE out[c] # 0
      BY <2>4, <3>3 DEF ChallanTypes
    <3> QED
      BY <3>2, <3>3
  <2>6. Passes(w) /\ At(w, "dispatch", c, NothingSeen) /\ lock'[c] = w /\ lock'[i] = w
    <3>1. DispatchRows(c) \in SUBSET Row /\ c \in DispatchRows(c) /\ i \in DispatchRows(c)
      BY <2>2 DEF DispatchRows, Row, Doc
    <3>2. "dispatch" \in Control /\ c \in Row \cup {None}
      BY DEF Control, DispatchControl, Row
    <3> QED
      BY <2>1, <3>1, <3>2, LockPasses, NothingIsSeen DEF IInv
  <2>7. Shipped(i)' = Shipped(i) /\ challan' = challan /\ out' = out /\ source' = source
    BY <2>1 DEF data, dispatchVars, docVars, Shipped, PostedBy, ChallansOf
  <2>8. OnChallan(w)' /\ OnDispatch(w)'
    BY <1>1, <2>2, <2>3, <2>5, <2>6, <2>7 DEF OnChallan, OnDispatch, At
  <2>9. OnDoc(w)' /\ pc'[w] \notin ReturnControl
    BY <2>6, IdleRelies DEF At, ChainControl, ReturnControl
  <2> QED
    BY <2>1, <2>6, <2>8, <2>9, DispatchQuiet
<1> QED
  BY <1>2, <1>3

LEMMA Dispatches ==
  ASSUME IInv, NEW w \in Worker, DispatchWrite(w)
  PROVE  DispatchOK(w)
<1> USE DocKinds, Apart
<1>1. PICK c \in Challan : c = on[w] /\ challan[c].status # "none"
  BY OnItsChallan DEF DispatchWrite
<1>2. /\ SetStatus(c, "IN_TRANSIT") /\ Issue(c) /\ End(w)
      /\ UNCHANGED <<voided, back, unbacked, dcReturn, received>> /\ UNCHANGED <<mix, docVars, returnVars>>
  BY <1>1 DEF DispatchWrite, UnchangedElsewhere
<1>3. Passes(w) /\ pc'[w] = "idle" /\ ChainInv' /\ DocsKept(w) /\ UNCHANGED docVars
  BY <1>2, EndPasses, DispatchDocs DEF IInv
<1>4. "IN_TRANSIT" \in ACTIVE /\ "IN_TRANSIT" \in {"deleted"} \cup ChallanStatus
  BY DEF ACTIVE, ChallanStatus
<1>5. CASE Posted(c)
  <2>1. UNCHANGED <<out, fulfilled>>
    BY <1>2, <1>5 DEF Issue
  <2> QED
    BY <1>1, <1>2, <1>3, <1>4, <2>1, StatusOnly
<1>6. CASE ~Posted(c)
  <2>1. PICK n \in ChallanRecord :
          challan' = [challan EXCEPT ![c] = n] /\ n.status = "IN_TRANSIT" /\ n.of = challan[c].of /\ n.qty = challan[c].qty
    BY <1>1, <1>2, <1>4, StatusRecord
  <2>2. PICK i \in INV : /\ i = challan[c].of /\ source[i] \in PI /\ lock[i] = w
                         /\ out[c] > 0 \/ Shipped(i) + challan[c].qty <= Units
    BY <1>1 DEF DispatchWrite, IInv, DispatchInv, OnDispatch
  <2>3. out[c] = 0 /\ Shipped(i) + n.qty <= Units /\ status[i] # "none"
    BY <1>6, <2>1, <2>2 DEF Posted, IInv, DispatchInv, ChallanTypes, ChallanSound
  <2>4. /\ ChallanTypes' /\ (\A x \in Challan : ChallanSound(x)') /\ (\A d \in DCReturn : ReturnSound(d)')
        /\ (\A j \in INV : InvoiceSound(j)') /\ ChallanSteady(w) /\ PostedStep
    <3>1. /\ n.of = i /\ (challan[c].status = "none" \/ (n.of = challan[c].of /\ n.qty = challan[c].qty))
          /\ lock[i] \in {None, w} /\ source[i] \in PI
      BY <2>1, <2>2
    <3>2. IInv /\ w \in Worker /\ n \in ChallanRecord /\ challan' = [challan EXCEPT ![c] = n] /\ n.status = "IN_TRANSIT"
      BY <2>1
    <3> QED
      BY ONLY <1>2, <1>3, <2>3, <3>1, <3>2, IssueWrite
  <2> QED
    BY <1>2, <1>3, <2>4, DispatchWrites
<1> QED
  BY <1>5, <1>6

\* A request only reads.
LEMMA DispatchRead ==
  ASSUME IInv, NEW w \in Worker, NEW p \in DispatchControl, NEW x \in Row \cup {None}, NEW r \in Seen, Read(w, p, x, r),
         At(w, p, x, r) /\ UNCHANGED data => OnDoc(w)' /\ OnChallan(w)' /\ OnDispatch(w)'
  PROVE  DispatchOK(w)
<1>1. Passes(w) /\ At(w, p, x, r) /\ UNCHANGED data
  BY ReadPasses DEF IInv, Control
<1>2. pc'[w] \notin ReturnControl
  BY <1>1 DEF At, DispatchControl, ReturnControl
<1> QED
  BY <1>1, <1>2, DispatchQuiet

LEMMA PendingInt == ASSUME IInv, NEW i \in INV, NEW x PROVE Pending(i, x) \in Int
<1>1. PostedBy(Active(i) \ {x}) \in Nat
  BY PostedNat DEF Active, ChallansOf, IInv, DispatchInv
<1> QED
  BY <1>1 DEF Pending, SalesAssumption

LEMMA SeenNumber == ASSUME NEW k \in Int PROVE [NothingSeen EXCEPT !.n = k] \in Seen /\ [NothingSeen EXCEPT !.n = k].n = k
BY NothingIsSeen DEF Seen

LEMMA ShownChallanSeen == ASSUME IInv, NEW c \in Challan PROVE ShownChallan(c) \in Seen
<1>1. challan[c].status \in RowStatus
  BY DEF IInv, DispatchInv, ChallanTypes, RowStatus
<1>2. \A st \in RowStatus, b \in BOOLEAN : [NothingSeen EXCEPT !.status = st, !.fits = b] \in Seen
  BY NothingIsSeen DEF Seen
<1> DEFINE fits == challan[c].of = None \/ IsDeferred(c) \/ challan[c].qty <= Remaining(challan[c].of, c)
<1>3. fits \in BOOLEAN
  OBVIOUS
<1>4. ShownChallan(c) = [NothingSeen EXCEPT !.status = challan[c].status, !.fits = fits]
  BY DEF ShownChallan
<1> HIDE DEF fits
<1> QED
  BY <1>1, <1>2, <1>3, <1>4

LEMMA InvoiceReads ==
  ASSUME IInv, NEW w \in Worker, NEW i \in INV, ReconcileRead(w, i) \/ CancelInvoiceRead(w, i)
  PROVE  DispatchOK(w)
<1> USE DocKinds, Apart
<1>1. CASE ReconcileRead(w, i)
  <2>1. PICK r \in Seen : r.n = Pending(i, None) /\ Read(w, "reconcile", i, r)
    BY <1>1, PendingInt, SeenNumber DEF ReconcileRead
  <2>2. status[i] # "none" /\ source[i] \in PI /\ r.n > 0
    BY <1>1, <2>1, DeferredOrigin DEF ReconcileRead
  <2>3. ASSUME At(w, "reconcile", i, r), UNCHANGED data
        PROVE  OnDoc(w)' /\ OnChallan(w)' /\ OnDispatch(w)'
    <3>1. OnDoc(w)'
      BY <2>3, IdleRelies DEF At, ChainControl
    <3>2. OnChallan(w)' /\ OnDispatch(w)'
      BY <2>2, <2>3 DEF At, OnChallan, OnDispatch, data, docVars
    <3> QED
      BY <3>1, <3>2
  <2>4. "reconcile" \in DispatchControl /\ i \in Row \cup {None}
    BY DEF DispatchControl
  <2> QED
    BY <2>1, <2>3, <2>4, DispatchRead
<1>2. CASE CancelInvoiceRead(w, i)
  <2>1. status[i] # "none" /\ Read(w, "cancelInvoice", i, NothingSeen)
    BY <1>2 DEF CancelInvoiceRead
  <2>2. ASSUME At(w, "cancelInvoice", i, NothingSeen), UNCHANGED data
        PROVE  OnDoc(w)' /\ OnChallan(w)' /\ OnDispatch(w)'
    <3>1. OnDoc(w)'
      BY <2>1, <2>2 DEF At, OnDoc, OnEstimate, OnOrder, OnProforma, OnInvoice, data, docVars
    <3>2. OnChallan(w)' /\ OnDispatch(w)'
      BY <2>2 DEF At, OnChallan, OnDispatch
    <3> QED
      BY <3>1, <3>2
  <2>3. "cancelInvoice" \in DispatchControl /\ i \in Row \cup {None}
    BY DEF DispatchControl
  <2> QED
    BY <2>1, <2>2, <2>3, NothingIsSeen, DispatchRead
<1> QED
  BY <1>1, <1>2

LEMMA ChallanReads ==
  ASSUME IInv, NEW w \in Worker, NEW c \in Challan,
         EditRead(w, c) \/ DeleteRead(w, c) \/ StatusRead(w, c) \/ DeliverRead(w, c)
  PROVE  DispatchOK(w)
<1> USE DocKinds, Apart
<1>1. PICK p \in {"editChallan", "deleteChallan", "challanStatus", "deliver"}, r \in Seen : Read(w, p, c, r)
  BY NothingIsSeen, ShownChallanSeen DEF EditRead, DeleteRead, StatusRead, DeliverRead
<1>2. challan[c].status # "none"
  BY DEF EditRead, DeleteRead, StatusRead, DeliverRead
<1>3. ASSUME At(w, p, c, r), UNCHANGED data
      PROVE  OnDoc(w)' /\ OnChallan(w)' /\ OnDispatch(w)'
  <2>1. OnDoc(w)'
    BY <1>3, IdleRelies DEF At, ChainControl
  <2>2. OnChallan(w)' /\ OnDispatch(w)'
    BY <1>2, <1>3 DEF At, OnChallan, OnDispatch, data, dispatchVars
  <2> QED
    BY <2>1, <2>2
<1>4. p \in DispatchControl /\ c \in Row \cup {None}
  BY DEF DispatchControl
<1> QED
  BY <1>1, <1>3, <1>4, DispatchRead

-----------------------------------------------------------------------------
(* Returns of challans. *)

LEMMA ReturnedNat ==
  ASSUME ChallanTypes, NEW c
  PROVE  /\ Returned(c) \in Nat /\ IsFiniteSet(ReturnsOf(c))
         /\ Ints([d \in DCReturn |-> dcReturn[d].qty], ReturnsOf(c))
<1>1. IsFiniteSet(ReturnsOf(c)) /\ Nats([d \in DCReturn |-> dcReturn[d].qty], ReturnsOf(c))
  BY FS_Subset DEF SalesAssumption, ReturnsOf, ChallanTypes, Nats
<1> QED
  BY <1>1, SumNat DEF Returned, Nats, Ints

LEMMA ReturnLocks ==
  ASSUME IInv, NEW w \in Worker,
         (\E c \in Challan, q \in Quantity : RaiseLock(w, c, q)) \/ (\E d \in DCReturn : ReceiveLock(w, d))
  PROVE  DispatchOK(w)
<1> USE DocKinds, Apart
<1>1. ASSUME NEW c \in Challan, NEW q \in Quantity, RaiseLock(w, c, q) PROVE DispatchOK(w)
  <2>1. q \in 1..Units /\ q \in Int
    BY DEF SalesAssumption
  <2>2. PICK r \in Seen : r.n = q /\ Go(w, "raiseReturn", c, r)
    BY <1>1, <2>1, SeenNumber DEF RaiseLock
  <2>3. /\ UNCHANGED data /\ Lock(w, {c}) /\ challan[c].status # "none" /\ q <= challan[c].qty - Returned(c)
    BY <1>1 DEF RaiseLock, ReturnRows
  <2>4. Passes(w) /\ At(w, "raiseReturn", c, r) /\ lock'[c] = w
    <3>1. "raiseReturn" \in Control /\ c \in Row \cup {None} /\ {c} \in SUBSET Row
      BY DEF Control, DispatchControl
    <3> QED
      BY <2>2, <2>3, <3>1, LockPasses DEF IInv
  <2>5. Returned(c) + q <= challan[c].qty
    <3>1. Returned(c) \in Nat /\ challan[c].qty \in Int
      <4>1. ChallanTypes
        BY DEF IInv, DispatchInv
      <4>2. Returned(c) \in Nat
        BY <4>1, ReturnedNat
      <4> QED
        BY <4>1, <4>2 DEF ChallanTypes
    <3> QED
      BY <2>1, <2>3, <3>1
  <2>6. Returned(c)' = Returned(c) /\ challan' = challan
    BY <2>3 DEF data, dispatchVars, Returned, ReturnsOf
  <2>7. OnChallan(w)' /\ OnDispatch(w)'
    BY <2>1, <2>2, <2>3, <2>4, <2>5, <2>6 DEF At, OnChallan, OnDispatch
  <2>8. OnDoc(w)' /\ pc'[w] \notin ReturnControl
    BY <2>4, IdleRelies DEF At, ChainControl, ReturnControl
  <2> QED
    BY <2>3, <2>4, <2>7, <2>8, DispatchQuiet
<1>2. ASSUME NEW d \in DCReturn, ReceiveLock(w, d) PROVE DispatchOK(w)
  <2>1. UNCHANGED data /\ Lock(w, {d}) /\ dcReturn[d].status = "PENDING" /\ Go(w, "receive", d, NothingSeen)
    BY <1>2 DEF ReceiveLock, ReceiveRows
  <2>2. Passes(w) /\ At(w, "receive", d, NothingSeen) /\ lock'[d] = w
    <3>1. "receive" \in Control /\ d \in Row \cup {None} /\ {d} \in SUBSET Row
      BY DEF Control, DispatchControl
    <3> QED
      BY <2>1, <3>1, NothingIsSeen, LockPasses DEF IInv
  <2>3. OnChallan(w)' /\ OnDispatch(w)'
    BY <2>1, <2>2 DEF At, OnChallan, OnDispatch, data, dispatchVars
  <2>4. OnDoc(w)' /\ pc'[w] \notin ReturnControl
    BY <2>2, IdleRelies DEF At, ChainControl, ReturnControl
  <2> QED
    BY <2>1, <2>2, <2>3, <2>4, DispatchQuiet
<1> QED
  BY <1>1, <1>2

\* Rows of challans' returns are written, and nothing else of dispatch.
LEMMA ReturnWrites ==
  ASSUME IInv, NEW w \in Worker, Passes(w), pc'[w] = "idle", UNCHANGED <<mix, docVars, returnVars>>,
         UNCHANGED <<challan, voided, out, back, unbacked, fulfilled>>,
         dcReturn' \in [DCReturn -> [status : {"none", "PENDING", "RECEIVED"}, of : Challan \cup {None}, qty : 0..Units]],
         received' \in [DCReturn -> Nat], \A d \in DCReturn : ReturnSound(d)',
         \A c \in Challan : Returned(c)' <= challan[c].qty,
         \A c \in Challan : lock[c] \notin {None, w} => Returned(c)' = Returned(c),
         \A d \in DCReturn : dcReturn[d].status # "none" /\ lock[d] \notin {None, w} => dcReturn'[d] = dcReturn[d]
  PROVE  DispatchOK(w)
<1>1. ChainInv' /\ DocsKept(w) /\ ChallanTypes /\ UNCHANGED <<status, source>>
  BY DispatchDocs DEF IInv, DispatchInv, docVars
<1>2. ChallanTypes'
  BY <1>1 DEF ChallanTypes
<1>3. \A c \in Challan : ChallanSound(c)'
  BY <1>1 DEF IInv, DispatchInv, ChallanSound
<1>4. \A i \in INV : Shipped(i)' = Shipped(i) /\ Shipped(i) \in Nat
  BY <1>1, ShippedNat DEF Shipped, PostedBy, ChallansOf
<1>5. \A i \in INV : InvoiceSound(i)'
  BY <1>1, <1>4 DEF IInv, DispatchInv, InvoiceSound, Marked, ChallansOf, Active, PostedBy
<1>6. ChallanSteady(w)
  BY <1>4 DEF ChallanSteady
<1>7. PostedStep
  BY PostedSame
<1> QED
  BY <1>1, <1>2, <1>3, <1>5, <1>6, <1>7, DispatchWrites

LEMMA Raises ==
  ASSUME IInv, NEW w \in Worker, RaiseWrite(w)
  PROVE  DispatchOK(w)
<1> USE DocKinds, Apart
<1>1. PICK c \in Challan : /\ c = on[w] /\ lock[c] = w /\ seen[w].n \in 1..Units /\ Returned(c) + seen[w].n <= challan[c].qty
  BY OnItsChallan DEF RaiseWrite, IInv, DispatchInv, OnChallan
<1>2. PICK d \in DCReturn :
        /\ dcReturn[d].status = "none"
        /\ dcReturn' = [dcReturn EXCEPT ![d] = [status |-> "PENDING", of |-> c, qty |-> seen[w].n]]
  BY <1>1 DEF RaiseWrite
<1>3. /\ End(w) /\ UNCHANGED <<mix, docVars, returnVars>>
      /\ UNCHANGED <<challan, voided, out, back, unbacked, fulfilled, received>>
  BY DEF RaiseWrite, UnchangedElsewhere
<1>4. ChallanTypes /\ (\A e \in DCReturn : ReturnSound(e)) /\ (\A x \in Challan : ChallanSound(x))
  BY DEF IInv, DispatchInv
<1> DEFINE k == seen[w].n
           n == [status |-> "PENDING", of |-> c, qty |-> k]
<1>5. /\ dcReturn' \in [DCReturn -> [status : {"none", "PENDING", "RECEIVED"}, of : Challan \cup {None}, qty : 0..Units]]
      /\ dcReturn'[d] = n /\ \A e \in DCReturn \ {d} : dcReturn'[e] = dcReturn[e]
  <2>1. n \in [status : {"none", "PENDING", "RECEIVED"}, of : Challan \cup {None}, qty : 0..Units]
    BY <1>1 DEF SalesAssumption
  <2> QED
    BY <1>2, <1>4, <2>1 DEF ChallanTypes
<1>6. dcReturn[d].of = None /\ received[d] = 0 /\ n.of = c /\ n.qty = k /\ n.status = "PENDING" /\ k \in Nat /\ k > 0
  BY <1>1, <1>2, <1>4 DEF ReturnSound, ChallanTypes, SalesAssumption
<1> HIDE DEF n, k
<1>7. \A e \in DCReturn : ReturnSound(e)'
  BY <1>3, <1>4, <1>5, <1>6 DEF ReturnSound
<1>8. ASSUME NEW x \in Challan
      PROVE  (x = c => Returned(x)' = Returned(x) + k) /\ (x # c => Returned(x)' = Returned(x)) /\ Returned(x) \in Nat
  <2> DEFINE f == [e \in DCReturn |-> dcReturn[e].qty]
             g == [e \in DCReturn |-> dcReturn'[e].qty]
             S == ReturnsOf(x)
             T == ReturnsOf(x)'
  <2>1. Returned(x) = SumOf(f, S) /\ Returned(x)' = SumOf(g, T)
    BY DEF Returned
  <2>2. IsFiniteSet(S) /\ Ints(f, S) /\ SumOf(f, S) \in Nat /\ S \subseteq DCReturn /\ d \notin S
    <3>1. d \notin S /\ S \subseteq DCReturn
      BY <1>6 DEF ReturnsOf
    <3> QED
      BY <1>4, <2>1, <3>1, ReturnedNat
  <2>3. (\A e \in S : g[e] = f[e]) /\ g[d] = k /\ (x = c => T = S \cup {d}) /\ (x # c => T = S)
    <3>1. \A e \in S : g[e] = f[e]
      BY <1>5, <2>2
    <3>2. g[d] = k
      BY <1>5, <1>6
    <3>3. (x = c => T = S \cup {d}) /\ (x # c => T = S)
      BY <1>5, <1>6 DEF ReturnsOf
    <3> QED
      BY <3>1, <3>2, <3>3
  <2> HIDE DEF f, g, S, T
  <2>4. SumOf(g, S) = SumOf(f, S)
    BY <2>2, <2>3, SumSame
  <2>5. CASE x = c
    <3>1. Ints(g, S \cup {d})
      BY <1>6, <2>2, <2>3 DEF Ints
    <3>2. SumOf(g, S \cup {d}) = g[d] + SumOf(g, S)
      BY <2>2, <3>1, SumAdd
    <3>3. SumOf(g, T) = SumOf(f, S) + k
      <4>1. T = S \cup {d} /\ g[d] = k
        BY <2>3, <2>5
      <4>2. SumOf(g, T) = k + SumOf(f, S)
        BY ONLY <2>4, <3>2, <4>1
      <4> QED
        BY ONLY <1>6, <2>2, <4>2
    <3> QED
      BY <2>1, <2>2, <2>5, <3>3
  <2>6. CASE x # c
    <3>1. SumOf(g, T) = SumOf(f, S)
      BY <2>3, <2>4, <2>6
    <3> QED
      BY <2>1, <2>2, <2>6, <3>1
  <2> QED
    BY <2>5, <2>6
<1>9. \A x \in Challan : Returned(x)' <= challan[x].qty
  BY <1>1, <1>4, <1>8 DEF ChallanSound, k
<1>10. \A x \in Challan : lock[x] \notin {None, w} => Returned(x)' = Returned(x)
  BY <1>1, <1>8
<1>11. \A e \in DCReturn : dcReturn[e].status # "none" /\ lock[e] \notin {None, w} => dcReturn'[e] = dcReturn[e]
  BY <1>2, <1>5
<1>12. Passes(w) /\ pc'[w] = "idle" /\ received' \in [DCReturn -> Nat]
  BY <1>3, <1>4, EndPasses DEF IInv, ChallanTypes
<1> QED
  BY <1>3, <1>5, <1>7, <1>9, <1>10, <1>11, <1>12, ReturnWrites

LEMMA Receives ==
  ASSUME IInv, NEW w \in Worker, ReceiveWrite(w)
  PROVE  DispatchOK(w)
<1> USE DocKinds, Apart
<1>1. PICK d \in DCReturn : d = on[w] /\ lock[d] = w /\ dcReturn[d].status = "PENDING"
  BY DEF ReceiveWrite, IInv, DispatchInv, OnChallan
<1>2. ChallanTypes /\ (\A e \in DCReturn : ReturnSound(e)) /\ (\A x \in Challan : ChallanSound(x))
  BY DEF IInv, DispatchInv
<1>3. /\ End(w) /\ UNCHANGED <<mix, docVars, returnVars>>
      /\ UNCHANGED <<challan, voided, out, back, unbacked, fulfilled>>
      /\ dcReturn' = [dcReturn EXCEPT ![d].status = "RECEIVED"]
  BY <1>1 DEF ReceiveWrite, UnchangedElsewhere
<1>4. PICK good \in BOOLEAN : received' = [received EXCEPT ![d] = IF good THEN @ + dcReturn[d].qty ELSE @]
  BY <1>1 DEF ReceiveWrite
<1>5. /\ dcReturn' \in [DCReturn -> [status : {"none", "PENDING", "RECEIVED"}, of : Challan \cup {None}, qty : 0..Units]]
      /\ \A e \in DCReturn : dcReturn'[e].of = dcReturn[e].of /\ dcReturn'[e].qty = dcReturn[e].qty
      /\ \A e \in DCReturn \ {d} : dcReturn'[e] = dcReturn[e]
      /\ dcReturn'[d].status = "RECEIVED"
  BY <1>2, <1>3 DEF ChallanTypes
<1>6. received[d] = 0 /\ dcReturn[d].qty \in Nat
  BY <1>1, <1>2 DEF ReturnSound, ChallanTypes, SalesAssumption
<1>7. /\ received' \in [DCReturn -> Nat] /\ received'[d] \in {0, dcReturn[d].qty}
      /\ \A e \in DCReturn \ {d} : received'[e] = received[e]
  BY <1>2, <1>4, <1>6 DEF ChallanTypes
<1>8. \A e \in DCReturn : ReturnSound(e)'
  BY <1>1, <1>2, <1>5, <1>6, <1>7 DEF ReturnSound
<1>9. \A x \in Challan : Returned(x)' = Returned(x)
  <2>1. [e \in DCReturn |-> dcReturn'[e].qty] = [e \in DCReturn |-> dcReturn[e].qty]
    BY <1>5
  <2>2. \A x \in Challan : ReturnsOf(x)' = ReturnsOf(x)
    BY <1>5 DEF ReturnsOf
  <2> QED
    BY <2>1, <2>2 DEF Returned
<1>10. \A x \in Challan : Returned(x)' <= challan[x].qty
  BY <1>2, <1>9 DEF ChallanSound
<1>11. \A e \in DCReturn : dcReturn[e].status # "none" /\ lock[e] \notin {None, w} => dcReturn'[e] = dcReturn[e]
  BY <1>1, <1>5
<1>12. Passes(w) /\ pc'[w] = "idle"
  BY <1>3, EndPasses DEF IInv
<1> QED
  BY <1>3, <1>5, <1>7, <1>8, <1>9, <1>10, <1>11, <1>12, ReturnWrites

\* A direct challan is made a sale.
LEMMA Converts ==
  ASSUME IInv, NEW w \in Worker, NEW c \in Challan, ConvertChallan(w, c)
  PROVE  DispatchOK(w)
<1> USE DocKinds, Apart
<1>1. PICK i \in INV : /\ status[i] = "none" /\ status' = [status EXCEPT ![i] = "PENDING"]
                       /\ source' = [source EXCEPT ![i] = c] /\ lines' = [lines EXCEPT ![i] = {0}]
  BY DEF ConvertChallan
<1>2. /\ Idle(w, "convertChallan") /\ challan[c].status = "CLOSED" /\ SetStatus(c, "CONVERTED")
      /\ UNCHANGED <<mix, converted, proforma, edits, voided, out, back, unbacked, fulfilled, dcReturn, received>>
      /\ UNCHANGED returnVars /\ UNCHANGED <<lock, pc, on, seen>>
  BY DEF ConvertChallan
<1>3. Passes(w) /\ pc'[w] = "idle"
  BY <1>2, StayPasses DEF Idle, IInv
<1>4. DocTypes /\ Versions /\ OrderThere /\ OnePerSource /\ {0} \in SUBSET Version
  BY DEF IInv, ChainInv, Version, SalesAssumption
<1>5. /\ status'[i] = "PENDING" /\ source'[i] = c /\ lines'[i] = {0}
      /\ status' \in [Doc -> RowStatus] /\ source' \in [Doc -> Row \cup {None, Key}] /\ lines' \in [Doc -> SUBSET Version]
      /\ \A e \in Doc \ {i} : status'[e] = status[e] /\ source'[e] = source[e] /\ lines'[e] = lines[e]
  BY <1>1, <1>4 DEF DocTypes, RowStatus, InvoiceStatus
<1>6. DocTypes'
  BY <1>2, <1>4, <1>5 DEF DocTypes, InvoiceStatus
<1>7. Versions' /\ OrderThere'
  BY <1>2, <1>4, <1>5 DEF Versions, OrderThere, Kept, Exists
<1>8. OnePerSource'
  <2>1. \A p \in PI, so \in SO : source'[p] = so => proforma'[so] = p
    BY <1>2, <1>4, <1>5 DEF OnePerSource
  <2>2. i \in SO \cup PI \cup INV /\ i \notin SO /\ i \notin PI /\ c \notin SO
    OBVIOUS
  <2> QED
    BY <1>1, <1>4, <2>1, <2>2, OneMore
<1>9. DocSteady(w) /\ EditWhole
  <2>1. DocSteady(w)
    BY <1>1, <1>2, <1>5 DEF DocSteady
  <2>2. EditWhole
    BY <1>5 DEF EditWhole
  <2> QED
    BY <2>1, <2>2
<1>10. ChainInv'
  <2>1. \A v \in Worker : OnDoc(v)'
    BY <1>3, <1>9, IdleRelies, DocOthers DEF ChainControl, Passes
  <2> QED
    BY <1>6, <1>7, <1>8, <2>1 DEF ChainInv
<1>11. "CONVERTED" \in ACTIVE
  BY DEF ACTIVE
<1> QED
  BY <1>2, <1>3, <1>9, <1>10, <1>11, StatusOnly DEF DocsKept

LEMMA CancelsInvoice ==
  ASSUME IInv, NEW w \in Worker, CancelInvoiceWrite(w)
  PROVE  DispatchOK(w)
<1> USE DocKinds, Apart
<1>1. PICK i \in INV : i = on[w] /\ status[i] # "none"
  BY DEF CancelInvoiceWrite, IInv, ChainInv, OnDoc, OnInvoice
<1>2. /\ status' = [status EXCEPT ![i] = "CANCELLED"] /\ End(w)
      /\ UNCHANGED <<mix, source, lines, converted, proforma, edits>> /\ UNCHANGED <<dispatchVars, returnVars>>
  BY <1>1 DEF CancelInvoiceWrite
<1>3. Passes(w) /\ pc'[w] = "idle"
  BY <1>2, EndPasses DEF IInv
<1>4. DocTypes' /\ Versions' /\ OrderThere' /\ OnePerSource' /\ DocsKept(w)
  <2>1. DocTypes
    BY DEF IInv, ChainInv
  <2>2. lines[i] \in SUBSET Version /\ lines' = [lines EXCEPT ![i] = lines[i]] /\ edits \in Version /\ edits' = edits
    BY <1>2, <2>1 DEF DocTypes
  <2>3. "CANCELLED" \in RowStatus \ {"none"} /\ "CANCELLED" \in InvoiceStatus
    BY DEF RowStatus, InvoiceStatus
  <2>4. i \in Doc /\ i # Estimate /\ i \notin SO /\ i \notin PI
    OBVIOUS
  <2> QED
    BY <1>2, <2>2, <2>3, <2>4, EditKeeps
<1>5. ChainOK(w)
  BY <1>2, <1>3, <1>4, ChainWrite
<1>6. DispatchInv'
  BY <1>2, <1>3, <1>4, IdleRelies, ChallansUntouched DEF DocsKept, DispatchControl
<1>7. PostedStep
  BY <1>2, PostedSame DEF dispatchVars
<1> QED
  BY <1>2, <1>3, <1>5, <1>6, <1>7 DEF ChainOK, DispatchOK, ReturnControl

\* Every operation on challans keeps the documents' and the challans' parts.
LEMMA DispatchKeeps ==
  ASSUME IInv, NEW w \in Worker, DispatchArrive(w) \/ DispatchStep(w)
  PROVE  DispatchOK(w)
<1>1. CASE DispatchStep(w)
  <2>1. CASE ReconcileWrite(w) \/ EditWrite(w) \/ DeleteWrite(w)
    BY <2>1, Reconciles, Edits, Deletes
  <2>2. CASE DispatchLock(w) \/ DispatchWrite(w) \/ DeliverWrite(w)
    BY <2>2, DispatchLocks, Dispatches, Deletes
  <2>3. CASE \E st \in {"IN_TRANSIT", "CLOSED", "CANCELLED"} : StatusWrite(w, st)
    BY <2>3, Statuses
  <2>4. CASE RaiseWrite(w) \/ ReceiveWrite(w) \/ CancelInvoiceWrite(w)
    BY <2>4, Raises, Receives, CancelsInvoice
  <2> QED
    BY <1>1, <2>1, <2>2, <2>3, <2>4 DEF DispatchStep
<1>2. CASE DispatchArrive(w)
  <2>1. CASE \E q \in Quantity : \/ CreateChallan(w, None, q)
                                 \/ \E i \in INV : CreateChallan(w, i, q) \/ CreateDispatched(w, i, q)
    BY <2>1, CreateChallans, CreateDispatches
  <2>2. CASE \E i \in INV : ReconcileRead(w, i) \/ CancelInvoiceRead(w, i)
    BY <2>2, InvoiceReads
  <2>3. CASE \E c \in Challan : EditRead(w, c) \/ DeleteRead(w, c) \/ StatusRead(w, c) \/ DeliverRead(w, c)
    BY <2>3, ChallanReads
  <2>4. CASE \E c \in Challan : ConvertChallan(w, c)
    BY <2>4, Converts
  <2>5. CASE (\E c \in Challan, q \in Quantity : RaiseLock(w, c, q)) \/ (\E d \in DCReturn : ReceiveLock(w, d))
    BY <2>5, ReturnLocks
  <2> QED
    BY <1>2, <2>1, <2>2, <2>3, <2>4, <2>5 DEF DispatchArrive
<1> QED
  BY <1>1, <1>2

-----------------------------------------------------------------------------
(* Customers' returns. *)

ReturnOK(w) ==
  /\ Passes(w) /\ ReturnInv' /\ UNCHANGED <<mix, docVars, dispatchVars>>
  /\ pc'[w] \notin ChainControl \cup DispatchControl

LEMMA ReturnQuiet ==
  ASSUME IInv, NEW w \in Worker, Passes(w), UNCHANGED data, OnReturn(w)', pc'[w] \notin ChainControl \cup DispatchControl
  PROVE  ReturnOK(w)
BY ReturnsUntouched DEF ReturnOK, data

LEMMA ReturnAbort ==
  ASSUME IInv, NEW w \in Worker, Abort(w)
  PROVE  ReturnOK(w)
<1>1. Passes(w) /\ pc'[w] = "idle" /\ UNCHANGED data
  BY AbortUnchanged
<1>2. OnReturn(w)' /\ pc'[w] \notin ChainControl \cup DispatchControl
  BY <1>1, IdleRelies DEF ReturnControl, ChainControl, DispatchControl
<1> QED
  BY <1>1, <1>2, ReturnQuiet

\* Rows of returns are written.
LEMMA ReturnWritten ==
  ASSUME IInv, NEW w \in Worker, Passes(w), pc'[w] = "idle", UNCHANGED <<mix, docVars, dispatchVars>>,
         ReturnTypes', \A r \in Return : RefundSound(r)', \A i \in INV : NotRejected(i)' <= Units, ReturnSteady(w)
  PROVE  ReturnOK(w)
<1>1. OnReturn(w)' /\ pc'[w] \notin ChainControl \cup DispatchControl
  BY IdleRelies DEF ReturnControl, ChainControl, DispatchControl
<1>2. ReturnTypes
  BY DEF IInv, ReturnInv
<1>3. \A i \in INV : NotRejected(i) \in Nat /\ NotRejected(i)' \in Nat
  <2>1. \A i : NotRejected(i) \in Nat
    BY <1>2, NotRejectedNat
  <2>2. ASSUME NEW i PROVE NotRejected(i)' \in Nat
    <3> DEFINE S == (ReturnsAgainst(i) \ rejected)'
    <3>1. S \in SUBSET Return
      BY DEF ReturnsAgainst
    <3>2. IsFiniteSet(S) /\ Nats(Brought', S)
      BY <3>1, FS_Subset DEF SalesAssumption, ReturnTypes, Brought, Nats
    <3>3. SumOf(Brought', S) \in Nat
      BY <3>2, SumNat
    <3> QED
      BY <3>3 DEF NotRejected
  <2> QED
    BY <2>1, <2>2
<1>4. \A v \in Worker \ {w} : OnReturn(v)'
  BY <1>3, ReturnOthers DEF Passes
<1>5. ReturnInv'
  BY <1>1, <1>4 DEF ReturnInv
<1> QED
  BY <1>1, <1>5 DEF ReturnOK

LEMMA SharesNat ==
  ASSUME NEW f \in [Return -> Nat], NEW S \in SUBSET Return
  PROVE  SumOf(f, S) \in Nat
<1>1. IsFiniteSet(S) /\ Nats(f, S)
  BY FS_Subset DEF SalesAssumption, Nats
<1> QED
  BY <1>1, SumNat

LEMMA DueNat ==
  ASSUME IInv, NEW i \in INV, NEW r
  PROVE  /\ Due(i) \in Nat /\ Refundable(i, r) \in Nat
         /\ Due(i) > 0 => paid[i] < Units
<1>1. /\ applied \in [Return -> Nat] /\ cash \in [Return -> Nat] /\ paid[i] \in 0..Units /\ Units \in Nat
  BY DEF IInv, ReturnInv, ReturnTypes, SalesAssumption
<1>2. ReturnsAgainst(i) \in SUBSET Return /\ ReturnsAgainst(i) \ {r} \in SUBSET Return
  BY DEF ReturnsAgainst
<1>3. SumOf(applied, ReturnsAgainst(i)) \in Nat /\ SumOf(cash, ReturnsAgainst(i) \ {r}) \in Nat
  BY <1>1, <1>2, SharesNat
<1> QED
  BY <1>1, <1>3 DEF Due, Refundable, NonNegative

LEMMA Collects ==
  ASSUME IInv, NEW w \in Worker, NEW i \in INV, Collect(w, i)
  PROVE  ReturnOK(w)
<1>1. /\ paid' = [paid EXCEPT ![i] = @ + 1] /\ Due(i) > 0 /\ Idle(w, "collect")
      /\ UNCHANGED <<ret, rejected, restocked, applied, cash>> /\ UNCHANGED <<lock, pc, on, seen>>
      /\ UNCHANGED <<mix, docVars, dispatchVars>>
  BY DEF Collect, UnchangedOthers
<1>2. Passes(w) /\ pc'[w] = "idle"
  BY <1>1, StayPasses DEF Idle, IInv
<1>3. ReturnTypes /\ (\A r \in Return : RefundSound(r)) /\ (\A j \in INV : NotRejected(j) <= Units)
  BY DEF IInv, ReturnInv
<1>4. paid[i] < Units
  BY <1>1, DueNat
<1>5. ReturnTypes'
  BY <1>1, <1>3, <1>4 DEF ReturnTypes, SalesAssumption
<1>6. \A r \in Return : RefundSound(r)'
  BY <1>1, <1>3 DEF RefundSound
<1>7. \A j \in INV : NotRejected(j)' = NotRejected(j) /\ NotRejected(j) \in Nat
  BY <1>1, <1>3, NotRejectedNat DEF NotRejected, Brought, ReturnsAgainst
<1>8. ReturnSteady(w)
  BY <1>1, <1>7 DEF ReturnSteady
<1> QED
  BY <1>1, <1>2, <1>3, <1>5, <1>6, <1>7, <1>8, ReturnWritten

LEMMA ReturnReads ==
  ASSUME IInv, NEW w \in Worker, NEW r \in Return, UpdateReturnRead(w, r) \/ RefundLock(w, r)
  PROVE  ReturnOK(w)
<1> USE DocKinds, Apart
<1>1. ReturnTypes /\ RefundSound(r) /\ ret[r].status # "none"
  BY DEF IInv, ReturnInv, UpdateReturnRead, RefundLock
<1>2. \A st \in RowStatus, k \in Int : [NothingSeen EXCEPT !.status = st, !.n = k] \in Seen
  BY NothingIsSeen DEF Seen
<1>3. CASE UpdateReturnRead(w, r)
  <2>1. PICK x \in Seen : Read(w, "updateReturn", r, x)
    <3>1. ret[r].status \in RowStatus /\ restocked[r] \in Int
      BY <1>1 DEF ReturnTypes, RowStatus
    <3> QED
      BY <1>2, <1>3, <3>1 DEF UpdateReturnRead
  <2>2. Passes(w) /\ At(w, "updateReturn", r, x) /\ UNCHANGED data
    BY <2>1, ReadPasses DEF IInv, Control, ReturnControl
  <2>3. OnReturn(w)' /\ pc'[w] \notin ChainControl \cup DispatchControl
    BY <1>1, <2>2 DEF OnReturn, At, data, returnVars, ChainControl, DispatchControl
  <2> QED
    BY <2>2, <2>3, ReturnQuiet
<1>4. CASE RefundLock(w, r)
  <2>1. ret[r].of \in INV
    BY <1>1 DEF RefundSound
  <2>2. ASSUME NEW k \in Nat, NEW m \in Nat
        PROVE  [NothingSeen EXCEPT !.n = k, !.m = m] \in Seen /\ [NothingSeen EXCEPT !.n = k, !.m = m].n >= 0
    <3>1. [NothingSeen EXCEPT !.n = k, !.m = m] \in Seen
      <4>1. ASSUME NEW r0 \in Seen PROVE [r0 EXCEPT !.m = m] \in Seen
        BY ONLY m \in Nat DEF Seen
      <4>2. [NothingSeen EXCEPT !.n = k] \in Seen
        BY SeenNumber
      <4>3. [[NothingSeen EXCEPT !.n = k] EXCEPT !.m = m] \in Seen
        BY ONLY <4>1, <4>2
      <4>4. [NothingSeen EXCEPT !.n = k, !.m = m] = [[NothingSeen EXCEPT !.n = k] EXCEPT !.m = m]
        BY ONLY NothingIsSeen DEF Seen
      <4> QED
        BY ONLY <4>3, <4>4
    <3>2. [NothingSeen EXCEPT !.n = k, !.m = m].n = k
      BY ONLY NothingIsSeen DEF Seen
    <3> QED
      BY <3>1, <3>2
  <2>3. PICK x \in Seen : x.n >= 0 /\ Go(w, "refund", r, x)
    BY <1>4, <2>1, <2>2, DueNat DEF RefundLock
  <2>4. Lock(w, {r}) /\ UNCHANGED data
    BY <1>4 DEF RefundLock, RefundRows
  <2>5. Passes(w) /\ At(w, "refund", r, x)
    <3>1. "refund" \in Control /\ r \in Row \cup {None} /\ {r} \in SUBSET Row
      BY DEF Control, ReturnControl
    <3> QED
      BY <2>3, <2>4, <3>1, LockPasses DEF IInv
  <2>6. OnReturn(w)' /\ pc'[w] \notin ChainControl \cup DispatchControl
    BY <1>1, <2>3, <2>4, <2>5 DEF OnReturn, At, data, returnVars, ChainControl, DispatchControl
  <2> QED
    BY <2>4, <2>5, <2>6, ReturnQuiet
<1> QED
  BY <1>3, <1>4

LEMMA CreateReturnLocks ==
  ASSUME IInv, NEW w \in Worker, NEW i \in INV, NEW q \in Quantity, CreateReturnLock(w, i, q)
  PROVE  ReturnOK(w)
<1> USE DocKinds, Apart
<1>1. q \in 1..Units /\ q \in Int
  <2>1. Quantity \subseteq 1..Units /\ Units \in Nat
    BY DEF SalesAssumption
  <2> QED
    BY ONLY <2>1, q \in Quantity
<1>2. PICK x \in Seen : x.n = q /\ Go(w, "createReturn", i, x)
  BY <1>1, SeenNumber DEF CreateReturnLock
<1>3. Lock(w, {i}) /\ UNCHANGED data /\ q <= Units - AlreadyReturned(i)
  BY DEF CreateReturnLock, SaleRows
<1>4. Passes(w) /\ At(w, "createReturn", i, x) /\ lock'[i] = w
  <2>1. "createReturn" \in Control /\ i \in Row \cup {None} /\ {i} \in SUBSET Row
    BY DEF Control, ReturnControl
  <2> QED
    BY <1>2, <1>3, <2>1, LockPasses DEF IInv
<1>5. ReturnTypes /\ \A r \in Return : RefundSound(r)
  BY DEF IInv, ReturnInv
<1>6. NotRejected(i) + q <= Units
  <2> DEFINE S == {r \in ReturnsAgainst(i) : ret[r].status # "REJECTED"}
             T == ReturnsAgainst(i) \ rejected
  <2>1. S \in SUBSET Return /\ T \in SUBSET S /\ T \in SUBSET Return
    BY <1>5 DEF RefundSound, ReturnsAgainst
  <2>2. AlreadyReturned(i) = SumOf(Brought, S) /\ NotRejected(i) = SumOf(Brought, T)
    BY DEF AlreadyReturned, NotRejected
  <2> HIDE DEF S, T
  <2>3. SumOf(Brought, T) <= SumOf(Brought, S) /\ SumOf(Brought, T) \in Nat /\ SumOf(Brought, S) \in Nat
    BY <1>5, <2>1, BroughtNat, SumPart
  <2> QED
    BY <1>1, <1>3, <2>2, <2>3 DEF SalesAssumption
<1>7. NotRejected(i)' = NotRejected(i)
  BY <1>3 DEF data, returnVars, NotRejected, Brought, ReturnsAgainst
<1>8. OnReturn(w)' /\ pc'[w] \notin ChainControl \cup DispatchControl
  BY <1>1, <1>2, <1>4, <1>6, <1>7 DEF OnReturn, At, ChainControl, DispatchControl
<1> QED
  BY <1>3, <1>4, <1>8, ReturnQuiet

LEMMA CreateReturns ==
  ASSUME IInv, NEW w \in Worker, NEW st \in ReturnStatus, CreateReturnWrite(w, st)
  PROVE  ReturnOK(w)
<1> USE DocKinds, Apart
<1> DEFINE new == {x \in mix.returns : ret[x].status = "none"}
<1>1. CASE new = {}
  BY <1>1, ReturnAbort DEF CreateReturnWrite
<1>2. CASE new # {}
  <2>1. PICK r : r = First(new)
    OBVIOUS
  <2>2. mix.returns \subseteq Return
    BY DEF IInv, ChainInv, DocTypes, SalesAssumption
  <2>3. r \in Return /\ ret[r].status = "none"
    BY <1>2, <2>1, <2>2, FirstIn
  <2>4. PICK i \in INV : i = on[w] /\ lock[i] = w /\ seen[w].n \in 1..Units /\ NotRejected(i) + seen[w].n <= Units
    BY DEF CreateReturnWrite, IInv, ReturnInv, OnReturn
  <2> DEFINE k == seen[w].n
             n == [status |-> st, of |-> i, qty |-> k]
  <2>5. /\ ret' = [ret EXCEPT ![r] = n]
        /\ restocked' = [restocked EXCEPT ![r] = IF st \in Settled THEN k ELSE 0] /\ End(w)
        /\ rejected' = IF st = "REJECTED" THEN rejected \cup {r} ELSE rejected
        /\ UNCHANGED <<paid, applied, cash>> /\ UNCHANGED <<mix, docVars, dispatchVars>>
    BY <1>2, <2>1, <2>4 DEF CreateReturnWrite, UnchangedOthers
  <2> HIDE DEF new
  <2>6. Passes(w) /\ pc'[w] = "idle"
    BY <2>5, EndPasses DEF IInv
  <2>7. ReturnTypes /\ (\A x \in Return : RefundSound(x)) /\ (\A j \in INV : NotRejected(j) <= Units)
    BY DEF IInv, ReturnInv
  <2>8. /\ n \in [status : {"none"} \cup ReturnStatus, of : INV \cup {None}, qty : 0..Units]
        /\ n.status = st /\ n.of = i /\ n.qty = k /\ k \in Nat
    BY <2>4 DEF SalesAssumption
  <2> HIDE DEF n, k
  <2>9. ReturnTypes' /\ ret'[r] = n /\ \A x \in Return \ {r} : ret'[x] = ret[x]
    BY <2>3, <2>5, <2>7, <2>8 DEF ReturnTypes
  <2>10. ret[r].of = None /\ applied[r] = 0 /\ cash[r] = 0
    BY <2>3, <2>7 DEF RefundSound
  <2>11. \A x \in Return : RefundSound(x)'
    <3>1. RefundSound(r)'
      <4>1. /\ ret'[r].of \in INV /\ ret'[r].status = st /\ st # "none"
            /\ applied'[r] = 0 /\ cash'[r] = 0 /\ ret'[r].qty \in Nat
        BY <2>5, <2>8, <2>9, <2>10 DEF ReturnStatus
      <4>2. st = "REJECTED" => r \in rejected'
        BY <2>5
      <4> QED
        BY <4>1, <4>2 DEF RefundSound
    <3>2. \A x \in Return \ {r} : RefundSound(x)'
      <4>1. rejected \subseteq rejected'
        BY <2>5
      <4> QED
        BY <2>5, <2>7, <2>9, <4>1 DEF RefundSound
    <3> QED
      BY <3>1, <3>2
  <2>12. ASSUME NEW j \in INV
         PROVE  /\ j = i => NotRejected(j)' <= NotRejected(j) + k
                /\ j # i => NotRejected(j)' = NotRejected(j)
                /\ NotRejected(j) \in Nat
    <3> DEFINE S == ReturnsAgainst(j) \ rejected
               T == (ReturnsAgainst(j) \ rejected)'
               g == Brought'
    <3>1. NotRejected(j) = SumOf(Brought, S) /\ NotRejected(j)' = SumOf(g, T)
      BY DEF NotRejected
    <3>2. S \in SUBSET Return /\ r \notin S /\ IsFiniteSet(S) /\ Ints(Brought, S) /\ SumOf(Brought, S) \in Nat
      <4>1. S \in SUBSET Return /\ r \notin S
        BY <2>10 DEF ReturnsAgainst
      <4> QED
        BY <2>7, <4>1, BroughtNat
    <3>3. (\A x \in S : g[x] = Brought[x]) /\ g[r] = k
      <4>1. \A x \in S : ret'[x] = ret[x]
        BY <2>9, <3>2
      <4> QED
        BY <2>3, <2>8, <2>9, <3>2, <4>1 DEF Brought
    <3>4. (j # i => T = S) /\ (j = i => T = S \/ T = S \cup {r})
      BY <2>3, <2>5, <2>8, <2>9, <2>10 DEF ReturnsAgainst
    <3> HIDE DEF S, T, g
    <3>5. SumOf(g, S) = SumOf(Brought, S)
      BY <3>2, <3>3, SumSame
    <3>6. SumOf(g, S \cup {r}) = k + SumOf(g, S)
      <4>1. Ints(g, S \cup {r})
        BY <2>8, <3>2, <3>3 DEF Ints
      <4>2. SumOf(g, S \cup {r}) = g[r] + SumOf(g, S)
        BY <3>2, <4>1, SumAdd
      <4> QED
        BY <3>3, <4>2
    <3>7. CASE T = S
      BY <2>8, <3>1, <3>2, <3>5, <3>7
    <3>8. CASE T = S \cup {r} /\ j = i
      <4>1. NotRejected(j)' = NotRejected(j) + k
        BY <2>8, <3>1, <3>2, <3>5, <3>6, <3>8
      <4> QED
        BY <2>8, <3>1, <3>2, <3>8, <4>1
    <3> QED
      BY <3>4, <3>7, <3>8
  <2>13. \A j \in INV : NotRejected(j)' <= Units
    <3>1. \A j \in INV : NotRejected(j)' \in Nat
      <4> SUFFICES ASSUME NEW j \in INV PROVE NotRejected(j)' \in Nat
        OBVIOUS
      <4> DEFINE T == (ReturnsAgainst(j) \ rejected)'
      <4>1. IsFiniteSet(T) /\ Nats(Brought', T)
        BY <2>9, FS_Subset DEF SalesAssumption, ReturnsAgainst, ReturnTypes, Brought, Nats
      <4> QED
        BY <4>1, SumNat DEF NotRejected
    <3> QED
      BY <2>4, <2>7, <2>8, <2>12, <3>1 DEF k, SalesAssumption
  <2>14. ReturnSteady(w)
    <3>1. \A x \in Return : ret[x].status # "none" => ret'[x].status # "none"
      BY <2>3, <2>9
    <3>2. \A j \in INV : lock[j] \notin {None, w} => NotRejected(j)' <= NotRejected(j)
      BY <2>4, <2>12
    <3> QED
      BY <3>1, <3>2 DEF ReturnSteady
  <2> QED
    BY <2>5, <2>6, <2>9, <2>11, <2>13, <2>14, ReturnWritten
<1> QED
  BY <1>1, <1>2

LEMMA UpdateReturns ==
  ASSUME IInv, NEW w \in Worker, NEW st \in ReturnStatus, UpdateReturnWrite(w, st)
  PROVE  ReturnOK(w)
<1> USE DocKinds, Apart
<1>1. PICK r \in Return : r = on[w] /\ ret[r].status # "none"
  BY DEF UpdateReturnWrite, IInv, ReturnInv, OnReturn
<1>2. /\ ret' = [ret EXCEPT ![r].status = st] /\ End(w)
      /\ rejected' = (IF st = "REJECTED" THEN rejected \cup {r} ELSE rejected)
      /\ UNCHANGED <<paid, applied, cash>> /\ UNCHANGED <<mix, docVars, dispatchVars>>
  BY <1>1 DEF UpdateReturnWrite, UnchangedOthers
<1>3. ReturnTypes /\ (\A x \in Return : RefundSound(x)) /\ (\A j \in INV : NotRejected(j) <= Units)
  BY DEF IInv, ReturnInv
<1>4. restocked' \in [Return -> Nat]
  <2>1. restocked[r] \in Nat /\ ret[r].qty \in Nat
    BY <1>3 DEF ReturnTypes, SalesAssumption
  <2>2. Lesser(restocked[r] + ret[r].qty, 2 * ret[r].qty) \in Nat
    BY <2>1 DEF Lesser
  <2>3. restocked' = [restocked EXCEPT ![r] =
                        IF MayRestock(w, st) THEN Lesser(restocked[r] + ret[r].qty, 2 * ret[r].qty) ELSE restocked[r]]
    BY <1>1 DEF UpdateReturnWrite
  <2> QED
    BY <1>3, <2>1, <2>2, <2>3 DEF ReturnTypes
<1>5. /\ ret' \in [Return -> [status : {"none"} \cup ReturnStatus, of : INV \cup {None}, qty : 0..Units]]
      /\ (\A x \in Return \ {r} : ret'[x] = ret[x]) /\ ret'[r].status = st
      /\ \A x \in Return : ret'[x].of = ret[x].of /\ ret'[x].qty = ret[x].qty
  BY <1>2, <1>3 DEF ReturnTypes
<1>6. ReturnTypes' /\ rejected \subseteq rejected' /\ st # "none"
  BY <1>2, <1>3, <1>4, <1>5 DEF ReturnTypes, ReturnStatus
<1>7. \A x \in Return : RefundSound(x)'
  BY <1>1, <1>2, <1>3, <1>5, <1>6 DEF RefundSound
<1>8. ASSUME NEW j \in INV
      PROVE  NotRejected(j)' <= NotRejected(j) /\ NotRejected(j)' \in Nat /\ NotRejected(j) \in Nat
  <2> DEFINE S == ReturnsAgainst(j) \ rejected
             T == (ReturnsAgainst(j) \ rejected)'
  <2>1. Brought' = Brought
    BY <1>5 DEF Brought
  <2>2. S \in SUBSET Return /\ T \in SUBSET S
    BY <1>5, <1>6 DEF ReturnsAgainst
  <2>3. NotRejected(j) = SumOf(Brought, S) /\ NotRejected(j)' = SumOf(Brought, T)
    BY <2>1 DEF NotRejected
  <2> HIDE DEF S, T
  <2>4. IsFiniteSet(S) /\ Nats(Brought, S) /\ SumOf(Brought, S) \in Nat /\ SumOf(Brought, T) \in Nat
    BY <1>3, <2>2, BroughtNat
  <2>5. SumOf(Brought, T) <= SumOf(Brought, S)
    BY <2>2, <2>4, SumPart
  <2> QED
    BY <2>3, <2>4, <2>5
<1>9. ReturnSteady(w)
  BY <1>1, <1>5, <1>6, <1>8 DEF ReturnSteady
<1>10. \A j \in INV : NotRejected(j)' <= Units
  BY <1>3, <1>8 DEF SalesAssumption
<1>11. Passes(w) /\ pc'[w] = "idle"
  BY <1>2, EndPasses DEF IInv
<1> QED
  BY <1>2, <1>6, <1>7, <1>9, <1>10, <1>11, ReturnWritten

LEMMA Refunds ==
  ASSUME IInv, NEW w \in Worker, NEW method \in RefundMethod, RefundWrite(w, method)
  PROVE  ReturnOK(w)
<1> USE DocKinds, Apart
<1>1. PICK r \in Return : r = on[w] /\ ret[r].status # "none" /\ seen[w].n >= 0 /\ seen[w].n \in Int
  BY DEF RefundWrite, IInv, ReturnInv, OnReturn, RequestsOK, Seen
<1> DEFINE off == IF method = "franchise" THEN 0 ELSE Lesser(ret[r].qty, seen[w].n)
           rest == IF method = "money" THEN ret[r].qty - off ELSE 0
           Refused == rest > seen[w].m \/ (method = "dealer" /\ off = 0)
<1>2. CASE Refused
  BY <1>1, <1>2, ReturnAbort DEF RefundWrite
<1>3. CASE ~Refused
  <2>1. /\ applied' = [applied EXCEPT ![r] = PaidOnce(applied[r], off)] /\ cash' = [cash EXCEPT ![r] = PaidOnce(cash[r], rest)]
        /\ ret' = [ret EXCEPT ![r].status = "COMPLETED"] /\ End(w)
        /\ UNCHANGED <<rejected, restocked, paid>> /\ UNCHANGED <<mix, docVars, dispatchVars>>
    BY <1>1, <1>3 DEF RefundWrite, UnchangedOthers
  <2>2. ReturnTypes /\ (\A x \in Return : RefundSound(x)) /\ (\A j \in INV : NotRejected(j) <= Units)
    BY DEF IInv, ReturnInv
  <2>3. ret[r].qty \in Nat /\ applied[r] \in Nat /\ cash[r] \in Nat /\ applied[r] <= ret[r].qty /\ cash[r] <= ret[r].qty
    BY <2>2 DEF ReturnTypes, RefundSound, SalesAssumption
  <2>4. off \in Nat /\ off <= ret[r].qty /\ rest \in Nat /\ rest <= ret[r].qty
    BY <1>1, <2>3 DEF Lesser
  <2> HIDE DEF off, rest
  <2>5. /\ PaidOnce(applied[r], off) \in Nat /\ PaidOnce(applied[r], off) <= ret[r].qty
        /\ PaidOnce(cash[r], rest) \in Nat /\ PaidOnce(cash[r], rest) <= ret[r].qty
    BY <2>3, <2>4 DEF PaidOnce
  <2>6. /\ applied' \in [Return -> Nat] /\ cash' \in [Return -> Nat]
        /\ applied'[r] <= ret[r].qty /\ cash'[r] <= ret[r].qty
        /\ \A x \in Return \ {r} : applied'[x] = applied[x] /\ cash'[x] = cash[x]
    BY <2>1, <2>2, <2>5 DEF ReturnTypes
  <2>7. /\ ret' \in [Return -> [status : {"none"} \cup ReturnStatus, of : INV \cup {None}, qty : 0..Units]]
        /\ (\A x \in Return \ {r} : ret'[x] = ret[x]) /\ ret'[r].status = "COMPLETED"
        /\ \A x \in Return : ret'[x].of = ret[x].of /\ ret'[x].qty = ret[x].qty
    BY <2>1, <2>2 DEF ReturnTypes, ReturnStatus
  <2>8. ReturnTypes'
    BY <2>1, <2>2, <2>6, <2>7 DEF ReturnTypes
  <2>9. \A x \in Return : RefundSound(x)'
    <3>1. RefundSound(r)'
      BY <1>1, <2>2, <2>6, <2>7 DEF RefundSound
    <3>2. \A x \in Return \ {r} : RefundSound(x)'
      BY <2>1, <2>2, <2>6, <2>7 DEF RefundSound
    <3> QED
      BY <3>1, <3>2
  <2>10. \A j \in INV : NotRejected(j)' = NotRejected(j) /\ NotRejected(j) \in Nat
    <3>1. Brought' = Brought
      BY <2>7 DEF Brought
    <3>2. \A j \in INV : (ReturnsAgainst(j) \ rejected)' = ReturnsAgainst(j) \ rejected
      BY <2>1, <2>7 DEF ReturnsAgainst
    <3> QED
      BY <2>2, <3>1, <3>2, NotRejectedNat DEF NotRejected
  <2>11. ReturnSteady(w)
    BY <1>1, <2>7, <2>10 DEF ReturnSteady
  <2>12. Passes(w) /\ pc'[w] = "idle"
    BY <2>1, EndPasses DEF IInv
  <2> QED
    BY <2>1, <2>2, <2>8, <2>9, <2>10, <2>11, <2>12, ReturnWritten
<1> QED
  BY <1>2, <1>3

\* Every operation on customers' returns keeps their part.
LEMMA ReturnKeeps ==
  ASSUME IInv, NEW w \in Worker, ReturnArrive(w) \/ ReturnStep(w)
  PROVE  ReturnOK(w)
<1>1. CASE ReturnStep(w)
  BY <1>1, CreateReturns, UpdateReturns, Refunds DEF ReturnStep
<1>2. CASE ReturnArrive(w)
  BY <1>2, Collects, CreateReturnLocks, ReturnReads DEF ReturnArrive
<1> QED
  BY <1>1, <1>2

-----------------------------------------------------------------------------
(* The invariant holds at the start, and every step keeps it. *)

LEMMA ZeroPosted ==
  ASSUME NEW S \in SUBSET Challan, \A c \in S : out[c] = 0
  PROVE  PostedBy(S) = 0
BY FS_Subset, SumZero DEF PostedBy, SalesAssumption

LEMMA InitChain == Init => RequestsOK /\ ChainInv
<1> SUFFICES ASSUME Init PROVE RequestsOK /\ ChainInv
  OBVIOUS
<1> USE DocKinds, Apart
<1>1. RequestsOK
  BY NothingIsSeen DEF Init, RequestsOK
<1> DEFINE Old(d) == d = mix.invoice
           Origin(d) == mix.invoice # None /\ d = First(PI)
<1>2. mix \in Mixes /\ mix.invoice \in INV \cup {None} /\ (mix.invoice # None => First(PI) \in PI)
  BY FirstIn DEF Init, SalesAssumption
<1>3. /\ status = [d \in Doc |-> IF Old(d) THEN "PENDING" ELSE IF Origin(d) THEN "CONVERTED" ELSE "none"]
      /\ source = [d \in Doc |-> IF Old(d) THEN First(PI) ELSE None]
      /\ lines = [d \in Doc |-> IF Old(d) \/ Origin(d) THEN {0} ELSE {}]
      /\ converted = [d \in Doc |-> IF Origin(d) THEN mix.invoice ELSE None]
      /\ proforma = [s \in SO |-> None] /\ edits = 0
  BY DEF Init
<1>4. \A d \in Doc : Old(d) => d \in INV
  BY <1>2
<1>5. \A d \in Doc : Origin(d) => d \in PI /\ mix.invoice \in INV /\ First(PI) \in PI
  BY <1>2
<1>6. \A d \in Doc : (d \notin INV => source[d] = None) /\ source[d] \in PI \cup {None}
  BY <1>2, <1>3, <1>4
<1>7. \A d \in Doc : /\ d \notin PI \cup INV => status[d] = "none"
                     /\ d \in PI => status[d] \in {"none", "CONVERTED"}
                     /\ d \in INV => status[d] \in {"none", "PENDING"}
                     /\ status[d] # "none" => lines[d] = {0}
  BY <1>3, <1>4, <1>5
<1>8. DocTypes
  <2>1. /\ {0} \in SUBSET Version /\ edits \in Version /\ mix \in Mixes
        /\ {"none", "CONVERTED", "PENDING"} \subseteq RowStatus
    BY <1>2, <1>3 DEF Version, RowStatus, ProformaStatus, InvoiceStatus, SalesAssumption
  <2>2. status \in [Doc -> RowStatus] /\ lines \in [Doc -> SUBSET Version]
    BY <1>3, <2>1
  <2>3. source \in [Doc -> Row \cup {None, Key}]
    <3>1. source = [d \in Doc |-> source[d]]
      BY <1>3
    <3> QED
      BY <1>6, <3>1
  <2>4. converted \in [Doc -> Doc \cup {None}]
    <3>1. \A d \in Doc : converted[d] \in Doc \cup {None}
      BY <1>3, <1>5
    <3>2. converted = [d \in Doc |-> converted[d]]
      BY <1>3
    <3> QED
      BY <3>1, <3>2
  <2>5. proforma \in [SO -> PI \cup {None}]
    BY <1>3
  <2> QED
    BY <1>7, <2>1, <2>2, <2>3, <2>4, <2>5 DEF DocTypes, ProformaStatus, InvoiceStatus
<1> HIDE DEF Old, Origin
<1>9. Versions /\ OrderThere
  <2>1. OneVersion({0})
    BY DEF OneVersion, Version, SalesAssumption
  <2>2. \A d \in Doc : Exists(d) => OneVersion(lines[d])
    BY <1>7, <2>1 DEF Exists
  <2>3. Versions
    BY <2>2 DEF Versions
  <2>4. \A p \in PI : source[p] = None
    BY <1>6
  <2> QED
    BY <2>3, <2>4 DEF OrderThere
<1>10. OnePerSource
  BY <1>6 DEF OnePerSource
<1>11. \A w \in Worker : OnDoc(w)
  BY DEF Init, OnDoc, OnEstimate, OnOrder, OnProforma, OnInvoice
<1> QED
  BY <1>1, <1>8, <1>9, <1>10, <1>11 DEF ChainInv

LEMMA InitDispatch == Init => DispatchInv
<1> SUFFICES ASSUME Init PROVE DispatchInv
  OBVIOUS
<1> USE DocKinds, Apart
<1>1. /\ challan = [c \in Challan |-> NoChallan] /\ voided = {} /\ unbacked = {}
      /\ out = [c \in Challan |-> 0] /\ back = [c \in Challan |-> 0]
      /\ fulfilled = [i \in INV |-> FALSE]
      /\ dcReturn = [d \in DCReturn |-> NoReturn] /\ received = [d \in DCReturn |-> 0]
      /\ pc = [w \in Worker |-> "idle"]
  BY DEF Init
<1>2. ChallanTypes
  BY <1>1 DEF ChallanTypes, NoChallan, NoReturn, SalesAssumption
<1>3. ASSUME NEW c \in Challan PROVE ChallanSound(c)
  <2>1. ReturnsOf(c) = {}
    BY <1>1 DEF ReturnsOf, NoReturn
  <2>2. Returned(c) = 0
    BY <2>1, SumEmpty DEF Returned
  <2> QED
    BY <1>1, <2>2 DEF ChallanSound, NoChallan
<1>4. \A d \in DCReturn : ReturnSound(d)
  BY <1>1 DEF ReturnSound, NoReturn
<1>5. ASSUME NEW i \in INV PROVE InvoiceSound(i)
  <2>1. Shipped(i) = 0 /\ PostedBy(Active(i)) = 0
    BY <1>1, ZeroPosted DEF Shipped, ChallansOf, Active
  <2>2. ~(0 >= Units) /\ 0 <= Units
    BY DEF SalesAssumption
  <2> QED
    BY <1>1, <2>1, <2>2 DEF InvoiceSound, Marked, ChallansOf
<1>6. \A w \in Worker : OnChallan(w) /\ OnDispatch(w)
  BY <1>1 DEF OnChallan, OnDispatch
<1> QED
  BY <1>2, <1>3, <1>4, <1>5, <1>6 DEF DispatchInv

LEMMA InitReturn == Init => ReturnInv
<1> SUFFICES ASSUME Init PROVE ReturnInv
  OBVIOUS
<1> USE DocKinds, Apart
<1>1. /\ ret = [r \in Return |-> NoReturn] /\ rejected = {} /\ restocked = [r \in Return |-> 0]
      /\ paid = [i \in INV |-> 0] /\ applied = [r \in Return |-> 0] /\ cash = [r \in Return |-> 0]
      /\ pc = [w \in Worker |-> "idle"]
  BY DEF Init
<1>2. ReturnTypes /\ \A r \in Return : RefundSound(r)
  BY <1>1 DEF ReturnTypes, RefundSound, NoReturn, SalesAssumption
<1>3. ASSUME NEW i \in INV PROVE NotRejected(i) <= Units
  <2>1. ReturnsAgainst(i) \ rejected = {}
    BY <1>1 DEF ReturnsAgainst, NoReturn
  <2>2. NotRejected(i) = 0
    BY <2>1, SumEmpty DEF NotRejected
  <2> QED
    BY <2>2 DEF SalesAssumption
<1>4. \A w \in Worker : OnReturn(w)
  BY <1>1 DEF OnReturn
<1> QED
  BY <1>2, <1>3, <1>4 DEF ReturnInv

\* What every step of the service does.
StepSound == IInv' /\ EditWhole /\ PostedStep

LEMMA ChainSound ==
  ASSUME IInv, NEW w \in Worker, ChainOK(w)
  PROVE  StepSound
<1>1. Passes(w) /\ DocsKept(w) /\ ChainInv' /\ UNCHANGED dispatchVars /\ UNCHANGED returnVars
  BY DEF ChainOK
<1>2. OnChallan(w)' /\ OnDispatch(w)' /\ OnReturn(w)'
  BY IdleRelies DEF ChainOK
<1>3. DispatchInv' /\ ReturnInv'
  BY <1>1, <1>2, ChallansUntouched, ReturnsUntouched DEF DocsKept
<1>4. PostedStep
  BY <1>1, PostedSame DEF dispatchVars
<1> QED
  BY <1>1, <1>3, <1>4 DEF StepSound, IInv, Passes, DocsKept

LEMMA DispatchSound ==
  ASSUME IInv, NEW w \in Worker, DispatchOK(w)
  PROVE  StepSound
<1>1. OnReturn(w)'
  BY IdleRelies DEF DispatchOK
<1>2. ReturnInv'
  BY <1>1, ReturnsUntouched DEF DispatchOK
<1> QED
  BY <1>2 DEF DispatchOK, StepSound, IInv, Passes, DocsKept

LEMMA ReturnSafe ==
  ASSUME IInv, NEW w \in Worker, ReturnOK(w)
  PROVE  StepSound
<1>1. Passes(w) /\ ReturnInv' /\ UNCHANGED <<mix, docVars>> /\ UNCHANGED dispatchVars
  BY DEF ReturnOK
<1>2. OnDoc(w)' /\ OnChallan(w)' /\ OnDispatch(w)'
  BY IdleRelies DEF ReturnOK, DispatchControl
<1>3. ChainInv' /\ DocSteady(w)
  BY <1>1, <1>2, DocsUntouched
<1>4. DispatchInv'
  BY <1>1, <1>2, <1>3, ChallansUntouched
<1>5. EditWhole /\ PostedStep
  BY <1>1, PostedSame DEF EditWhole, docVars, dispatchVars
<1> QED
  BY <1>1, <1>3, <1>4, <1>5 DEF StepSound, IInv, Passes

LEMMA NextSound ==
  ASSUME IInv, Next
  PROVE  StepSound
<1>1. PICK w \in Worker : Arrive(w) \/ Step(w) \/ Timeout(w)
  BY DEF Next
<1>2. CASE ChainArrive(w) \/ ChainStep(w)
  BY <1>2, ChainKeeps, ChainSound
<1>3. CASE DispatchArrive(w) \/ DispatchStep(w)
  BY <1>3, DispatchKeeps, DispatchSound
<1>4. CASE ReturnArrive(w) \/ ReturnStep(w)
  BY <1>4, ReturnKeeps, ReturnSafe
<1>5. CASE Timeout(w)
  BY <1>5, ChainAbort, ChainSound DEF Timeout
<1> QED
  BY <1>1, <1>2, <1>3, <1>4, <1>5 DEF Arrive, Step

LEMMA StutterSound ==
  ASSUME IInv, UNCHANGED vars
  PROVE  IInv'
<1>1. /\ UNCHANGED <<mix, status, source, lines, converted, proforma, edits>>
      /\ UNCHANGED <<challan, voided, out, back, unbacked, fulfilled, dcReturn, received>>
      /\ UNCHANGED <<ret, rejected, restocked, paid, applied, cash>> /\ UNCHANGED <<lock, pc, on, seen>>
  BY DEF vars, data, docVars, dispatchVars, returnVars
<1>2. RequestsOK'
  BY <1>1 DEF IInv, RequestsOK
<1>3. ChainInv'
  <2>1. DocTypes' /\ Versions' /\ OrderThere' /\ OnePerSource'
    BY <1>1 DEF IInv, ChainInv, DocTypes, Versions, OrderThere, OnePerSource, Kept, Exists
  <2>2. \A w \in Worker : OnDoc(w)'
    BY <1>1 DEF IInv, ChainInv, OnDoc, OnEstimate, OnOrder, OnProforma, OnInvoice, Kept
  <2> QED
    BY <2>1, <2>2 DEF ChainInv
<1>4. /\ \A c : Returned(c)' = Returned(c)
      /\ \A i : Shipped(i)' = Shipped(i) /\ ChallansOf(i)' = ChallansOf(i) /\ PostedBy(Active(i))' = PostedBy(Active(i))
  BY <1>1 DEF Returned, ReturnsOf, Shipped, PostedBy, ChallansOf, Active
<1>5. DispatchInv'
  <2>1. ChallanTypes' /\ (\A c \in Challan : ChallanSound(c)') /\ (\A d \in DCReturn : ReturnSound(d)')
    BY <1>1, <1>4 DEF IInv, DispatchInv, ChallanTypes, ChallanSound, ReturnSound
  <2>2. \A i \in INV : InvoiceSound(i)'
    BY <1>1, <1>4 DEF IInv, DispatchInv, InvoiceSound, Marked
  <2>3. \A w \in Worker : OnChallan(w)' /\ OnDispatch(w)'
    BY <1>1, <1>4 DEF IInv, DispatchInv, OnChallan, OnDispatch
  <2> QED
    BY <2>1, <2>2, <2>3 DEF DispatchInv
<1>6. \A i : NotRejected(i)' = NotRejected(i)
  BY <1>1 DEF NotRejected, Brought, ReturnsAgainst
<1>7. ReturnInv'
  BY <1>1, <1>6 DEF IInv, ReturnInv, ReturnTypes, RefundSound, OnReturn
<1> QED
  BY <1>2, <1>3, <1>5, <1>7 DEF IInv

\* In every behaviour of the sales service, however requests overlap, time out and repeat,
\* the rows are consistent and each request still finds what it relies on.
THEOREM Invariance == Spec => []IInv
<1>1. Init => IInv
  BY InitChain, InitDispatch, InitReturn DEF IInv
<1>2. IInv /\ [Next]_vars => IInv'
  BY NextSound, StutterSound DEF StepSound
<1> QED
  BY <1>1, <1>2, PTL DEF Spec

LEMMA Typed == IInv => TypeOK
<1> SUFFICES ASSUME IInv PROVE TypeOK
  OBVIOUS
<1> USE DocKinds
<1>1. DocTypes /\ ChallanTypes /\ ReturnTypes /\ RequestsOK
  BY DEF IInv, ChainInv, DispatchInv, ReturnInv
<1>2. status \in [Doc -> {"none", "deleted"} \cup EstimateStatus \cup OrderStatus \cup ProformaStatus \cup InvoiceStatus]
  <2>1. \A d \in Doc : status[d] \in {"none", "deleted"} \cup EstimateStatus \cup OrderStatus \cup ProformaStatus \cup InvoiceStatus
    BY <1>1 DEF DocTypes, Doc
  <2> QED
    BY <1>1, <2>1 DEF DocTypes
<1>3. /\ mix \in Mixes /\ edits \in 0..MaxEdits
      /\ source \in [Doc -> Row \cup {None, Key}] /\ lines \in [Doc -> SUBSET (0..MaxEdits)]
      /\ converted \in [Doc -> Doc \cup {None}] /\ proforma \in [SO -> PI \cup {None}]
  BY <1>1 DEF DocTypes, Version
<1> QED
  BY <1>1, <1>2, <1>3 DEF TypeOK, ChallanTypes, ReturnTypes, RequestsOK

\* Every row and every request has its type: a status belongs to its kind of document.
THEOREM SalesTyped == Spec => []TypeOK
BY Invariance, Typed, PTL

-----------------------------------------------------------------------------
(* The chain of documents. *)

LEMMA OrdersCounted == IInv => LinesCounted
<1> SUFFICES ASSUME IInv, Kept PROVE
      /\ getSaleOrderItemsReportData.lines = getSaleOrdersReportData.orders
      /\ getSaleOrderItemsReportData.quantity
           = Units * (getSaleOrdersReportData.orders - getSaleOrdersReportData.cancelled)
  BY DEF LinesCounted, Kept
<1> USE DocKinds
<1> DEFINE A == {so \in SO : status[so] \in OrderStatus}
           B == {so \in SO : status[so] \in Live}
           C == {so \in SO : status[so] \in {"CANCELLED"}}
           L == [so \in SO |-> Cardinality(lines[so])]
<1>1. /\ getSaleOrdersReportData.orders = Cardinality(A)
      /\ getSaleOrdersReportData.cancelled = Cardinality(C)
      /\ getSaleOrderItemsReportData.lines = SumOf(L, A)
      /\ getSaleOrderItemsReportData.quantity = Units * SumOf(L, B)
  BY DEF getSaleOrdersReportData, getSaleOrderItemsReportData, OrdersIn, LinesIn
<1>2. \A so \in A : L[so] = 1
  <2> SUFFICES ASSUME NEW so \in A PROVE Cardinality(lines[so]) = 1
    OBVIOUS
  <2>1. Exists(so)
    BY DEF Exists, OrderStatus
  <2>2. OneVersion(lines[so])
    BY <2>1 DEF IInv, ChainInv, Versions
  <2> QED
    BY <2>2, FS_Singleton DEF OneVersion
<1>3. A \in SUBSET SO /\ B \in SUBSET A /\ C \in SUBSET A /\ B \cap C = {} /\ B \cup C = A
  BY DEF Live, OrderStatus
<1> HIDE DEF A, B, C, L
<1>4. IsFiniteSet(A) /\ IsFiniteSet(B) /\ IsFiniteSet(C)
  BY <1>3, FS_Subset DEF SalesAssumption
<1>5. SumOf(L, A) = Cardinality(A) /\ SumOf(L, B) = Cardinality(B)
  BY <1>2, <1>3, <1>4, SumOnes
<1>6. Cardinality(B) = Cardinality(A) - Cardinality(C)
  <2>1. Cardinality(B \cup C) = Cardinality(B) + Cardinality(C) - Cardinality(B \cap C)
    BY <1>4, FS_Union
  <2>2. Cardinality(B \cap C) = 0
    BY <1>3, FS_EmptySet
  <2>3. Cardinality(A) \in Nat /\ Cardinality(B) \in Nat /\ Cardinality(C) \in Nat
    BY <1>4, FS_CardinalityType
  <2>4. Cardinality(B \cup C) = Cardinality(A)
    BY <1>3
  <2> QED
    BY ONLY <2>1, <2>2, <2>3, <2>4
<1> QED
  BY <1>1, <1>5, <1>6

\* Whatever conversions race, an estimate or a submission becomes one order, an order one proforma
\* and one sale, and the two reports count every order and its lines once (convertQuotationToSalesOrder,
\* convertSalesOrderToSale, getSaleOrdersReportData).
THEOREM OrdersAreSound == Spec => []OrdersSound
<1>1. IInv => OrdersSound
  BY OrdersCounted DEF IInv, ChainInv, OrdersSound
<1> QED
  BY <1>1, Invariance, PTL

\* However edits of an order or a proforma overlap, each leaves its lines and no others, and none is
\* saved once the document is final (updateSalesOrder's lock, updateProformaInvoice's serializable
\* transaction).
THEOREM EditsAreWhole == Spec => EditIsWhole
<1>1. IInv /\ [Next]_vars => EditWhole \/ UNCHANGED vars
  BY NextSound DEF StepSound
<1> QED
  BY <1>1, Invariance, PTL DEF Spec, EditIsWhole, EditWhole

-----------------------------------------------------------------------------
(* Dispatch. *)

\* Goods leave stock with a challan once, and its reversal brings them back at most once, whatever
\* requests repeat, overlap or revive it (InvoiceFulfilmentService.dispatch and reverse).
THEOREM GoodsPostedOnce == Spec => PostedOnce
<1>1. IInv /\ [Next]_vars => PostedStep \/ UNCHANGED vars
  BY NextSound DEF StepSound
<1> QED
  BY <1>1, Invariance, PTL DEF Spec, PostedOnce, PostedStep

LEMMA ShippedWithin == IInv => DispatchedWithinInvoice
<1> SUFFICES ASSUME IInv, NEW i \in INV PROVE Shipped(i) <= (IF Deferred(i) THEN Units ELSE 0)
  BY DEF DispatchedWithinInvoice, Shipped
<1>1. InvoiceSound(i) /\ ChallanTypes /\ \A c \in Challan : ChallanSound(c)
  BY DEF IInv, DispatchInv
<1>2. CASE Deferred(i)
  BY <1>1, <1>2 DEF InvoiceSound
<1>3. CASE ~Deferred(i)
  <2>1. \A c \in ChallansOf(i) \ voided : out[c] = 0
    <3> SUFFICES ASSUME NEW c \in ChallansOf(i) \ voided PROVE out[c] = 0
      OBVIOUS
    <3>1. c \in Challan /\ challan[c].status # "deleted" /\ out[c] \in Nat
      BY <1>1 DEF ChallansOf, ChallanSound, ChallanTypes
    <3>2. ~(out[c] > 0)
      BY <1>3, <3>1 DEF Deferred
    <3> QED
      BY <3>1, <3>2
  <2>2. Shipped(i) = 0
    BY <2>1, ZeroPosted DEF Shipped, ChallansOf
  <2> QED
    BY <1>3, <2>2
<1> QED
  BY <1>2, <1>3

LEMMA ShownRight == IInv => FulfilmentShown
<1> SUFFICES ASSUME IInv, NEW i \in INV, Exists(i), ChallansOf(i) \cap voided = {}
             PROVE  getInvoices(i) = getInvoiceById(i)
  BY DEF FulfilmentShown
<1> USE Apart
<1> DEFINE A == Active(i)
           posted == PostedBy(A)
<1>1. InvoiceSound(i) /\ ChallanTypes /\ Marked(i) /\ fulfilled[i] \in BOOLEAN
  BY DEF IInv, DispatchInv, InvoiceSound, ChallanTypes
<1>2. A \in SUBSET Challan /\ A \ {None} = A /\ A \subseteq ChallansOf(i)
  BY DEF Active, ChallansOf, Row
<1>3. posted \in Nat /\ Units \in Nat /\ Units > 0 /\ \A c \in A : out[c] \in Nat
  BY <1>1, <1>2, PostedNat DEF SalesAssumption, ChallanTypes
<1>4. Pending(i, None) = IF inventory_deducted(i) /\ posted = 0 THEN 0 ELSE Units - posted
  BY <1>2 DEF Pending
<1> HIDE DEF A, posted
<1>5. CASE source[i] \notin PI
  <2>1. posted = 0
    BY <1>1, <1>2, <1>5, ZeroPosted DEF InvoiceSound, posted
  <2> QED
    BY <1>4, <1>5, <2>1 DEF getInvoices, getInvoiceById, inventory_deducted
<1>6. CASE source[i] \in PI
  <2>1. (fulfilled[i] <=> posted >= Units) /\ (inventory_deducted(i) <=> fulfilled[i])
    BY <1>1, <1>6 DEF Marked, inventory_deducted, posted, A
  <2>2. CASE posted >= Units
    <3>1. Pending(i, None) = Units - posted /\ Units - posted <= 0
      BY <1>3, <1>4, <2>2
    <3> QED
      BY <2>1, <2>2, <3>1 DEF getInvoices, getInvoiceById
  <2>3. CASE posted < Units
    <3>1. ~inventory_deducted(i) /\ Pending(i, None) = Units - posted /\ Units - posted > 0
      BY <1>3, <1>4, <2>1, <2>3
    <3>2. (\E c \in A : Posted(c)) <=> posted > 0
      <4>1. CASE \E c \in A : Posted(c)
        <5>1. PICK c \in A : out[c] > 0
          BY <4>1 DEF Posted
        <5>2. IsFiniteSet(A) /\ Nats(out, A)
          BY <1>1, <1>2, PostedNat
        <5>3. out[c] <= posted
          BY <5>2, SumTerm DEF posted, PostedBy
        <5> QED
          BY <1>3, <4>1, <5>1, <5>3
      <4>2. CASE ~\E c \in A : Posted(c)
        <5>1. \A c \in A : out[c] = 0
          BY <1>3, <4>2 DEF Posted
        <5>2. posted = 0
          BY <1>2, <5>1, ZeroPosted DEF posted
        <5> QED
          BY <4>2, <5>2
      <4> QED
        BY <4>1, <4>2
    <3>3. getInvoices(i) = IF posted > 0 THEN "PARTIALLY_FULFILLED" ELSE "PENDING"
      BY <3>1, <3>2 DEF getInvoices, A
    <3>4. getInvoiceById(i) = IF posted > 0 THEN "PARTIALLY_FULFILLED" ELSE "PENDING"
      BY <1>3, <3>1 DEF getInvoiceById
    <3> QED
      BY <3>3, <3>4
  <2> QED
    BY <1>3, <2>2, <2>3
<1> QED
  BY <1>5, <1>6

\* Dispatches that stand ship no more than their invoice sold, returns of a challan bring back no more
\* than it carried, and the list of invoices shows the fulfilment the invoice's page works out.
THEOREM ChallansFitInvoice == Spec => []ChallansWithinInvoice
<1>1. IInv => ChallanReturnsBounded
  BY DEF IInv, DispatchInv, ChallanSound, ReturnSound, ChallanReturnsBounded
<1>2. IInv => ChallansWithinInvoice
  BY <1>1, ShippedWithin, ShownRight DEF ChallansWithinInvoice
<1> QED
  BY <1>2, Invariance, PTL

-----------------------------------------------------------------------------
(* Customers' returns. *)

\* However many returns of an invoice are raised at once, those never rejected do not exceed what it
\* sold, and a return is set off and paid out at most once, for no more than its value
\* (createReturnOrder's lock of the sale, recordRefund's idempotency key).
THEOREM ReturnsFitSale == Spec => []ReturnsWithinSale
<1>1. IInv => ReturnsWithinSale
  BY DEF IInv, ReturnInv, RefundSound, NotRejected, ReturnsWithinSale, ReturnsWithinSold, RefundedOnce
<1> QED
  BY <1>1, Invariance, PTL
=============================================================================
