--------------------------- MODULE SalesDocuments ---------------------------
(***************************************************************************)
(* The rows the sales service keeps, and the requests that work on them:   *)
(* one estimate, sales orders, proforma invoices, sale invoices, delivery  *)
(* challans with their returns, and customers' returns.  SalesChain,       *)
(* Dispatch and CustomerReturns are the operations; Sales composes them.   *)
(*                                                                         *)
(* A request reads in one step and writes, by committing, in another: in   *)
(* between it holds the rows it selected FOR UPDATE and no others.  Number *)
(* sequences are locked from just before the write, so a unique column is  *)
(* checked in the step that writes.                                        *)
(***************************************************************************)
EXTENDS Sums

CONSTANTS
  Worker,        \* requests that may be in flight together
  None, Key,     \* no row; the idempotency key of an order created directly
  Estimate,      \* the estimate (quotation)
  SO, PI, INV,   \* sales orders, proforma invoices, sale invoices
  Challan,       \* delivery challans
  DCReturn,      \* returns of challans
  Return,        \* customers' returns
  Units,         \* units of the product on every sale document; each costs one
  Quantity,      \* units a challan or a return may name
  MaxEdits,      \* bound: times the lines of a document are replaced
  Mixes          \* which requests are issued together, on which invoice and how many returns

Doc == {Estimate} \cup SO \cup PI \cup INV
Row == Doc \cup Challan \cup DCReturn \cup Return

\* Each kind of row has a table of its own.
Tables == <<{Estimate}, SO, PI, INV, Challan, DCReturn, Return>>

ASSUME SalesAssumption ==
  /\ None \notin Worker \cup Row /\ Key \notin Row
  /\ \A s, t \in 1..7 : s # t => Tables[s] \cap Tables[t] = {}
  /\ IsFiniteSet(SO) /\ IsFiniteSet(Challan) /\ IsFiniteSet(DCReturn) /\ IsFiniteSet(Return)
  /\ Units \in Nat \ {0} /\ Quantity \subseteq 1..Units /\ MaxEdits \in Nat
  /\ \A m \in Mixes : /\ m.invoice \in INV \cup {None} /\ m.returns \subseteq Return
                      /\ m.invoice # None => PI # {}

VARIABLES
  mix,                       \* the member of Mixes this behaviour is about
  status, source, lines,     \* per document: status, what it was made from, versions of its lines
  converted, proforma,       \* what it was converted to; SalesOrder.proformaInvoiceId
  edits,                     \* line sets written so far
  challan, voided,           \* challan rows; those ever cancelled or deleted
  out, back,                 \* per challan, units by the ledger: that left, that a reversal put back
  unbacked,                  \* challans whose lines were put into stock though nothing left by them
  fulfilled,                 \* Order.inventory_deducted of invoices made without issuing their goods
  dcReturn, received,        \* challan returns; units each put back in stock
  ret, rejected,             \* customers' returns; those ever rejected
  restocked,                 \* units each put back in stock
  paid,                      \* per invoice: money collected
  applied, cash,             \* per return: set off against the invoice, paid out
  lock,                      \* row locks: holder or None
  pc, on, seen               \* per request: control, row, values read

docVars == <<status, source, lines, converted, proforma, edits>>
dispatchVars == <<challan, voided, out, back, unbacked, fulfilled, dcReturn, received>>
returnVars == <<ret, rejected, restocked, paid, applied, cash>>
data == <<mix, docVars, dispatchVars, returnVars>>
vars == <<data, lock, pc, on, seen>>

EstimateStatus == {"DRAFT", "SENT", "CONVERTED"}
OrderStatus    == {"DRAFT", "PENDING", "CONFIRMED", "PROCESSING", "SHIPPED", "DELIVERED", "CANCELLED"}
ProformaStatus == {"DRAFT", "SENT", "CONVERTED", "CANCELLED"}
InvoiceStatus  == {"PENDING", "CANCELLED"}
ChallanStatus  == {"DRAFT", "IN_TRANSIT", "CLOSED", "CONVERTED", "CANCELLED"}
ReturnStatus   == {"PENDING", "APPROVED", "COMPLETED", "REJECTED"}

NothingSeen == [status |-> "none", lines |-> {}, n |-> 0, m |-> 0, fits |-> TRUE]
NoChallan   == [status |-> "none", of |-> None, qty |-> 0, key |-> None]
NoReturn    == [status |-> "none", of |-> None, qty |-> 0]

First(S) == CHOOSE x \in S : TRUE

\* An invoice there at the start was made from a proforma: its goods have not left.
Init ==
  /\ mix \in Mixes
  /\ LET Old(d) == d = mix.invoice
         Origin(d) == mix.invoice # None /\ d = First(PI)
     IN /\ status = [d \in Doc |-> IF Old(d) THEN "PENDING" ELSE IF Origin(d) THEN "CONVERTED" ELSE "none"]
        /\ source = [d \in Doc |-> IF Old(d) THEN First(PI) ELSE None]
        /\ lines = [d \in Doc |-> IF Old(d) \/ Origin(d) THEN {0} ELSE {}]
        /\ converted = [d \in Doc |-> IF Origin(d) THEN mix.invoice ELSE None]
  /\ proforma = [s \in SO |-> None] /\ edits = 0
  /\ challan = [c \in Challan |-> NoChallan] /\ voided = {}
  /\ out = [c \in Challan |-> 0] /\ back = [c \in Challan |-> 0] /\ unbacked = {}
  /\ fulfilled = [i \in INV |-> FALSE]
  /\ dcReturn = [d \in DCReturn |-> NoReturn] /\ received = [d \in DCReturn |-> 0]
  /\ ret = [r \in Return |-> NoReturn] /\ rejected = {} /\ restocked = [r \in Return |-> 0]
  /\ paid = [i \in INV |-> 0] /\ applied = [r \in Return |-> 0]
  /\ cash = [r \in Return |-> 0]
  /\ lock = [x \in Row |-> None]
  /\ pc = [w \in Worker |-> "idle"] /\ on = [w \in Worker |-> None]
  /\ seen = [w \in Worker |-> NothingSeen]

-----------------------------------------------------------------------------
(* Requests and row locks. *)

Idle(w, op) == pc[w] = "idle" /\ op \in mix.ops

\* A request goes on to step p on row x, having seen r.
Go(w, p, x, r) ==
  /\ pc' = [pc EXCEPT ![w] = p] /\ on' = [on EXCEPT ![w] = x] /\ seen' = [seen EXCEPT ![w] = r]

\* It only reads.
Read(w, op, x, r) == Idle(w, op) /\ Go(w, op, x, r) /\ UNCHANGED <<data, lock>>

\* SELECT ... FOR UPDATE of the rows, then what is read under the locks.
Lock(w, rows) ==
  /\ \A x \in rows : lock[x] \in {None, w}
  /\ lock' = [x \in Row |-> IF x \in rows THEN w ELSE lock[x]]

\* An UPDATE of a row waits for whoever holds it.
AtRow(w, x) == lock[x] \in {None, w}

End(w) ==
  /\ lock' = [x \in Row |-> IF lock[x] = w THEN None ELSE lock[x]]
  /\ Go(w, "idle", None, NothingSeen)

\* An exception, or the transaction's timeout, rolls back.
Abort(w) == End(w) /\ UNCHANGED data

Timeout(w) == pc[w] # "idle" /\ Abort(w)

TypeOK ==
  /\ mix \in Mixes /\ edits \in 0..MaxEdits
  /\ status \in [Doc -> {"none", "deleted"} \cup EstimateStatus \cup OrderStatus \cup ProformaStatus \cup InvoiceStatus]
  /\ source \in [Doc -> Row \cup {None, Key}] /\ lines \in [Doc -> SUBSET (0..MaxEdits)]
  /\ converted \in [Doc -> Doc \cup {None}] /\ proforma \in [SO -> PI \cup {None}]
  /\ challan \in [Challan -> [status : {"none", "deleted"} \cup ChallanStatus, of : INV \cup {None},
                              qty : 0..Units, key : INV \cup {None}]]
  /\ voided \subseteq Challan /\ rejected \subseteq Return
  /\ out \in [Challan -> Nat] /\ back \in [Challan -> Nat] /\ unbacked \subseteq Challan
  /\ fulfilled \in [INV -> BOOLEAN]
  /\ received \in [DCReturn -> Nat]
  /\ dcReturn \in [DCReturn -> [status : {"none", "PENDING", "RECEIVED"}, of : Challan \cup {None}, qty : 0..Units]]
  /\ ret \in [Return -> [status : {"none"} \cup ReturnStatus, of : INV \cup {None}, qty : 0..Units]]
  /\ restocked \in [Return -> Nat] /\ paid \in [INV -> 0..Units]
  /\ applied \in [Return -> Nat] /\ cash \in [Return -> Nat]
  /\ lock \in [Row -> Worker \cup {None}]
  /\ on \in [Worker -> Row \cup {None}]
=============================================================================
