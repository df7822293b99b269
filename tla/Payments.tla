------------------------------ MODULE Payments ------------------------------
(***************************************************************************)
(* FinanceService: payments on tax invoices and to vendors and employees,  *)
(* transfers between accounts, and cancellation of payments and invoices.  *)
(*                                                                         *)
(* createPayment validates without a lock, then takes its number from a    *)
(* sequence row that stays locked until the transaction ends, and only     *)
(* then reads the account it will write back.                              *)
(***************************************************************************)
EXTENDS Sums, FiniteSets

CONSTANTS
  Worker,     \* requests that may be in flight together
  Payment,    \* idempotency keys of payments: retries carry the same one
  Invoice, Account,
  None,       \* no payment, no lock holder
  Due,        \* final amount of each invoice
  Opening,    \* opening balance of each account
  Inputs,     \* payments that may be submitted
  Transfers,  \* amounts that may be transferred
  Ops,        \* kinds of request issued
  MaxMoves    \* bound on transfers and reversals before a new one starts

Party == {"CUSTOMER", "VENDOR", "EMPLOYEE"}
Flow  == {"IN", "OUT"}
Type  == {"DIRECT", "EXPENSE"}

\* A submitted payment: its party, direction and type, account, amount, and how much
\* of it is allocated to each invoice.
Input == [party : Party, flow : Flow, type : Type, acct : Account, amt : Nat, alloc : [Invoice -> Nat]]

ASSUME PaymentAssumption ==
  /\ None \notin Worker \cup Payment /\ Account # {} /\ Invoice # {} /\ IsFiniteSet(Payment)
  /\ Due \in [Invoice -> Nat \ {0}] /\ Opening \in [Account -> Int]
  /\ Inputs \subseteq Input /\ Transfers \subseteq Nat \ {0} /\ MaxMoves \in Nat

InvoiceStatus == {"UNPAID", "PARTIAL", "PAID", "CANCELLED"}
PaymentStatus == {"none", "PAID", "CANCELLED"}

\* Number sequences: vendor payments of the day, all other payments.
Sequence == {"VPAY", "PAY"}

VARIABLES
  balance,              \* balance of each account
  status, input,        \* payments: status, and what was paid
  reversals,            \* reversal payments of each payment
  transferred,          \* net of the transfer payments of each account
  customerNet,          \* net of the customer ledger rows of each payment
  invoice,              \* status of each invoice
  seqLock, pc, on, seen \* sequence row locks; per request: control, payment, values

moneyVars   == <<balance, transferred>>
paymentVars == <<status, input, reversals, customerNet>>
data        == <<moneyVars, paymentVars, invoice>>
vars        == <<data, seqLock, pc, on, seen>>

PC == {"idle", "number", "account", "write", "transfer", "cancelPayment", "cancelInvoice"}

NoInput == [party |-> "CUSTOMER", flow |-> "IN", type |-> "DIRECT", acct |-> CHOOSE a \in Account : TRUE,
            amt |-> 0, alloc |-> [i \in Invoice |-> 0]]

\* What a request was sent, the invoice it cancels, the account it transfers to,
\* and the balance it has read.
NothingSeen == [in |-> NoInput, inv |-> CHOOSE i \in Invoice : TRUE,
                to |-> CHOOSE a \in Account : TRUE, bal |-> 0]
Seen == [in : Input, inv : Invoice, to : Account, bal : Int]

Init ==
  /\ balance = Opening /\ transferred = [a \in Account |-> 0]
  /\ status = [p \in Payment |-> "none"] /\ input = [p \in Payment |-> NoInput]
  /\ reversals = [p \in Payment |-> 0] /\ customerNet = [p \in Payment |-> 0]
  /\ invoice = [i \in Invoice |-> "UNPAID"]
  /\ seqLock = [s \in Sequence |-> None]
  /\ pc = [w \in Worker |-> "idle"] /\ on = [w \in Worker |-> None]
  /\ seen = [w \in Worker |-> NothingSeen]

-----------------------------------------------------------------------------
(* Amounts. *)

\* getInvoicePaidAmount: what the uncancelled payments put on the invoice.
PaidAmount(i) == SumOf([p \in Payment |-> input[p].alloc[i]], {p \in Payment : status[p] = "PAID"})

StatusFor(i, amt) == IF amt >= Due[i] THEN "PAID" ELSE IF amt > 0 THEN "PARTIAL" ELSE "UNPAID"

\* What a payment does to its account.
Effect(in) == IF in.flow = "IN" THEN in.amt ELSE -in.amt

Allocated(in) == {i \in Invoice : in.alloc[i] > 0}

-----------------------------------------------------------------------------
(* Requests and the number sequences. *)

Start(w, op, p, d) ==
  /\ op \in Ops /\ pc[w] = "idle"
  /\ pc' = [pc EXCEPT ![w] = p] /\ on' = [on EXCEPT ![w] = d]

Goto(w, p) == pc' = [pc EXCEPT ![w] = p] /\ UNCHANGED on

See(w, r) == seen' = [seen EXCEPT ![w] = r]

End(w) ==
  /\ seqLock' = [s \in Sequence |-> IF seqLock[s] = w THEN None ELSE seqLock[s]]
  /\ pc' = [pc EXCEPT ![w] = "idle"] /\ on' = [on EXCEPT ![w] = None]
  /\ See(w, NothingSeen)

\* An exception, a timeout or a crash rolls the transaction back.
Timeout(w) == pc[w] # "idle" /\ End(w) /\ UNCHANGED data

SequenceOf(in) == IF in.party = "VENDOR" THEN "VPAY" ELSE "PAY"

\* Mutant of Increment: a number that is counted instead of incremented.
IncrementUnlocked(w, s) == UNCHANGED seqLock

\* nextPaymentSequence: the row stays locked by the incrementing transaction.
Increment(w, s) == seqLock[s] = None /\ seqLock' = [seqLock EXCEPT ![s] = w]

-----------------------------------------------------------------------------
(* FinanceService.createPayment. *)

\* Key, funds and outstanding amounts are checked before anything is locked.
CheckPayment(w, p, in) ==
  /\ status[p] = "none"
  /\ in.flow = "OUT" => balance[in.acct] >= in.amt
  /\ in.flow = "IN" => \A i \in Allocated(in) :
       invoice[i] # "CANCELLED" /\ in.alloc[i] <= Due[i] - PaidAmount(i)
  /\ Start(w, "pay", "number", p)
  /\ See(w, [NothingSeen EXCEPT !.in = in])
  /\ UNCHANGED <<data, seqLock>>

\* Mutant of KeyFree: the column is not unique.
KeyUnconstrained(p) == TRUE

\* Payment.idempotencyKey is unique.
KeyFree(p) == status[p] = "none"

\* An insert waits for an uncommitted one under the same key.
KeyAwaited(w) == \E v \in Worker \ {w} : on[v] = on[w] /\ pc[v] \in {"account", "write"}

NumberPayment(w) ==
  /\ pc[w] = "number" /\ KeyFree(on[w]) /\ ~KeyAwaited(w) /\ Increment(w, SequenceOf(seen[w].in))
  /\ Goto(w, "account")
  /\ UNCHANGED <<data, seen>>

\* The key was used in the meantime: the earlier payment is returned.
ReturnWinner(w) ==
  /\ pc[w] = "number" /\ seqLock[SequenceOf(seen[w].in)] = None /\ ~KeyFree(on[w])
  /\ End(w) /\ UNCHANGED data

\* AccountService.adjustBalance reads the balance it will add to.
ReadAccount(w) ==
  /\ pc[w] = "account" /\ Goto(w, "write")
  /\ See(w, [seen[w] EXCEPT !.bal = balance[seen[w].in.acct]])
  /\ UNCHANGED <<data, seqLock>>

\* Mutant of PaidWith: the invoice is summed up before the payment is inserted.
PaidBefore(i, in) == PaidAmount(i)

PaidWith(i, in) == PaidAmount(i) + in.alloc[i]

\* The payment, its customer ledger row, its invoices' statuses and the balance.
WritePayment(w) ==
  LET p == on[w] in == seen[w].in IN
  /\ pc[w] = "write"
  /\ status' = [status EXCEPT ![p] = "PAID"]
  /\ input' = [input EXCEPT ![p] = in]
  /\ customerNet' = [customerNet EXCEPT ![p] = IF in.party = "CUSTOMER" THEN @ - Effect(in) ELSE @]
  /\ invoice' = [i \in Invoice |-> IF i \in Allocated(in)
                                   THEN StatusFor(i, PaidWith(i, in)) ELSE invoice[i]]
  /\ balance' = [balance EXCEPT ![in.acct] = seen[w].bal + Effect(in)]
  /\ End(w)
  /\ UNCHANGED <<transferred, reversals>>

-----------------------------------------------------------------------------
(* FinanceService.transferFunds: checks the source, then moves the amount by *)
(* increments.                                                              *)

Moves == MapThenSumSet(LAMBDA p : reversals[p], Payment)

CheckTransfer(w, a, b, n) ==
  /\ a # b /\ balance[a] >= n /\ transferred[a] > -MaxMoves
  /\ Start(w, "transfer", "transfer", None)
  /\ See(w, [NothingSeen EXCEPT !.in = [NoInput EXCEPT !.acct = a, !.amt = n], !.to = b])
  /\ UNCHANGED <<data, seqLock>>

WriteTransfer(w) ==
  LET a == seen[w].in.acct b == seen[w].to n == seen[w].in.amt IN
  /\ pc[w] = "transfer" /\ seqLock["PAY"] = None
  /\ balance' = [balance EXCEPT ![a] = @ - n, ![b] = @ + n]
  /\ transferred' = [transferred EXCEPT ![a] = @ - n, ![b] = @ + n]
  /\ End(w)
  /\ UNCHANGED <<paymentVars, invoice>>

-----------------------------------------------------------------------------
(* FinanceService.cancelPayment: reads the payment, then marks it, posts a   *)
(* reversal and restores the balance by an increment.                       *)

CancelPaymentRead(w, p) ==
  /\ status[p] = "PAID" /\ Moves < MaxMoves
  /\ Start(w, "cancelPayment", "cancelPayment", p)
  /\ UNCHANGED <<data, seqLock, seen>>

\* The direction is derived from the party and the type, not from the payment's own.
Restored(in) == IF in.party = "VENDOR" \/ in.type = "EXPENSE" THEN in.amt ELSE -in.amt

\* Mutant of NetToReverse: earlier reversals are not part of the net.
NetToReverseAgain(p) == -Effect(input[p])

\* reverseCustomerLedgerEntries: the net of the payment's rows, reversals included.
NetToReverse(p) == customerNet[p]

CancelPaymentWrite(w) ==
  LET p == on[w] in == input[p] IN
  /\ pc[w] = "cancelPayment" /\ seqLock["PAY"] = None
  /\ status' = [status EXCEPT ![p] = "CANCELLED"]
  /\ reversals' = [reversals EXCEPT ![p] = @ + 1]
  /\ balance' = [balance EXCEPT ![in.acct] = @ + Restored(in)]
  /\ customerNet' = [customerNet EXCEPT
                       ![p] = IF in.party = "CUSTOMER" THEN @ - NetToReverse(p) ELSE @]
  /\ End(w)
  /\ UNCHANGED <<transferred, input, invoice>>

-----------------------------------------------------------------------------
(* FinanceService.cancelInvoice: refuses an invoice with active payments. *)

CancelInvoiceRead(w, i) ==
  /\ invoice[i] # "CANCELLED" /\ PaidAmount(i) = 0
  /\ Start(w, "cancelInvoice", "cancelInvoice", None)
  /\ See(w, [NothingSeen EXCEPT !.inv = i])
  /\ UNCHANGED <<data, seqLock>>

CancelInvoiceWrite(w) ==
  /\ pc[w] = "cancelInvoice"
  /\ invoice' = [invoice EXCEPT ![seen[w].inv] = "CANCELLED"]
  /\ End(w)
  /\ UNCHANGED <<moneyVars, paymentVars>>

-----------------------------------------------------------------------------
Step(w) ==
  \/ NumberPayment(w) \/ ReturnWinner(w) \/ ReadAccount(w) \/ WritePayment(w)
  \/ WriteTransfer(w) \/ CancelPaymentWrite(w) \/ CancelInvoiceWrite(w)

Arrive(w) ==
  \/ \E p \in Payment, in \in Inputs : CheckPayment(w, p, in)
  \/ \E a, b \in Account, n \in Transfers : CheckTransfer(w, a, b, n)
  \/ \E p \in Payment : CancelPaymentRead(w, p)
  \/ \E i \in Invoice : CancelInvoiceRead(w, i)

Next == \E w \in Worker : Arrive(w) \/ Step(w) \/ Timeout(w)

Spec == Init /\ [][Next]_vars

-----------------------------------------------------------------------------
(* Properties. *)

\* Types: statuses are those of their enums, balances integers.
TypeOK ==
  /\ balance \in [Account -> Int] /\ transferred \in [Account -> Int]
  /\ status \in [Payment -> PaymentStatus] /\ input \in [Payment -> Input]
  /\ reversals \in [Payment -> Nat] /\ customerNet \in [Payment -> Int]
  /\ invoice \in [Invoice -> InvoiceStatus]
  /\ seqLock \in [Sequence -> Worker \cup {None}]
  /\ pc \in [Worker -> PC] /\ on \in [Worker -> Payment \cup {None}] /\ seen \in [Worker -> Seen]

\* An account's balance is its opening balance and the payments, reversals and
\* transfers recorded on it: no concurrent balance update is lost, although
\* adjustBalance writes back a balance it read earlier.
AccountsMatchPayments ==
  \A a \in Account :
    balance[a] = Opening[a] + transferred[a]
      + MapThenSumSet(LAMBDA p : Effect(input[p]) * (1 - reversals[p]),
                      {p \in Payment : status[p] # "none" /\ input[p].acct = a})

\* An invoice's status is what its payments make of it, in whatever order
\* receipts over shared invoices commit, unless it was cancelled meanwhile or
\* one of its payments was: cancelPayment leaves invoices alone.
StatusMatchesPaid ==
  \A i \in Invoice :
    (\A p \in Payment : status[p] = "CANCELLED" => input[p].alloc[i] = 0)
      => invoice[i] \in {"CANCELLED", StatusFor(i, PaidAmount(i))}

\* A cancelled customer payment leaves nothing on the customer's ledger, also
\* when two cancellations of it race.
CancelledNetsToZero == \A p \in Payment : status[p] = "CANCELLED" => customerNet[p] = 0

\* Recording a payment moves its account by its amount from whatever the balance
\* then is, although the balance it writes back was computed from an earlier
\* read; payments numbered from different sequences break it.
NoUpdateLost ==
  [][\A p \in Payment : (status[p] = "none" /\ status'[p] # "none") =>
       balance' = [balance EXCEPT ![input'[p].acct] = @ + Effect(input'[p])]]_vars

\* A payment, once recorded, is never recorded over by a retry under its key.
RecordedOnce ==
  [][\A p \in Payment : status[p] # "none" =>
       input'[p] = input[p] /\ status'[p] \in {status[p], "CANCELLED"}]_vars

(* What the code's comments and messages say and the model refutes. *)

\* "Payment already cancelled": a payment is reversed at most once.
ReversedOnce == \A p \in Payment : reversals[p] <= 1

\* "A cancelled customer payment no longer settles anything": an invoice shown
\* as paid is covered by payments that stand.
PaidIsCovered == \A i \in Invoice : invoice[i] = "PAID" => PaidAmount(i) >= Due[i]

\* "exceeds the outstanding balance": an invoice is never paid beyond its amount.
NotOverpaid == \A i \in Invoice : PaidAmount(i) <= Due[i]

\* "Insufficient balance": no payment or transfer overdraws an account.
NotOverdrawn == \A a \in Account : balance[a] >= 0

\* "Cannot receive payment for a cancelled invoice".
CancelledInvoiceUnpaid == \A i \in Invoice : invoice[i] = "CANCELLED" => PaidAmount(i) = 0

=============================================================================
