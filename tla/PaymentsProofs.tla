--------------------------- MODULE PaymentsProofs ---------------------------
(***************************************************************************)
(* What Payments guarantees for any number of requests, payments, invoices *)
(* and accounts.  IInv adds to the properties what the locked number       *)
(* sequence and the unique key hold fixed between a request's steps.       *)
(***************************************************************************)
EXTENDS Payments, SumLemmas

\* Every payment takes its number from the sequence that transfers and
\* cancellations use as well: none is a vendor's.
OneSequence == \A in \in Inputs : in.party # "VENDOR"

Inserting == {"account", "write"}

\* A request with a number holds its sequence, and inserts a payment that does
\* not exist and that no other request inserts.
RequestsOK ==
  /\ \A w \in Worker :
       /\ pc[w] \in Inserting \cup {"number", "cancelPayment"} => on[w] \in Payment
       /\ pc[w] \in Inserting \cup {"number"} => seen[w].in \in Inputs
       /\ pc[w] \in Inserting =>
            seqLock[SequenceOf(seen[w].in)] = w /\ status[on[w]] = "none"
       /\ pc[w] = "cancelPayment" => status[on[w]] # "none"
  /\ \A v, w \in Worker : pc[v] \in Inserting /\ pc[w] \in Inserting /\ on[v] = on[w] => v = w

\* Only a customer's standing payment has something on the customer ledger.
LedgerOK ==
  \A p \in Payment :
    status[p] # "PAID" \/ input[p].party # "CUSTOMER" => customerNet[p] = 0

\* The balance a request will write back is still the account's.
BalanceFresh ==
  OneSequence => \A w \in Worker : pc[w] = "write" => seen[w].bal = balance[seen[w].in.acct]

IInv == TypeOK /\ RequestsOK /\ LedgerOK /\ BalanceFresh

-----------------------------------------------------------------------------
\* The values of an idle request are typed.
LEMMA NothingSeenType == NoInput \in Input /\ NothingSeen \in Seen
<1>1. PICK a \in Account : a = CHOOSE x \in Account : TRUE
  BY PaymentAssumption
<1>2. PICK i \in Invoice : i = CHOOSE x \in Invoice : TRUE
  BY PaymentAssumption
<1> QED
  BY <1>1, <1>2 DEF NoInput, NothingSeen, Input, Seen, Party, Flow, Type

\* The initial states satisfy the inductive invariant.
LEMMA InitIInv == Init => IInv
<1> SUFFICES ASSUME Init PROVE IInv
  OBVIOUS
<1>1. TypeOK
  BY NothingSeenType, PaymentAssumption
  DEF Init, TypeOK, PaymentStatus, InvoiceStatus, Sequence, PC
<1>2. RequestsOK /\ LedgerOK /\ BalanceFresh
  BY DEF Init, RequestsOK, LedgerOK, BalanceFresh, Inserting
<1> QED
  BY <1>1, <1>2 DEF IInv

\* Ending the request of w frees its sequences, idles it, and disturbs no other.
LEMMA EndKeeps ==
  ASSUME TypeOK, NEW w \in Worker, End(w)
  PROVE  /\ seqLock' \in [Sequence -> Worker \cup {None}]
         /\ pc' \in [Worker -> PC] /\ on' \in [Worker -> Payment \cup {None}]
         /\ seen' \in [Worker -> Seen]
         /\ pc'[w] = "idle"
         /\ \A v \in Worker : v # w => pc'[v] = pc[v] /\ on'[v] = on[v] /\ seen'[v] = seen[v]
         /\ \A v \in Worker, s \in Sequence : v # w /\ seqLock[s] = v => seqLock'[s] = v
BY NothingSeenType DEF TypeOK, End, See, PC

\* What a payment does to its account is a whole amount.
LEMMA EffectType == ASSUME NEW in \in Input PROVE Effect(in) \in Int
BY DEF Effect, Input

\* The sequence a payment is numbered from exists.
LEMMA SequenceType == ASSUME NEW in \in Input PROVE SequenceOf(in) \in Sequence
BY DEF SequenceOf, Sequence

-----------------------------------------------------------------------------
\* While all payments share a sequence, at most one request is between its
\* number and its commit, and it is the one that holds the sequence.
LEMMA OneWriter ==
  ASSUME IInv, OneSequence, NEW v \in Worker, pc[v] \in Inserting
  PROVE  seqLock["PAY"] = v /\ seqLock["PAY"] # None
<1>1. seen[v].in.party # "VENDOR" /\ seqLock[SequenceOf(seen[v].in)] = v
  BY DEF IInv, RequestsOK, OneSequence
<1> QED
  BY <1>1, PaymentAssumption DEF SequenceOf

\* A request that ends and writes nothing leaves the invariant as it was.
LEMMA EndOnlyIInv ==
  ASSUME IInv, NEW w \in Worker, End(w), UNCHANGED data
  PROVE  IInv'
<1> USE DEF IInv
<1>1. TypeOK'
  BY EndKeeps DEF TypeOK, data, moneyVars, paymentVars
<1>2. RequestsOK'
  <2>1. \A v \in Worker : pc'[v] # "idle" => v # w
    BY EndKeeps
  <2>2. \A v \in Worker : pc[v] \in Inserting => SequenceOf(seen[v].in) \in Sequence
    BY SequenceType, PaymentAssumption DEF RequestsOK
  <2> QED
    BY <2>1, <2>2, EndKeeps DEF RequestsOK, data, paymentVars, Inserting
<1>3. LedgerOK' /\ BalanceFresh'
  BY EndKeeps DEF LedgerOK, BalanceFresh, data, moneyVars, paymentVars
<1> QED
  BY <1>1, <1>2, <1>3

\* createPayment's checks write nothing; the payment they are for is new.
LEMMA CheckPaymentIInv ==
  ASSUME IInv, NEW w \in Worker, NEW p \in Payment, NEW in \in Inputs, CheckPayment(w, p, in)
  PROVE  IInv'
<1> DEFINE r == [NothingSeen EXCEPT !.in = in]
<1>1. r \in Seen /\ r.in = in
  BY NothingSeenType, PaymentAssumption DEF Seen, NothingSeen
<1>2. /\ seen' = [seen EXCEPT ![w] = r] /\ UNCHANGED <<data, seqLock>>
      /\ pc' = [pc EXCEPT ![w] = "number"] /\ on' = [on EXCEPT ![w] = p]
  BY DEF CheckPayment, Start, See
<1> HIDE DEF r
<1>3. TypeOK'
  BY <1>1, <1>2 DEF IInv, TypeOK, PC, data, moneyVars, paymentVars
<1>4. RequestsOK'
  BY <1>1, <1>2 DEF IInv, TypeOK, RequestsOK, Inserting, data, paymentVars
<1>5. LedgerOK' /\ BalanceFresh'
  BY <1>2 DEF IInv, TypeOK, LedgerOK, BalanceFresh, data, moneyVars, paymentVars
<1> QED
  BY <1>3, <1>4, <1>5 DEF IInv

\* The other checks write nothing; a payment to cancel exists.
LEMMA CheckOthersIInv ==
  ASSUME IInv, NEW w \in Worker, NEW step \in {"transfer", "cancelPayment", "cancelInvoice"},
         NEW d \in Payment \cup {None}, NEW r \in Seen,
         step = "cancelPayment" => d \in Payment /\ status[d] # "none",
         pc' = [pc EXCEPT ![w] = step], on' = [on EXCEPT ![w] = d],
         seen' = [seen EXCEPT ![w] = r], UNCHANGED <<data, seqLock>>
  PROVE  IInv'
<1>1. TypeOK'
  BY DEF IInv, TypeOK, PC, data, moneyVars, paymentVars
<1>2. RequestsOK'
  BY DEF IInv, TypeOK, RequestsOK, Inserting, data, paymentVars
<1>3. LedgerOK' /\ BalanceFresh'
  BY DEF IInv, TypeOK, LedgerOK, BalanceFresh, data, moneyVars, paymentVars
<1> QED
  BY <1>1, <1>2, <1>3 DEF IInv

\* A number is taken from a free sequence, for a key nobody uses or inserts.
LEMMA NumberPaymentIInv ==
  ASSUME IInv, NEW w \in Worker, NumberPayment(w)
  PROVE  IInv'
<1> DEFINE s == SequenceOf(seen[w].in)
<1>1. /\ seqLock' = [seqLock EXCEPT ![s] = w] /\ seqLock[s] = None
      /\ pc' = [pc EXCEPT ![w] = "account"] /\ pc[w] = "number" /\ status[on[w]] = "none"
      /\ UNCHANGED <<on, data, seen>>
  BY DEF NumberPayment, Increment, Goto, KeyFree
<1>2. s \in Sequence
  BY <1>1, SequenceType, PaymentAssumption DEF IInv, RequestsOK
<1>3. \A v \in Worker : v # w /\ pc[v] \in Inserting =>
        on[v] # on[w] /\ seqLock'[SequenceOf(seen[v].in)] = v
  BY <1>1, <1>2, PaymentAssumption
  DEF IInv, TypeOK, RequestsOK, NumberPayment, KeyAwaited, Inserting
<1>4. TypeOK'
  BY <1>1, <1>2 DEF IInv, TypeOK, PC, data, moneyVars, paymentVars
<1>5. RequestsOK'
  BY <1>1, <1>2, <1>3 DEF IInv, TypeOK, RequestsOK, Inserting, data, paymentVars
<1>6. LedgerOK' /\ BalanceFresh'
  BY <1>1 DEF IInv, TypeOK, LedgerOK, BalanceFresh, data, moneyVars, paymentVars
<1> QED
  BY <1>4, <1>5, <1>6 DEF IInv

\* The account is read as it is.
LEMMA ReadAccountIInv ==
  ASSUME IInv, NEW w \in Worker, ReadAccount(w)
  PROVE  IInv'
<1> DEFINE r == [seen[w] EXCEPT !.bal = balance[seen[w].in.acct]]
<1>1. /\ pc[w] = "account" /\ seen' = [seen EXCEPT ![w] = r]
      /\ pc' = [pc EXCEPT ![w] = "write"] /\ UNCHANGED <<on, data, seqLock>>
  BY DEF ReadAccount, Goto, See
<1>2. r \in Seen /\ r.in = seen[w].in /\ r.bal = balance[r.in.acct]
  BY DEF IInv, TypeOK, Seen, Input
<1> HIDE DEF r
<1>3. TypeOK'
  BY <1>1, <1>2 DEF IInv, TypeOK, PC, data, moneyVars, paymentVars
<1>4. RequestsOK'
  BY <1>1, <1>2 DEF IInv, TypeOK, RequestsOK, Inserting, data, paymentVars
<1>5. LedgerOK' /\ BalanceFresh'
  BY <1>1, <1>2 DEF IInv, TypeOK, LedgerOK, BalanceFresh, data, moneyVars, paymentVars
<1> QED
  BY <1>3, <1>4, <1>5 DEF IInv

\* A payment is inserted with its ledger row, on the balance it read.
LEMMA WritePaymentIInv ==
  ASSUME IInv, NEW w \in Worker, WritePayment(w)
  PROVE  IInv'
<1> DEFINE p == on[w]
           in == seen[w].in
<1>1. /\ pc[w] = "write" /\ p \in Payment /\ in \in Input /\ status[p] = "none"
      /\ customerNet[p] = 0 /\ seen[w].bal \in Int
  <2>1. pc[w] = "write"
    BY DEF WritePayment
  <2>2. p \in Payment /\ in \in Input /\ status[p] = "none"
    BY <2>1, PaymentAssumption DEF IInv, RequestsOK, Inserting
  <2>3. customerNet[p] = 0 /\ seen[w].bal \in Int
    BY <2>2 DEF IInv, TypeOK, LedgerOK, Seen
  <2> QED
    BY <2>1, <2>2, <2>3
<1>2. TypeOK'
  <2>1. invoice' \in [Invoice -> InvoiceStatus]
    BY DEF WritePayment, IInv, TypeOK, StatusFor, InvoiceStatus
  <2>2. balance' \in [Account -> Int] /\ customerNet' \in [Payment -> Int]
    <3>1. Effect(in) \in Int /\ in.acct \in Account
      BY <1>1, EffectType DEF Input
    <3>2. seen[w].bal + Effect(in) \in Int /\ customerNet[p] - Effect(in) \in Int
      BY <1>1, <3>1
    <3>3. /\ balance' = [balance EXCEPT ![in.acct] = seen[w].bal + Effect(in)]
          /\ customerNet' = [customerNet EXCEPT ![p] =
                               IF in.party = "CUSTOMER" THEN @ - Effect(in) ELSE @]
      BY DEF WritePayment
    <3> QED
      BY <1>1, <3>1, <3>2, <3>3 DEF IInv, TypeOK
  <2> QED
    BY <1>1, <2>1, <2>2, EndKeeps DEF WritePayment, IInv, TypeOK, PaymentStatus
<1>3. RequestsOK'
  <2>1. \A v \in Worker : pc'[v] # "idle" => v # w /\ pc'[v] = pc[v] /\ on'[v] = on[v] /\ seen'[v] = seen[v]
    BY EndKeeps DEF IInv, WritePayment
  <2>2. \A v \in Worker : v # w /\ pc[v] \in Inserting =>
          on[v] # p /\ SequenceOf(seen[v].in) \in Sequence
    BY <1>1, SequenceType, PaymentAssumption DEF IInv, RequestsOK, Inserting
  <2> QED
    BY <1>1, <2>1, <2>2, EndKeeps DEF WritePayment, IInv, TypeOK, RequestsOK, Inserting
<1>4. LedgerOK'
  BY <1>1 DEF WritePayment, IInv, TypeOK, LedgerOK
<1>5. BalanceFresh'
  <2>1. \A v \in Worker : OneSequence /\ v # w => pc[v] # "write"
    BY <1>1, OneWriter DEF Inserting
  <2> QED
    BY <2>1, EndKeeps DEF WritePayment, IInv, BalanceFresh
<1> QED
  BY <1>2, <1>3, <1>4, <1>5 DEF IInv

\* A request that ends with the common sequence free, or that leaves balances
\* alone, makes no read balance stale.
LEMMA FreshKept ==
  ASSUME IInv, NEW w \in Worker, End(w), seqLock["PAY"] = None \/ UNCHANGED balance
  PROVE  BalanceFresh'
<1>1. CASE UNCHANGED balance
  BY <1>1, EndKeeps DEF IInv, BalanceFresh
<1>2. CASE seqLock["PAY"] = None
  <2>1. \A v \in Worker : OneSequence => pc[v] # "write"
    BY <1>2, OneWriter DEF Inserting
  <2> QED
    BY <2>1, EndKeeps DEF IInv, BalanceFresh
<1> QED
  BY <1>1, <1>2

\* A request that ends without making or unmaking a payment disturbs none.
LEMMA RequestsKept ==
  ASSUME IInv, NEW w \in Worker, End(w),
         \A p \in Payment : status'[p] = "none" <=> status[p] = "none"
  PROVE  RequestsOK'
<1>1. \A v \in Worker : pc'[v] # "idle" => v # w /\ pc'[v] = pc[v] /\ on'[v] = on[v] /\ seen'[v] = seen[v]
  BY EndKeeps DEF IInv
<1>2. \A v \in Worker : pc[v] \in Inserting => SequenceOf(seen[v].in) \in Sequence
  BY SequenceType, PaymentAssumption DEF IInv, RequestsOK
<1> QED
  BY <1>1, <1>2, EndKeeps DEF IInv, RequestsOK, Inserting

\* A transfer moves money while nobody is between a read and a write.
LEMMA WriteTransferIInv ==
  ASSUME IInv, NEW w \in Worker, WriteTransfer(w)
  PROVE  IInv'
<1> DEFINE a == seen[w].in.acct
           b == seen[w].to
           n == seen[w].in.amt
<1>1. a \in Account /\ b \in Account /\ n \in Nat
  BY DEF IInv, TypeOK, Seen, Input
<1>2. /\ balance' = [balance EXCEPT ![a] = @ - n, ![b] = @ + n]
      /\ transferred' = [transferred EXCEPT ![a] = @ - n, ![b] = @ + n]
      /\ End(w) /\ seqLock["PAY"] = None /\ UNCHANGED <<paymentVars, invoice>>
  BY DEF WriteTransfer
<1> HIDE DEF a, b, n
<1>3. balance' \in [Account -> Int] /\ transferred' \in [Account -> Int]
  BY <1>1, <1>2 DEF IInv, TypeOK
<1>4. TypeOK'
  BY <1>2, <1>3, EndKeeps DEF IInv, TypeOK, paymentVars
<1>5. LedgerOK'
  BY <1>2 DEF IInv, LedgerOK, paymentVars
<1> QED
  BY <1>2, <1>4, <1>5, FreshKept, RequestsKept DEF IInv, paymentVars

\* A cancelled payment nets to nothing on the customer's ledger.
LEMMA CancelPaymentWriteIInv ==
  ASSUME IInv, NEW w \in Worker, CancelPaymentWrite(w)
  PROVE  IInv'
<1> DEFINE p == on[w]
           n == Restored(input[p])
<1>1. p \in Payment /\ status[p] # "none" /\ input[p].acct \in Account
  BY DEF IInv, TypeOK, RequestsOK, CancelPaymentWrite, Input
<1>2. n \in Int
  BY <1>1 DEF IInv, TypeOK, Restored, Input
<1>3. /\ status' = [status EXCEPT ![p] = "CANCELLED"]
      /\ reversals' = [reversals EXCEPT ![p] = @ + 1]
      /\ balance' = [balance EXCEPT ![input[p].acct] = @ + n]
      /\ customerNet' = [customerNet EXCEPT
                          ![p] = IF input[p].party = "CUSTOMER" THEN @ - customerNet[p] ELSE @]
      /\ End(w) /\ seqLock["PAY"] = None /\ UNCHANGED <<transferred, input, invoice>>
  BY DEF CancelPaymentWrite, NetToReverse
<1> HIDE DEF n
<1>4. TypeOK'
  BY <1>1, <1>2, <1>3, EndKeeps DEF IInv, TypeOK, PaymentStatus
<1>5. LedgerOK'
  BY <1>1, <1>3 DEF IInv, TypeOK, LedgerOK
<1>6. \A q \in Payment : status'[q] = "none" <=> status[q] = "none"
  BY <1>1, <1>3 DEF IInv, TypeOK
<1> QED
  BY <1>3, <1>4, <1>5, <1>6, FreshKept, RequestsKept DEF IInv

\* Cancelling an invoice touches no payment and no balance.
LEMMA CancelInvoiceWriteIInv ==
  ASSUME IInv, NEW w \in Worker, CancelInvoiceWrite(w)
  PROVE  IInv'
<1>1. TypeOK'
  BY EndKeeps DEF CancelInvoiceWrite, IInv, TypeOK, InvoiceStatus, moneyVars, paymentVars
<1>2. LedgerOK'
  BY DEF CancelInvoiceWrite, IInv, LedgerOK, paymentVars
<1> QED
  BY <1>1, <1>2, FreshKept, RequestsKept DEF CancelInvoiceWrite, IInv, moneyVars, paymentVars

-----------------------------------------------------------------------------
\* Every arriving request keeps the inductive invariant.
LEMMA ArriveIInv ==
  ASSUME IInv, NEW w \in Worker, Arrive(w)
  PROVE  IInv'
<1>1. ASSUME NEW p \in Payment, NEW in \in Inputs, CheckPayment(w, p, in) PROVE IInv'
  BY <1>1, CheckPaymentIInv
<1>2. ASSUME NEW a \in Account, NEW b \in Account, NEW n \in Transfers, CheckTransfer(w, a, b, n)
      PROVE  IInv'
  <2> DEFINE t == [NoInput EXCEPT !.acct = a, !.amt = n]
             r == [NothingSeen EXCEPT !.in = t, !.to = b]
  <2>1. t \in Input
    BY NothingSeenType, PaymentAssumption DEF Input, NoInput
  <2>2. r \in Seen
    BY <2>1, NothingSeenType DEF Seen, NothingSeen
  <2>3. /\ seen' = [seen EXCEPT ![w] = r] /\ UNCHANGED <<data, seqLock>>
        /\ pc' = [pc EXCEPT ![w] = "transfer"] /\ on' = [on EXCEPT ![w] = None]
    BY <1>2 DEF CheckTransfer, Start, See
  <2> HIDE DEF r
  <2> QED
    BY <2>2, <2>3, CheckOthersIInv
<1>3. ASSUME NEW p \in Payment, CancelPaymentRead(w, p) PROVE IInv'
  <2>1. /\ pc' = [pc EXCEPT ![w] = "cancelPayment"] /\ on' = [on EXCEPT ![w] = p]
        /\ seen' = [seen EXCEPT ![w] = seen[w]] /\ seen[w] \in Seen
        /\ UNCHANGED <<data, seqLock>> /\ status[p] # "none"
    BY <1>3 DEF CancelPaymentRead, Start, IInv, TypeOK
  <2> QED
    BY <2>1, CheckOthersIInv
<1>4. ASSUME NEW i \in Invoice, CancelInvoiceRead(w, i) PROVE IInv'
  <2> DEFINE r == [NothingSeen EXCEPT !.inv = i]
  <2>1. r \in Seen
    BY NothingSeenType DEF Seen, NothingSeen
  <2>2. /\ seen' = [seen EXCEPT ![w] = r] /\ UNCHANGED <<data, seqLock>>
        /\ pc' = [pc EXCEPT ![w] = "cancelInvoice"] /\ on' = [on EXCEPT ![w] = None]
    BY <1>4 DEF CancelInvoiceRead, Start, See
  <2> HIDE DEF r
  <2> QED
    BY <2>1, <2>2, CheckOthersIInv
<1> QED
  BY <1>1, <1>2, <1>3, <1>4 DEF Arrive

\* Every step of every request keeps the inductive invariant.
LEMMA NextIInv == IInv /\ [Next]_vars => IInv'
<1> SUFFICES ASSUME IInv, [Next]_vars PROVE IInv'
  OBVIOUS
<1>1. ASSUME NEW w \in Worker, Arrive(w) PROVE IInv'
  BY <1>1, ArriveIInv
<1>2. ASSUME NEW w \in Worker, Step(w) PROVE IInv'
  <2>1. ASSUME ReturnWinner(w) PROVE IInv'
    BY <2>1, EndOnlyIInv DEF ReturnWinner
  <2> QED
    BY <1>2, <2>1, NumberPaymentIInv, ReadAccountIInv, WritePaymentIInv, WriteTransferIInv,
       CancelPaymentWriteIInv, CancelInvoiceWriteIInv DEF Step
<1>3. ASSUME NEW w \in Worker, Timeout(w) PROVE IInv'
  BY <1>3, EndOnlyIInv DEF Timeout
<1>4. CASE UNCHANGED vars
  BY <1>4 DEF IInv, vars, data, moneyVars, paymentVars, TypeOK, RequestsOK, LedgerOK, BalanceFresh
<1> QED
  BY <1>1, <1>2, <1>3, <1>4 DEF Next

\* The inductive invariant holds in every reachable state.
THEOREM Invariance == Spec => []IInv
BY InitIInv, NextIInv, PTL DEF Spec

\* Payments, invoices and accounts always hold values of their types.
THEOREM TypeCorrect == Spec => []TypeOK
<1>1. IInv => TypeOK
  BY DEF IInv
<1> QED
  BY <1>1, Invariance, PTL

\* reverseCustomerLedgerEntries leaves a cancelled payment with a net of zero,
\* however many cancellations of it race.
THEOREM LedgerNetsToZero == Spec => []CancelledNetsToZero
<1>1. IInv => CancelledNetsToZero
  BY DEF IInv, LedgerOK, CancelledNetsToZero
<1> QED
  BY <1>1, Invariance, PTL

\* A step that makes or unmakes a payment is the write of one request.
LEMMA PaymentStep ==
  ASSUME IInv, Next, NEW p \in Payment, status'[p] # status[p] \/ input'[p] # input[p]
  PROVE  \E w \in Worker : on[w] = p /\ (WritePayment(w) \/ CancelPaymentWrite(w))
<1> PICK w \in Worker : Arrive(w) \/ Step(w) \/ Timeout(w)
  BY DEF Next
<1>1. WritePayment(w) \/ CancelPaymentWrite(w)
  BY DEF Arrive, Step, Timeout, data, paymentVars, CheckPayment, CheckTransfer,
     CancelPaymentRead, CancelInvoiceRead, NumberPayment, ReturnWinner, ReadAccount,
     WriteTransfer, CancelInvoiceWrite
<1>2. on[w] = p
  BY <1>1 DEF IInv, TypeOK, WritePayment, CancelPaymentWrite
<1> QED
  BY <1>1, <1>2

\* The unique key, and the wait for an uncommitted insert, let no retry record
\* a payment over the first.
LEMMA RecordedStep ==
  ASSUME IInv, [Next]_vars
  PROVE  [\A p \in Payment : status[p] # "none" =>
            input'[p] = input[p] /\ status'[p] \in {status[p], "CANCELLED"}]_vars
<1> SUFFICES ASSUME Next, NEW p \in Payment, status[p] # "none"
             PROVE  input'[p] = input[p] /\ status'[p] \in {status[p], "CANCELLED"}
  BY DEF vars
<1> SUFFICES ASSUME status'[p] # status[p] \/ input'[p] # input[p]
             PROVE  input'[p] = input[p] /\ status'[p] \in {status[p], "CANCELLED"}
  OBVIOUS
<1> PICK w \in Worker : on[w] = p /\ (WritePayment(w) \/ CancelPaymentWrite(w))
  BY PaymentStep
<1>1. ~WritePayment(w)
  <2> SUFFICES ASSUME pc[w] = "write" PROVE FALSE
    BY DEF WritePayment
  <2> QED
    BY DEF IInv, RequestsOK, Inserting
<1>2. CancelPaymentWrite(w)
  BY <1>1
<1> QED
  BY <1>2 DEF CancelPaymentWrite, IInv, TypeOK

\* No payment is ever recorded over by a retry under its key.
THEOREM RecordedOnceSafe == Spec => RecordedOnce
<1>1. Init /\ [][Next]_vars =>
        [][\A p \in Payment : status[p] # "none" =>
             input'[p] = input[p] /\ status'[p] \in {status[p], "CANCELLED"}]_vars
  BY RecordedStep, Invariance, PTL DEF Spec
<1> QED
  BY <1>1 DEF Spec, RecordedOnce

\* A payment is written on a balance that is still the account's.
LEMMA UpdateStep ==
  ASSUME OneSequence, IInv, [Next]_vars
  PROVE  [\A p \in Payment : (status[p] = "none" /\ status'[p] # "none") =>
            balance' = [balance EXCEPT ![input'[p].acct] = @ + Effect(input'[p])]]_vars
<1> SUFFICES ASSUME Next, NEW p \in Payment, status[p] = "none", status'[p] # "none"
             PROVE  balance' = [balance EXCEPT ![input'[p].acct] = @ + Effect(input'[p])]
  BY DEF vars
<1> PICK w \in Worker : on[w] = p /\ (WritePayment(w) \/ CancelPaymentWrite(w))
  BY PaymentStep
<1>1. ~CancelPaymentWrite(w)
  BY DEF IInv, RequestsOK, CancelPaymentWrite
<1>2. WritePayment(w)
  BY <1>1
<1>3. /\ pc[w] = "write" /\ input'[p] = seen[w].in
      /\ balance' = [balance EXCEPT ![seen[w].in.acct] = seen[w].bal + Effect(seen[w].in)]
  BY <1>2 DEF WritePayment, IInv, TypeOK
<1>4. seen[w].bal = balance[seen[w].in.acct]
  BY <1>3 DEF IInv, BalanceFresh
<1> QED
  BY <1>3, <1>4

\* adjustBalance's read-then-write loses no update as long as every payment is
\* numbered from one sequence, however many requests are in flight.
THEOREM NoUpdateLostSafe == OneSequence /\ Spec => NoUpdateLost
<1> SUFFICES ASSUME OneSequence PROVE Spec => NoUpdateLost
  OBVIOUS
<1>1. Init /\ [][Next]_vars =>
        [][\A p \in Payment : (status[p] = "none" /\ status'[p] # "none") =>
             balance' = [balance EXCEPT ![input'[p].acct] = @ + Effect(input'[p])]]_vars
  BY UpdateStep, Invariance, PTL DEF Spec
<1> QED
  BY <1>1 DEF Spec, NoUpdateLost

-----------------------------------------------------------------------------
(* Invoices and what is paid on them. *)

Paying == {p \in Payment : status[p] = "PAID"}
On(i) == [p \in Payment |-> input[p].alloc[i]]

\* What payments put on an invoice, and the sum of it.
LEMMA OnInvoice ==
  ASSUME IInv, NEW i \in Invoice
  PROVE  /\ PaidAmount(i) = SumOf(On(i), Paying) /\ IsFiniteSet(Paying)
         /\ On(i) \in [Payment -> Nat] /\ Ints(On(i), Paying)
<1>1. \A p \in Payment : input[p].alloc[i] \in Nat
  BY DEF IInv, TypeOK, Input
<1>2. IsFiniteSet(Paying)
  BY PaymentAssumption, FS_Subset DEF Paying
<1> QED
  BY <1>1, <1>2 DEF PaidAmount, On, Paying, Ints

\* A payment that is made adds what it puts on the invoice.
LEMMA PaidAdds ==
  ASSUME IInv, IInv', NEW i \in Invoice, NEW p \in Payment, NEW in \in Input, status[p] = "none",
         status' = [status EXCEPT ![p] = "PAID"], input' = [input EXCEPT ![p] = in]
  PROVE  PaidAmount(i)' = PaidAmount(i) + in.alloc[i]
<1> DEFINE S == Paying
           f == On(i)
           g == On(i)'
<1>1. PaidAmount(i) = SumOf(f, S) /\ IsFiniteSet(S) /\ Ints(f, S)
  BY OnInvoice
<1>2. PaidAmount(i)' = SumOf(g, Paying')
  BY DEF PaidAmount, On, Paying
<1>3. Paying' = S \cup {p} /\ p \notin S
  BY DEF Paying, IInv, TypeOK
<1>4. g[p] = in.alloc[i] /\ in.alloc[i] \in Nat /\ \A q \in S : g[q] = f[q]
  BY DEF On, Paying, IInv, TypeOK, Input
<1> HIDE DEF S, f, g
<1>5. Ints(g, S \cup {p})
  BY <1>1, <1>4 DEF Ints
<1>6. SumOf(g, S \cup {p}) = g[p] + SumOf(g, S)
  BY <1>1, <1>3, <1>5, SumAdd
<1>7. SumOf(g, S) = SumOf(f, S) /\ SumOf(f, S) \in Int
  BY <1>1, <1>4, SumSame, SumInt
<1> QED
  BY <1>1, <1>2, <1>3, <1>4, <1>6, <1>7

\* A payment that put nothing on the invoice may go.
LEMMA PaidStays ==
  ASSUME IInv, NEW i \in Invoice, NEW p \in Payment, input[p].alloc[i] = 0,
         status' = [status EXCEPT ![p] = "CANCELLED"], input' = input
  PROVE  PaidAmount(i)' = PaidAmount(i)
<1> DEFINE S == Paying
           f == On(i)
<1>1. PaidAmount(i) = SumOf(f, S) /\ IsFiniteSet(S) /\ Ints(f, S) /\ PaidAmount(i)' = SumOf(f, Paying')
  BY OnInvoice DEF PaidAmount, On, Paying
<1>2. Paying' = S \ {p} /\ f[p] = 0
  BY DEF Paying, On, IInv, TypeOK
<1> HIDE DEF S, f
<1>3. CASE p \in S
  <2>1. SumOf(f, S) = f[p] + SumOf(f, S \ {p})
    BY <1>1, <1>3, SumRemove
  <2>2. IsFiniteSet(S \ {p}) /\ Ints(f, S \ {p})
    BY <1>1, FS_Subset DEF Ints
  <2> QED
    BY <1>1, <1>2, <2>1, <2>2, SumInt
<1>4. CASE p \notin S
  <2>1. S \ {p} = S
    BY <1>4
  <2> QED
    BY <1>1, <1>2, <2>1
<1> QED
  BY <1>3, <1>4

\* The statuses follow the payments that stand.
LEMMA StatusKept ==
  ASSUME IInv, IInv', StatusMatchesPaid, [Next]_vars
  PROVE  StatusMatchesPaid'
<1> SUFFICES ASSUME NEW i \in Invoice,
                    \A p \in Payment : status'[p] = "CANCELLED" => input'[p].alloc[i] = 0
             PROVE  invoice'[i] \in {"CANCELLED", StatusFor(i, PaidAmount(i)')}
  BY DEF StatusMatchesPaid, StatusFor
<1> DEFINE Sound == invoice[i] \in {"CANCELLED", StatusFor(i, PaidAmount(i))}
<1>1. ASSUME \A p \in Payment : status[p] = "CANCELLED" => status'[p] = "CANCELLED" /\ input'[p] = input[p]
      PROVE  Sound
  BY <1>1 DEF StatusMatchesPaid
<1>2. CASE UNCHANGED <<status, input, invoice>>
  <2>1. PaidAmount(i)' = PaidAmount(i)
    BY <1>2 DEF PaidAmount
  <2> QED
    BY <1>1, <1>2, <2>1
<1>3. ASSUME NEW w \in Worker, WritePayment(w)
      PROVE  invoice'[i] \in {"CANCELLED", StatusFor(i, PaidAmount(i)')}
  <2>1. PICK p \in Payment, in \in Input :
          /\ p = on[w] /\ in = seen[w].in /\ status[p] = "none"
          /\ status' = [status EXCEPT ![p] = "PAID"] /\ input' = [input EXCEPT ![p] = in]
    BY <1>3, PaymentAssumption DEF WritePayment, IInv, RequestsOK, Inserting
  <2>2. PaidAmount(i)' = PaidAmount(i) + in.alloc[i]
    BY <2>1, PaidAdds
  <2>3. invoice'[i] = IF in.alloc[i] > 0 THEN StatusFor(i, PaidAmount(i) + in.alloc[i]) ELSE invoice[i]
    BY <1>3, <2>1 DEF WritePayment, Allocated, PaidWith
  <2>4. CASE in.alloc[i] > 0
    BY <2>2, <2>3, <2>4
  <2>5. CASE ~ (in.alloc[i] > 0)
    <3>1. Sound
      BY <1>1, <2>1 DEF IInv, TypeOK
    <3>2. in.alloc[i] = 0 /\ PaidAmount(i) \in Int
      BY <2>5, OnInvoice, SumInt DEF Input
    <3>3. PaidAmount(i)' = PaidAmount(i)
      BY ONLY <2>2, <3>2
    <3> QED
      BY <2>3, <2>5, <3>1, <3>3
  <2> QED
    BY <2>4, <2>5
<1>4. ASSUME NEW w \in Worker, CancelPaymentWrite(w)
      PROVE  invoice'[i] \in {"CANCELLED", StatusFor(i, PaidAmount(i)')}
  <2>1. PICK p \in Payment : /\ p = on[w] /\ status' = [status EXCEPT ![p] = "CANCELLED"]
                             /\ UNCHANGED <<input, invoice>>
    BY <1>4 DEF CancelPaymentWrite, IInv, RequestsOK
  <2>2. input[p].alloc[i] = 0
    BY <2>1 DEF IInv, TypeOK
  <2>3. PaidAmount(i)' = PaidAmount(i)
    BY <2>1, <2>2, PaidStays
  <2>4. Sound
    BY <1>1, <2>1 DEF IInv, TypeOK
  <2> QED
    BY <2>1, <2>3, <2>4
<1>5. ASSUME NEW w \in Worker, CancelInvoiceWrite(w)
      PROVE  invoice'[i] \in {"CANCELLED", StatusFor(i, PaidAmount(i)')}
  <2>1. UNCHANGED <<status, input>> /\ PaidAmount(i)' = PaidAmount(i) /\ invoice'[i] \in {invoice[i], "CANCELLED"}
    BY <1>5 DEF CancelInvoiceWrite, paymentVars, PaidAmount, IInv, TypeOK
  <2>2. Sound
    BY <1>1, <2>1
  <2> QED
    BY <2>1, <2>2
<1>6. CASE ~ UNCHANGED <<status, input, invoice>>
  <2>1. PICK w \in Worker : Arrive(w) \/ Step(w) \/ Timeout(w)
    BY <1>6 DEF Next, vars, data, paymentVars
  <2>2. WritePayment(w) \/ CancelPaymentWrite(w) \/ CancelInvoiceWrite(w)
    BY <1>6, <2>1 DEF Arrive, Step, Timeout, data, paymentVars, CheckPayment, CheckTransfer,
       CancelPaymentRead, CancelInvoiceRead, NumberPayment, ReturnWinner, ReadAccount, WriteTransfer
  <2> QED
    BY <1>3, <1>4, <1>5, <2>2
<1> QED
  BY <1>2, <1>6

\* The statuses of a new ledger: nothing is paid.
LEMMA StatusAtFirst ==
  ASSUME Init
  PROVE  StatusMatchesPaid
<1> SUFFICES ASSUME NEW i \in Invoice PROVE invoice[i] = StatusFor(i, PaidAmount(i))
  BY DEF StatusMatchesPaid
<1>1. {p \in Payment : status[p] = "PAID"} = {}
  BY DEF Init
<1>2. PaidAmount(i) = 0
  BY <1>1, SumEmpty DEF PaidAmount
<1>3. Due[i] \in Nat \ {0} /\ invoice[i] = "UNPAID"
  BY PaymentAssumption DEF Init
<1> QED
  BY <1>2, <1>3 DEF StatusFor

\* An invoice whose payments all stand has the status they make of it, in whatever
\* order receipts over shared invoices commit.
THEOREM StatusFollowsPayments == Spec => []StatusMatchesPaid
<1>1. IInv /\ IInv' /\ StatusMatchesPaid /\ [Next]_vars => StatusMatchesPaid'
  BY StatusKept
<1>2. Init => StatusMatchesPaid
  BY StatusAtFirst
<1> QED
  BY <1>1, <1>2, Invariance, PTL DEF Spec

=============================================================================
