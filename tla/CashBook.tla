------------------------------ MODULE CashBook ------------------------------
(***************************************************************************)
(* Money that FinanceService, ChequeService and PayrollService move:       *)
(* invoices and receipts, expenses, salaries, cheques, transfers, and what *)
(* is cancelled.                                                           *)
(***************************************************************************)
EXTENDS Books

\* reverseCustomerLedgerEntries: one row for the opposite of what ref nets to.
Reversal(ref) ==
  LET net == LedgerSum(LAMBDA r : r.ref = ref)
  IN IF net = 0 THEN <<>> ELSE <<Row(ref, -net)>>

-----------------------------------------------------------------------------
(* Invoices and receipts. *)

\* createInvoice: sale, invoice, what is received now, the customer's debit, and a
\* second credit beside createPayment's.
SaleInvoice(w) ==
  /\ OneStep(w, "saleInvoice")
  /\ \E o \in mix.about, p \in {"CUSTOMER", "DEALER"}, got \in {0, Price} :
       LET total == Price + Tax(Price)
           mine(amt) == IF p = "CUSTOMER" /\ amt # 0 THEN <<Row(o, amt)>> ELSE <<>>
       IN /\ order[o].st = "none"
          /\ order' = [order EXCEPT ![o] = Sale("DINE_IN", p, Price, StatusFor(got, total), today)]
          /\ invoice' = [invoice EXCEPT ![o] =
               [st |-> IF got = 0 THEN "PENDING" ELSE StatusFor(got, total), net |-> Price, day |-> today]]
          /\ IF got > 0 THEN Record(Payment("POS", o, p, got, "IN", "DIRECT"), mine(total) \o mine(-got))
             ELSE ledger' = ledger \o mine(total) /\ UNCHANGED <<pay, cash>>
          /\ lines' = [lines EXCEPT ![o] = 1] /\ lineTax' = [lineTax EXCEPT ![o] = Tax(Price)]
          /\ \E issued \in BOOLEAN :
               /\ deducted' = [deducted EXCEPT ![o] = issued]
               /\ IF issued THEN Available(o, 1) /\ TakeOut(1, o) ELSE UNCHANGED <<moves, currentStock>>
  /\ UNCHANGED <<fixed, docs, days>>

\* createPayment for an invoice, from Payment-In.
Receive(w) ==
  /\ \E o \in mix.about, amt \in {1, Price} :
       /\ invoice[o].st \notin {"none", "CANCELLED"}
       /\ amt <= Final(o) - PaidOn(o)
       /\ Start(w, "receive", "receiveWrite", o, [amt |-> amt])
  /\ UNCHANGED data

ReceiveWrite(w) ==
  /\ pc[w] = "receiveWrite"
  /\ LET o == on[w]
         status == StatusFor(PaidOn(o) + seen[w].amt, Final(o))
     IN /\ Record(Payment("MANUAL", o, order[o].party, seen[w].amt, "IN", "DIRECT"), <<>>)
        /\ invoice' = [invoice EXCEPT ![o].st = status]
        /\ order' = [order EXCEPT ![o].flag = status]
  /\ Finish(w)
  /\ UNCHANGED <<fixed, stock, docs, days>>

\* createPayment out of an account to a customer, as POST /accounting/payments takes it
\* and as a return's refund makes it.
PayOut(w) ==
  /\ Covered(1)
  /\ Start(w, "payOut", "payOutWrite", None, None)
  /\ UNCHANGED data

PayOutWrite(w) ==
  /\ pc[w] = "payOutWrite"
  /\ Record(Payment("MANUAL", None, "CUSTOMER", 1, "OUT", "DIRECT"), <<>>)
  /\ Finish(w)
  /\ UNCHANGED <<fixed, order, stock, invoice, docs, days>>

CancelPayment(w) ==
  /\ \E i \in DOMAIN pay : pay[i].st = "PAID" /\ Start(w, "cancelPayment", "unpay", i, None)
  /\ UNCHANGED data

\* A reversal row, the balance by the payee's kind, the customer's ledger; the
\* invoice keeps its status.
CancelWrite(w) ==
  /\ pc[w] = "unpay" /\ Len(pay) < MaxPay
  /\ LET p    == pay[on[w]]
         back == IF p.party = "VENDOR" THEN "IN" ELSE "OUT"
         row  == Payment(p.src, None, p.party, p.amt, back, "REVERSAL")
     IN /\ pay' = Append([pay EXCEPT ![on[w]].st = "CANCELLED"], row)
        /\ cash' = cash + Signed(row)
        /\ ledger' = ledger \o (IF p.party = "CUSTOMER" THEN Reversal(on[w]) ELSE <<>>)
  /\ Finish(w)
  /\ UNCHANGED <<fixed, order, stock, invoice, docs, days>>

CancelInvoice(w) ==
  /\ \E o \in mix.about : /\ invoice[o].st \notin {"none", "CANCELLED"} /\ PaidOn(o) = 0
                          /\ Start(w, "cancelInvoice", "uninvoice", o, None)
  /\ UNCHANGED data

CancelInvoiceWrite(w) ==
  /\ pc[w] = "uninvoice"
  /\ invoice' = [invoice EXCEPT ![on[w]].st = "CANCELLED"]
  /\ order' = [order EXCEPT ![on[w]].st = "CANCELLED", ![on[w]].flag = "CANCELLED"]
  /\ ledger' = ledger \o Reversal(on[w])
  /\ Finish(w)
  /\ UNCHANGED <<fixed, stock, pay, cash, docs, days>>

-----------------------------------------------------------------------------
(* Expenses. *)

\* An expense paid at once is PAID whether an account was named or not: only with
\* one is a payment recorded.
AddExpense(w) ==
  /\ OneStep(w, "addExpense")
  /\ \E e \in Expense, at \in {"later", "at once", "from an account"} :
       /\ expense[e].st = "none"
       /\ expense' = [expense EXCEPT ![e] =
            [st |-> IF at = "later" THEN "UNPAID" ELSE "PAID", amt |-> 2,
             paid |-> IF at = "later" THEN 0 ELSE 2, day |-> today, void |-> FALSE,
             unbacked |-> IF at = "at once" THEN 2 ELSE 0]]
       /\ IF at = "from an account"
          THEN Covered(2) /\ Record(Payment("EXPENSE", e, "VENDOR", 2, "OUT", "DIRECT"), <<>>)
          ELSE UNCHANGED <<pay, cash, ledger>>
  /\ UNCHANGED <<fixed, order, stock, invoice, slip, cheque, loan, txns, days>>

\* What is left to pay is read without a lock.
PayExpense(w) ==
  /\ \E e \in Expense, amt \in {1, 2} :
       /\ expense[e].st # "none" /\ ~expense[e].void
       /\ amt <= expense[e].amt - expense[e].paid /\ Covered(amt)
       /\ Start(w, "payExpense", "expenseWrite", e, [amt |-> amt, paid |-> expense[e].paid])
  /\ UNCHANGED data

\* The amount paid is the one read, and this payment.
PaidAfter(s, e) == s.paid + s.amt

ExpenseWrite(w) ==
  /\ pc[w] = "expenseWrite"
  /\ LET e    == on[w]
         paid == PaidAfter(seen[w], e)
     IN /\ expense' = [expense EXCEPT ![e].paid = paid,
                                      ![e].st = IF paid >= expense[e].amt THEN "PAID" ELSE "PARTIAL"]
        /\ Record(Payment("EXPENSE", e, "VENDOR", seen[w].amt, "OUT", "DIRECT"), <<>>)
  /\ Finish(w)
  /\ UNCHANGED <<fixed, order, stock, invoice, slip, cheque, loan, txns, days>>

\* Partial payments stay where they are.
CancelExpense(w) ==
  /\ \E e \in Expense : expense[e].st \notin {"none", "PAID"} /\ Start(w, "cancelExpense", "voidExpense", e, None)
  /\ UNCHANGED data

CancelExpenseWrite(w) ==
  /\ pc[w] = "voidExpense"
  /\ expense' = [expense EXCEPT ![on[w]].st = "CANCELLED", ![on[w]].void = TRUE]
  /\ Finish(w)
  /\ UNCHANGED <<fixed, order, stock, invoice, money, slip, cheque, loan, txns, days>>

-----------------------------------------------------------------------------
(* Salaries: the payslips of one employee for one month. *)

NetSalary == 3

\* processPayroll looks for the month's payslip, then makes it.
ProcessPayroll(w) ==
  /\ \A s \in Slip : slip[s] = "none"
  /\ Start(w, "payroll", "slipWrite", None, None)
  /\ UNCHANGED data

SlipWrite(w) ==
  /\ pc[w] = "slipWrite"
  /\ \E s \in Slip : slip[s] = "none" /\ slip' = [slip EXCEPT ![s] = "PENDING"]
  /\ Finish(w)
  /\ UNCHANGED <<fixed, order, stock, invoice, money, expense, cheque, loan, txns, days>>

PaySlip(w) ==
  /\ \E s \in Slip : slip[s] = "PENDING" /\ Covered(NetSalary) /\ Start(w, "paySlip", "salaryWrite", s, None)
  /\ UNCHANGED data

SalaryWrite(w) ==
  /\ pc[w] = "salaryWrite"
  /\ Record(Payment("PAYROLL", on[w], "EMPLOYEE", NetSalary, "OUT", "DIRECT"), <<>>)
  /\ slip' = [slip EXCEPT ![on[w]] = "PAID"]
  /\ Finish(w)
  /\ UNCHANGED <<fixed, order, stock, invoice, expense, cheque, loan, txns, days>>

-----------------------------------------------------------------------------
(* Cheques, and transfers between accounts. *)

Drawn == 2

\* A cheque that is being cleared is paid before it is marked.
OnClearing(to) == IF to = "CLEARED" THEN "chequePay" ELSE "mark"

UpdateCheque(w) ==
  /\ \E c \in Cheque, to \in {"PENDING", "CLEARED", "BOUNCED"} :
       /\ cheque[c].st # "none"
       /\ Start(w, "cheque", IF cheque[c].st = "CLEARED" THEN "mark" ELSE OnClearing(to), c, [to |-> to])
  /\ UNCHANGED data

\* createPayment in a transaction of its own.
PayCheque(w) ==
  /\ pc[w] = "chequePay"
  /\ IF cheque[on[w]].payable
     THEN Covered(Drawn) /\ Record(Payment("CHEQUE", on[w], "VENDOR", Drawn, "OUT", "DIRECT"), <<>>)
     ELSE Record(Payment("CHEQUE", on[w], "WALKIN", Drawn, "IN", "DIRECT"), <<>>)
  /\ Goto(w, "mark")
  /\ UNCHANGED <<fixed, order, stock, invoice, docs, days>>

MarkCheque(w) ==
  /\ pc[w] = "mark"
  /\ cheque' = [cheque EXCEPT ![on[w]].st = seen[w].to]
  /\ Finish(w)
  /\ UNCHANGED <<fixed, order, stock, invoice, money, expense, slip, loan, txns, days>>

\* Two rows, out of one account and into the other.
TransferFunds(w) ==
  /\ OneStep(w, "transfer") /\ Covered(1) /\ Len(pay) + 2 <= MaxPay
  /\ pay' = pay \o <<Payment("TRANSFER", None, "ACCOUNT", 1, "OUT", "INTERNAL_TRANSFER"),
                     Payment("TRANSFER", None, "ACCOUNT", 1, "IN", "INTERNAL_TRANSFER")>>
  /\ UNCHANGED <<fixed, order, stock, invoice, ledger, cash, docs, days>>

-----------------------------------------------------------------------------
(* Loans. *)

Principal == 1

\* The account, then its first entry: two writes.
AddLoan(w) ==
  /\ loan.st = "none"
  /\ Start(w, "addLoan", "disburse", None, None)
  /\ loan' = [st |-> "open", due |-> Principal, paid |-> 0]
  /\ UNCHANGED <<fixed, order, stock, invoice, money, expense, slip, cheque, txns, days>>

Disburse(w) ==
  /\ pc[w] = "disburse" /\ Finish(w)
  /\ txns' = Append(txns, [type |-> "DISBURSEMENT", amt |-> Principal, due |-> Principal])
  /\ UNCHANGED <<fixed, order, stock, invoice, money, expense, slip, cheque, loan, days>>

\* What is due after an entry on the loan as read.
DueAfter(l, type, amt) ==
  CASE type = "PRINCIPAL_PAID"   -> IF l.due > amt THEN l.due - amt ELSE 0
    [] type = "INTEREST_CHARGED" -> l.due + amt
    [] type = "INTEREST_PAID"    -> l.due

\* Read without a lock.
LoanEntry(w) ==
  /\ loan.st = "open" /\ Len(txns) < 2 /\ loan.due < MaxLoan /\ loan.paid < MaxLoan
  /\ \E type \in {"PRINCIPAL_PAID", "INTEREST_CHARGED", "INTEREST_PAID"} :
       Start(w, "loanEntry", "loanUpdate", type,
             [due |-> DueAfter(loan, type, 1), paid |-> loan.paid + (IF type = "PRINCIPAL_PAID" THEN 1 ELSE 0)])
  /\ UNCHANGED data

LoanUpdate(w) ==
  /\ pc[w] = "loanUpdate" /\ Goto(w, "loanWrite")
  /\ loan' = [loan EXCEPT !.due = seen[w].due, !.paid = seen[w].paid]
  /\ UNCHANGED <<fixed, order, stock, invoice, money, expense, slip, cheque, txns, days>>

LoanWrite(w) ==
  /\ pc[w] = "loanWrite" /\ Finish(w)
  /\ txns' = Append(txns, [type |-> on[w], amt |-> 1, due |-> seen[w].due])
  /\ UNCHANGED <<fixed, order, stock, invoice, money, expense, slip, cheque, loan, days>>

-----------------------------------------------------------------------------

CashStep(w) ==
  \/ ReceiveWrite(w) \/ PayOutWrite(w) \/ CancelWrite(w) \/ CancelInvoiceWrite(w) \/ ExpenseWrite(w) \/ CancelExpenseWrite(w)
  \/ SlipWrite(w) \/ SalaryWrite(w) \/ PayCheque(w) \/ MarkCheque(w)
  \/ Disburse(w) \/ LoanUpdate(w) \/ LoanWrite(w)

CashArrive(w) ==
  \/ SaleInvoice(w) \/ Receive(w) \/ PayOut(w) \/ CancelPayment(w) \/ CancelInvoice(w) \/ AddExpense(w) \/ PayExpense(w)
  \/ CancelExpense(w) \/ ProcessPayroll(w) \/ PaySlip(w) \/ UpdateCheque(w) \/ TransferFunds(w)
  \/ AddLoan(w) \/ LoanEntry(w)
=============================================================================
