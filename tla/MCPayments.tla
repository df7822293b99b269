----------------------------- MODULE MCPayments -----------------------------
(***************************************************************************)
(* Small instances of Payments: one or two invoices of two units, one or   *)
(* two accounts, receipts that may be split over both invoices.            *)
(***************************************************************************)
EXTENDS Payments, TLC

CONSTANTS i1, i2, a1, a2

OneInvoice == {i1}
TwoInvoices == {i1, i2}
OneAccount == {a1}
TwoAccounts == {a1, a2}

DueTwo == [i \in Invoice |-> 2]
OpenWithOne == [a \in Account |-> 1]

Receipt(n, alloc) ==
  [party |-> "CUSTOMER", flow |-> "IN", type |-> "DIRECT", acct |-> a1, amt |-> n, alloc |-> alloc]
Outgoing ==
  [party |-> "VENDOR", flow |-> "OUT", type |-> "DIRECT", acct |-> a1, amt |-> 1, alloc |-> [i \in Invoice |-> 0]]

\* One or two units on one invoice, or a unit on each of two.
ReceiptsOne == {Receipt(1, i1 :> 1), Receipt(2, i1 :> 2)}
ReceiptsTwo == {Receipt(1, i1 :> 1 @@ i2 :> 0), Receipt(2, i1 :> 2 @@ i2 :> 0),
                Receipt(2, i1 :> 1 @@ i2 :> 1)}
ReceiptAndVendor == ReceiptsOne \cup {Outgoing}

JustOne == {1}

Paying == {"pay"}
Everything == {"pay", "transfer", "cancelPayment", "cancelInvoice"}

\* Requests and keys are interchangeable.
Perms == Permutations(Worker) \cup Permutations(Payment)
=============================================================================
