--------------------------- MODULE MCVendorLedger ---------------------------
(***************************************************************************)
(* Small instances of VendorLedger: one or two orders of one to three      *)
(* units of money, amounts of one to three.                                *)
(***************************************************************************)
EXTENDS VendorViews, TLC

CONSTANTS p1, p2

OnePo == <<p1>>
TwoPos == <<p1, p2>>
ThreeAndOne == [p \in {p1, p2} |-> IF p = p1 THEN 3 ELSE 1]
TwoForOne == [p \in {p1} |-> 2]
NoNew == {}
FirstNew == {p1}
SecondNew == {p2}

OneOrTwo == {1, 2}
OneOrThree == {1, 3}

NoOpening == {0}
OldOpening == {-1, 0}
NoReturn == {"none"}
OldReturn == {"none", "COMPLETED"}

Paying == {"pay", "apply", "newPO", "bill"}
Crediting == {"payOnAccount", "apply", "newPO", "cancel"}
Orders == Paying \cup {"approveBill", "advance", "cancel", "return", "adjust"}
Pages == {"pay", "payOnAccount", "bill", "cancel", "return", "sync", "inject", "editOpening"}

JustPaying == {Paying, Crediting}
AllFamilies == {Orders, Pages}
Advances == {{"advance", "cancel"}}

\* Credit on an order can be overdrawn only after a second payment, which a third entry
\* lets come before the last request.
TwoWhilePaying == [f \in JustPaying |-> IF f = Crediting THEN 3 ELSE 2]
ThreeOrFour == [f \in AllFamilies |-> IF f = Orders THEN 3 ELSE 4]
ThreeAdvances == [f \in Advances |-> 3]

\* Requests and keys are interchangeable; orders are not: settlement is by age.
Perms == Permutations(Worker) \cup Permutations(Key)
=============================================================================
