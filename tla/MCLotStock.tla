----------------------------- MODULE MCLotStock -----------------------------
(***************************************************************************)
(* Small instances of LotStock: two lots of two units, a third that may be *)
(* created, one or two franchise orders of one to three units.             *)
(***************************************************************************)
EXTENDS LotStock, TLC

CONSTANTS l1, l2, l3, o1, o2

TwoLots == <<l1, l2>>
OneAndSpare == <<l1, l3>>
NoSpare == {}
LastSpare == {l3}
OneOrder == {o1}
NoOrder == {}

TwoEach == [l \in Lot |-> 2]
OneEach == [l \in Lot |-> 1]
OrderOne == [o \in Order |-> 1]
OrderTwo == [o \in Order |-> 2]

OneOrTwo == {1, 2}

Alone == [l \in Lot |-> {}]
PackedTogether == [l \in Lot |-> IF l = l1 THEN {l2} ELSE {}]

Selling == {"sale", "lotSale", "recall", "release", "dispose"}
Everything == Selling \cup {"approve", "dispatch", "cancel", "deliver", "setStatus"}

Perms == Permutations(Worker) \cup Permutations(Order)
=============================================================================
