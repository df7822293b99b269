--------------------------- MODULE MCGoodsReceipt ---------------------------
(***************************************************************************)
(* Small instances of GoodsReceipt.  One material, ordered twice over; the *)
(* receipt form submits one or two units, with all, some or none accepted. *)
(***************************************************************************)
EXTENDS GoodsReceipt, TLC

CONSTANTS m1

Order(n) == m1 :> n

MCMaterial == {m1}

Line(rcv, acc) == [mat |-> m1, rcv |-> rcv, acc |-> acc, rej |-> rcv - acc]

\* One line per material.
Whole == {<<Line(1, 1)>>, <<Line(2, 1)>>, <<Line(2, 2)>>, <<Line(1, 0)>>, <<Line(0, 0)>>}

\* Receipts that may be rejected, whole or in part.
Rejectable == {<<Line(1, 0)>>, <<Line(2, 0)>>, <<Line(2, 1)>>, <<Line(2, 2)>>}

Two == Order(2)
Three == Order(3)
Rejections == {Order(1), Order(2)}
Edits == {Order(1), Order(2)}
NoEdits == {}

Returning == {"create", "approve", "newReturn", "complete"}
Everything == Returning \cup {"cancelGRN", "cancelPO", "status", "edit", "pay", "cancelReturn"}
CancelReceipt == {"create", "approve", "cancelGRN"}

Manual == {"APPROVED", "RECEIVED"}
NoManual == {}

AnyStart == {"PENDING", "COMPLETED"}

Perms == Permutations(Worker) \cup Permutations(Grn) \cup Permutations(Ret)
=============================================================================
