---------------------------- MODULE MCRecallCycle ---------------------------
(***************************************************************************)
(* A small instance of RecallCycle: two packed units, two or three         *)
(* requests in flight, up to two recalls.                                  *)
(***************************************************************************)
EXTENDS RecallCycle, TLC

JustOne == {1}

Everything == Reading \cup Locking \cup {"sell"}

Perms == Permutations(Worker)
=============================================================================
