-------------------------------- MODULE Sums --------------------------------
(***************************************************************************)
(* Sums over sets, as the code's SUM(...) and reduce(...) compute them, and *)
(* what a loop over rows in a given order takes from each.                 *)
(***************************************************************************)
EXTENDS Integers, Sequences, Functions, FiniteSetsExt

SumOf(f, S) == MapThenSumSet(LAMBDA x : f[x], S)

\* The entries of a sequence that come before x.
Ahead(order, x) ==
  {order[i] : i \in {i \in DOMAIN order : \E j \in DOMAIN order : i < j /\ order[j] = x}}

\* Of q units, what a loop takes from x: all it has, as far as those ahead leave any.
InTurn(order, has, q) ==
  [x \in Range(order) |->
     LET left == q - SumOf(has, Ahead(order, x)) IN
     IF left <= 0 THEN 0 ELSE IF has[x] < left THEN has[x] ELSE left]
=============================================================================
