---------------------------- MODULE MCProduction ----------------------------
(***************************************************************************)
(* A small instance of Production: one or two batches of two units, two    *)
(* tickets, two submissions, two requests in flight.                       *)
(***************************************************************************)
EXTENDS Production, TLC

CONSTANTS b1, b2, t1, t2, e1, e2

TwoBatches == <<b1, b2>>

JustTwo == {2}
OneOrTwo == {1, 2}
ZeroOrOne == {0, 1}

\* From the raw material, of which there is enough for one run, to the packet;
\* submissions compete with tickets.
Making ==
  [ops |-> {"start", "stop", "setRun", "approve", "inspect", "release", "switch",
            "pack", "ticket", "confirm", "recall"},
   seasoned |-> {}, runs |-> 1, material |-> 1]

\* From the completed batch on, in two phases; two batches share the bulk.
Packing ==
  [ops |-> {"release", "ticket", "confirm", "cancel", "waste", "recall"},
   seasoned |-> {b1, b2}, runs |-> 0, material |-> 0]

\* The counts noted before a ticket is confirmed, beside its cancellation and a recall.
Verifying ==
  [ops |-> {"release", "ticket", "verify", "confirm", "cancel", "recall"},
   seasoned |-> {b1}, runs |-> 0, material |-> 0]

AllMixes == {Making, Packing, Verifying}

Perms == Permutations(Worker) \cup Permutations(Ticket) \cup Permutations(Entry)
=============================================================================
