------------------------------ MODULE BulkPool ------------------------------
(***************************************************************************)
(* What packaging promises about bulk: the output of each batch is put     *)
(* into the pool, packaging tickets take units out of it, and the units of *)
(* a ticket are packed or put back, once.  Every change is one step.       *)
(***************************************************************************)
EXTENDS Integers

CONSTANTS Batch, Ticket, Quantity

VARIABLES
  stock,    \* units in the pool
  state,    \* of each ticket
  batch,    \* whose output each ticket packs
  weight,   \* units of each ticket
  packed    \* units of each batch that were packed

poolVars == <<stock, state, batch, weight, packed>>

TicketState == {"none", "AWAITING_CONFIRMATION", "CONFIRMED", "CANCELLED"}

PoolInit ==
  /\ stock = 0 /\ packed = [b \in Batch |-> 0]
  /\ state = [t \in Ticket |-> "none"]
  /\ batch \in [Ticket -> Batch] /\ weight = [t \in Ticket |-> 0]

Put(n) == stock' = stock + n /\ UNCHANGED <<state, batch, weight, packed>>

\* Wasted bulk leaves the pool without a ticket.
Discard(n) == stock' = stock - n /\ UNCHANGED <<state, batch, weight, packed>>

Open(t, b, n, s) ==
  /\ state[t] = "none" /\ state' = [state EXCEPT ![t] = s]
  /\ batch' = [batch EXCEPT ![t] = b] /\ weight' = [weight EXCEPT ![t] = n]

\* No more is taken than the pool holds.
Take(t, b, n) ==
  /\ n <= stock /\ stock' = stock - n
  /\ Open(t, b, n, "AWAITING_CONFIRMATION")
  /\ UNCHANGED packed

Wrap(t) ==
  /\ state[t] = "AWAITING_CONFIRMATION" /\ state' = [state EXCEPT ![t] = "CONFIRMED"]
  /\ packed' = [packed EXCEPT ![batch[t]] = @ + weight[t]]
  /\ UNCHANGED <<stock, batch, weight>>

PutBack(t) ==
  /\ state[t] = "AWAITING_CONFIRMATION" /\ state' = [state EXCEPT ![t] = "CANCELLED"]
  /\ stock' = stock + weight[t]
  /\ UNCHANGED <<batch, weight, packed>>

\* Output of the batch may be put into the pool and packed in one step.
TakeAndPack(t, b, n, fresh) ==
  /\ n <= stock + fresh /\ stock' = stock + fresh - n
  /\ Open(t, b, n, "CONFIRMED")
  /\ packed' = [packed EXCEPT ![b] = @ + n]

PoolNext ==
  \/ \E n \in Quantity : Put(n) \/ Discard(n)
  \/ \E t \in Ticket : Wrap(t) \/ PutBack(t)
  \/ \E t \in Ticket, b \in Batch, n \in Quantity : Take(t, b, n)
  \/ \E t \in Ticket, b \in Batch, n, fresh \in Quantity : TakeAndPack(t, b, n, fresh)

PoolSpec == PoolInit /\ [][PoolNext]_poolVars

=============================================================================
