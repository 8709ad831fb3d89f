-------------------------- MODULE ReliableDelivery --------------------------
(***************************************************************************)
(* What the transactional outbox promises to the services that add to it:  *)
(* a message accepted with a committed transaction is delivered to its     *)
(* queue, and nothing else is.                                             *)
(***************************************************************************)
EXTENDS Naturals

CONSTANT Messages

VARIABLES
  accepted,  \* the messages of committed transactions
  delivered  \* the messages their queue has been given

vars == <<accepted, delivered>>

Init == accepted = {} /\ delivered = {}

Accept(m) ==
  /\ accepted' = accepted \cup {m}
  /\ UNCHANGED delivered

\* One queue takes any number of accepted messages at once.
Deliver(batch) ==
  /\ batch \subseteq accepted
  /\ delivered' = delivered \cup batch
  /\ UNCHANGED accepted

Next ==
  \/ \E m \in Messages : Accept(m)
  \/ \E batch \in SUBSET Messages : Deliver(batch)

Spec == Init /\ [][Next]_vars

\* What was accepted is delivered in the end.
EveryMessageDelivered == \A m \in Messages : m \in accepted ~> m \in delivered
=============================================================================
