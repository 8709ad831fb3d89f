----------------------------- MODULE OrderLedger -----------------------------
(***************************************************************************)
(* What a customer, the warehouse and the payment gateway see of orders,   *)
(* with no locks, transactions, jobs or attempts: payments, overrides,     *)
(* refunds and stock put back are recorded once and for ever, and an order *)
(* takes a status only when the record says that it may.                   *)
(***************************************************************************)
EXTENDS OrderTransitionPolicy

CONSTANTS Orders, Lines

VARIABLES
  status,      \* the status of each order
  paid,        \* the orders whose payment succeeded
  overridden,  \* the orders whose status an administrator has written
  refunds,     \* the refunds the gateway has made, each with its key
  booked,      \* the orders whose refund is in the refunds table
  restocked    \* the lines whose stock was put back, by order

vars == <<status, paid, overridden, refunds, booked, restocked>>

Init ==
  /\ status = [o \in Orders |-> "PENDING"]
  /\ paid = {}
  /\ overridden = {}
  /\ refunds = {}
  /\ booked = {}
  /\ restocked = {}

Enter(o, to) == status' = [status EXCEPT ![o] = to]

Granted(o) == o \in paid \cup overridden

\* A payment's success is recorded.  The order goes to PAID, from wherever it is, or
\* stays where it was brought while the success was being handled.
Pay(o) ==
  /\ paid' = paid \cup {o}
  /\ Enter(o, "PAID") \/ UNCHANGED status
  /\ UNCHANGED <<overridden, refunds, booked, restocked>>

Override(o) ==
  /\ overridden' = overridden \cup {o}
  /\ \E to \in OrderStatus : Enter(o, to)
  /\ UNCHANGED <<paid, refunds, booked, restocked>>

\* The goods are prepared, shipped or delivered.
HandOver(o) ==
  /\ Granted(o)
  /\ \E to \in {"PROCESSED", "SHIPPED", "DELIVERED"} : Enter(o, to)
  /\ UNCHANGED <<paid, overridden, refunds, booked, restocked>>

\* The gateway gives the money back: once, and only what was paid.
GiveBack(o) ==
  /\ Granted(o)
  /\ \A g \in refunds : g.order # o
  /\ refunds' = refunds \cup {[order |-> o, key |-> o]}
  /\ UNCHANGED <<status, paid, overridden, booked, restocked>>

\* The refund is booked with the status, in one step, after the gateway made it.
Refund(o) ==
  /\ \E g \in refunds : g.order = o
  /\ o \notin booked
  /\ booked' = booked \cup {o}
  /\ Enter(o, "REFUNDED")
  /\ UNCHANGED <<paid, overridden, refunds, restocked>>

PutBack(o, l) ==
  /\ restocked' = restocked \cup {<<o, l>>}
  /\ UNCHANGED <<status, paid, overridden, refunds, booked>>

Cancel(o) ==
  /\ \A l \in Lines : <<o, l>> \in restocked
  /\ Enter(o, "CANCELED")
  /\ UNCHANGED <<paid, overridden, refunds, booked, restocked>>

Next ==
  \E o \in Orders :
    \/ Pay(o) \/ Override(o) \/ HandOver(o)
    \/ GiveBack(o) \/ Refund(o)
    \/ (\E l \in Lines : PutBack(o, l)) \/ Cancel(o)

Spec == Init /\ [][Next]_vars
=============================================================================
