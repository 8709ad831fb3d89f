------------------------------ MODULE MCOutbox ------------------------------
(* Instances of Outbox for TLC.                                             *)
EXTENDS Outbox

CONSTANTS m1, m2, m3, a, b, r1, r2, r3

\* Two queues stand for the four: what matters is that one is served before
\* the other.
OrderThenEffects == <<"order", "effects">>

MessageQueues == [m \in Messages |-> IF m = m2 THEN "effects" ELSE "order"]

\* m1 and m2 come from one transaction, m3 from an older one.
MessageTimes == [m \in Messages |-> IF m = m3 THEN 1 ELSE 2]

\* One instance runs process() twice at a time, the other once.
RunHomes == [r \in Runs |-> IF r = r3 THEN b ELSE a]
=============================================================================
