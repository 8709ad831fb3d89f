----------------------------- MODULE MCCheckout -----------------------------
(* An instance of Checkout for TLC.                                         *)
EXTENDS Checkout

CONSTANTS k1, i1

\* Every call repeats one request, for an order with two lines of one item.
OneKey == [c \in Calls |-> k1]

TwoLines == [k \in Keys |-> <<[item |-> i1, quantity |-> 1], [item |-> i1, quantity |-> 1]>>]

TwoOfEach == [i \in Items |-> 2]
=============================================================================
