-------------------------- MODULE MCOrderLifecycle --------------------------
(* Instances of OrderLifecycle for TLC.                                     *)
EXTENDS OrderLifecycle, TLC

OwnerSymmetry == Permutations(Jobs) \cup Permutations(Requests)

\* Everything a client, the gateway's webhooks and an administrator may call.
EveryOp == AllOps

\* All but the override, and but the last step of an order that was shipped.
UntilShipped == AllOps \ {"adminUpdate", "deliver"}

PolicyOps == {"markPaymentAsSucceeded", "ship", "deliver", "cancel", "refund"}
=============================================================================
