----------------------- MODULE OrderTransitionPolicy -----------------------
(***************************************************************************)
(* The order status machine: the statuses of OrderStatus and the table of  *)
(* preconditions that OrderTransitionPolicy consults.                      *)
(***************************************************************************)

OrderStatus == {"PENDING", "PAID", "PROCESSED", "SHIPPED", "DELIVERED",
                "CANCELED", "REFUNDED"}

\* A bug the properties are to catch: a pending order may be refunded.
PreconditionsPendingRefunded ==
  [target \in OrderStatus |->
     CASE target = "PENDING"   -> {}
       [] target = "PAID"      -> {"PENDING"}
       [] target = "PROCESSED" -> {"PAID"}
       [] target = "SHIPPED"   -> {"PROCESSED"}
       [] target = "DELIVERED" -> {"SHIPPED"}
       [] target = "CANCELED"  -> {"PENDING", "PAID", "PROCESSED"}
       [] target = "REFUNDED"  -> {"PENDING", "PAID", "PROCESSED", "SHIPPED", "DELIVERED"}]

\* The statuses from which the policy lets an order enter a target status.
Preconditions ==
  [target \in OrderStatus |->
     CASE target = "PENDING"   -> {}
       [] target = "PAID"      -> {"PENDING"}
       [] target = "PROCESSED" -> {"PAID"}
       [] target = "SHIPPED"   -> {"PROCESSED"}
       [] target = "DELIVERED" -> {"SHIPPED"}
       [] target = "CANCELED"  -> {"PENDING", "PAID", "PROCESSED"}
       [] target = "REFUNDED"  -> {"PAID", "PROCESSED", "SHIPPED", "DELIVERED"}]

CanTransition(current, target) == current \in Preconditions[target]

=============================================================================
