SPECIFICATION Spec
CONSTANTS
  Orders = {o1}
  Lines = {l1}
  Requests = {r1}
  Jobs = {j1, j2, j3}
  ServiceOps <- UntilShipped
  MaxAttempts = 2
  LocksExpire = TRUE
  None = None
SYMMETRY OwnerSymmetry
INVARIANTS
  TypeOK
  GoodsArePaidFor
  RefundsArePaidFor
  RefundedOnce
  RefundedIsBacked
  CanceledIsRestocked
PROPERTY KeepsLedger
