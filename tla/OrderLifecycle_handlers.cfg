SPECIFICATION FairSpec
CONSTANTS
  Orders = {o1}
  Lines = {l1}
  Requests = {r1, r2}
  Jobs = {j1}
  ServiceOps <- EveryOp
  MaxAttempts = 2
  LocksExpire = FALSE
  None = None
INVARIANT ReadStaysFresh
PROPERTIES
  HandlersFollowPolicy
  JobsSettle
