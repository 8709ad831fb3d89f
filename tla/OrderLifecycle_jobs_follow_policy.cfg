SPECIFICATION Spec
CONSTANTS
  Orders = {o1}
  Lines = {l1}
  Requests = {r1}
  Jobs = {j1, j2}
  ServiceOps <- PolicyOps
  MaxAttempts = 2
  LocksExpire = FALSE
  None = None
PROPERTY JobsFollowPolicy
CHECK_DEADLOCK FALSE
