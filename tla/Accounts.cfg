SPECIFICATION Spec
CONSTANTS
  Calls = {c1, c2, c3}
  Users = {u1, u2}
  Emails = {e1, e2}
  MaxAttempts = 2
  None = None
SYMMETRY AccountSymmetry
INVARIANTS
  TypeOK
  UniqueEmails
  OneGatewayCustomer
  SerialJobsMirror
  CreatedIsLinked
CHECK_DEADLOCK FALSE
