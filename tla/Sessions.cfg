SPECIFICATION Spec
CONSTANTS
  Calls = {c1, c2}
  Tokens = {1, 2, 3}
  Roles = {user, shipper}
  AccessTTL = 1
  RefreshTTL = 2
  BlacklistTTL = 1
  MaxTime = 2
  MaxRequests = 5
  None = None
SYMMETRY SessionSymmetry
INVARIANTS
  TypeOK
  RotatedOnce
  AccessEndsAtLogout
  RolesGoStale
CHECK_DEADLOCK FALSE
