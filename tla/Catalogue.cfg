SPECIFICATION Spec
CONSTANTS
  Readers = {r1}
  Edits = {e1, e2}
  Items = {11, 12}
  Times = {1, 2}
  First = First
  MaxCached = 3
  PageSize = 1
  None = None
INVARIANTS
  TypeOK
  WalkSeesOnce
  WalkSeesAll
  EditsEvict
CHECK_DEADLOCK FALSE
