SPECIFICATION Spec
CONSTANTS
  k1 = k1
  i1 = i1
  Calls = {c1, c2}
  Keys = {k1}
  KeyOf <- OneKey
  Items = {i1}
  LinesOf <- TwoLines
  Editors = {e}
  InitialStock <- TwoOfEach
  NewStocks = {1}
  MaxCrashes = 1
  None = None
  Dead = Dead
INVARIANTS
  TypeOK
  OneOrderPerKey
  OrdersAreBacked
  StockIsAccounted
