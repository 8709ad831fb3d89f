SPECIFICATION FairSpec
CONSTANTS
  Jobs = {j}
  Workers = {w1, w2}
  MaxAttempts = 3
  MaxStalls = 1
  MaxCrashes = 2
  None = None
  Dead = Dead
INVARIANTS
  TypeOK
  NeverTwiceAtOnce
  LostOnlyAfterStall
  CompensationExcludesExecution
PROPERTY
  JobsSettle
CHECK_DEADLOCK FALSE
