SPECIFICATION Spec
CONSTANTS
  Jobs = {j}
  Workers = {w1, w2}
  MaxAttempts = 3
  MaxStalls = 1
  MaxCrashes = 2
  None = None
  Dead = Dead
SYMMETRY WorkerSymmetry
INVARIANT
  CompletedIsExecuted
CHECK_DEADLOCK FALSE
