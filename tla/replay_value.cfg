SPECIFICATION Spec
CONSTANTS
  Replicas = {1, 2}
  Actions <- FirstRun
  Last = 1
  Permuted <- Generated
INVARIANTS FinalValue
CHECK_DEADLOCK FALSE
