SPECIFICATION Spec
CONSTANTS
  Replicas = {1, 2}
  Actions <- FirstRun
  Last = 1
  Permuted <- Generated
INVARIANTS ReplaysTheInterleaving
CHECK_DEADLOCK FALSE
