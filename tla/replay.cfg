SPECIFICATION FairSpec
CONSTANTS
  Replicas = {1, 2}
  Actions <- FirstRun
  Last = 1
  Permuted <- Generated
INVARIANTS TypeOK SingleActor RecordedOrder
PROPERTIES StopsAtMisplaced
CHECK_DEADLOCK FALSE
