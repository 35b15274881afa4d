SPECIFICATION FairSpec
CONSTANTS
  Clusters = {c1, c2, c3}
  Keys = {k1, k2}
  Answers = {x, y}
  Permits = {TRUE, FALSE}
  Timers = {TRUE, FALSE}
INVARIANTS TypeOK NoSendAfterClose LeftOutOnlyIfAllFailed RepairsAllDifferences
PROPERTIES NothingLeftBehind
CHECK_DEADLOCK FALSE
