SPECIFICATION FairSpec
CONSTANTS
    Member = {1, 2, 3}
    Score = {1, 2}
    MaxSize = 3
    N = 2
    Key = {1, 2, 3}
    Instance = {1, 2}
    Home <- TwoInstances
    BeforePaging <- TiesStored
    BeforeWalk <- WalkStored
    Requests <- Listings
    PageWrites <- Listed
    WalkWrites <- Walked
    PageLimit = 1
    Stops <- StopCursors
    Few = 2
    FewNext = 2
    Many = 3
    Step = 1
    MaxAttempts = 2
    MaxErrors = 1
    BatchSize = 2
    MaxConns = 2
    MaxOutages = 1
INVARIANTS TypeOK NothingSkipped ListsEverything TwiceOnlyIfTied EveryKeyWalked
PROPERTIES PageIsSnapshot RefusedOnlyIfCrowded WalksForever
CHECK_DEADLOCK FALSE
