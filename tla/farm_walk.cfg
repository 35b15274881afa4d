SPECIFICATION FairSpec
CONSTANTS
    Member = {1}
    Score = {1, 2}
    MaxSize = 1
    N = 2
    Quorum = 2
    Writes = {1, 2}
    WriteOp <- InsertDelete
    Walkers = {p}
    Servers = {}
    Readers = {}
    Limit = 1
    Buffer = 1
    Fragile = {1, 2}
    MaxFaults = 1
    p = p
INVARIANTS TypeOK LastWriterWins
PROPERTIES NeverOlder ImplementsLWW EventuallyConsistent
CHECK_DEADLOCK FALSE
