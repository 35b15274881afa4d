SPECIFICATION Spec
CONSTANTS
    Member = {1, 2}
    Score = {1, 2, 3}
    MaxSize = 2
    N = 3
    Quorum = 2
    Writes = {1, 2}
    WriteOp <- PairDelete
    Walkers = {}
    Servers = {}
    Readers = {p}
    Limit = 2
    Buffer = 1
    Fragile = {1}
    MaxFaults = 1
    p = p
INVARIANTS AckedWritesOnQuorum ReadYourInserts
CHECK_DEADLOCK FALSE
