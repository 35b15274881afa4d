SPECIFICATION Spec
CONSTANTS
    Member = {1}
    Score = {1}
    MaxSize = 1
    N = 2
    Quorum = 2
    Writes = {1, 2}
    WriteOp <- Ties
    Walkers = {}
    Servers = {}
    Readers = {}
    Limit = 1
    Buffer = 1
    Fragile = {}
    MaxFaults = 0
    p = p
INVARIANT OrderIndependent
CHECK_DEADLOCK FALSE
