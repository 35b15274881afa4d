SPECIFICATION Spec
CONSTANTS
    Member = {1, 2}
    Score = {1, 2}
    MaxSize = 1
    N = 2
    Quorum = 1
    Writes = {1, 2}
    WriteOp <- Overflow
    Walkers = {}
    Servers = {p}
    Readers = {}
    Limit = 1
    Buffer = 1
    Fragile = {}
    MaxFaults = 0
    p = p
INVARIANTS TopOfInserts ExclusiveAndBounded
CHECK_DEADLOCK FALSE
