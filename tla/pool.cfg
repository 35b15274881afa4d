SPECIFICATION FairSpec
CONSTANTS
    Client = {g1, g2, g3, g4}
    Conn = {c1, c2, c3}
    Nil = Nil
    Max = 2
    Requests = 2
    g1 = g1
    g2 = g2
    g3 = g3
    g4 = g4
    c1 = c1
    c2 = c2
    c3 = c3
INVARIANTS TypeOK Accounting SingleOwner NoLostWakeup
PROPERTY EveryoneServed
CHECK_DEADLOCK FALSE
