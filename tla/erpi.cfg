SPECIFICATION Spec
CONSTANTS
    Replicas = {r1, r2, r3}
    Key = {k1, k2}
    Item = {1}
    LastState = 1
    MaxUpdates = 3
    InitRun <- InitEvents
    Events = 6
    MaxFiles = 30
    MaxCommands = 3
    Facts <- OrbitFacts
    EventLists <- Lists
    Interleavings <- All
    Inputs <- PruningInputs
SYMMETRY Interchangeable
INVARIANTS TypeOK MergeLaws AgreesWithHistory ORSetAddWins FullAfterFirstRecord LaterFilesShowNothingNew EachOrderOnce WhatPrunedOrdersShow WhatPruningKeeps
CHECK_DEADLOCK FALSE
