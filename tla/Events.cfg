CONSTANTS
    p1 = p1
    p2 = p2
    Producer = {p1, p2}
    MaxLength = 4
    LiveBatch = 2
    LivePending = 2
    HistoryBatch = 2
    HistoryPending = 3
    Configs <- EveryConfig
SPECIFICATION EventSpec
INVARIANTS
    LiveOrder
    CommittedBeforeLive
    NothingVanishes
PROPERTIES
    EveryEventIsResolved
CHECK_DEADLOCK FALSE
