CONSTANTS
    Unfinished = Unfinished
    Configs <- EveryDeployment
SPECIFICATION PlacementSpec
INVARIANTS
    StorageOutlivesWorker
    TeardownIsComplete
PROPERTIES
    NeitherOutlivesTheOther
    StopIsObeyed
CHECK_DEADLOCK FALSE
