CONSTANTS
    t1 = t1
    t2 = t2
    a = a
    b = b
    c = c
    topic = topic
    other = other
    s1 = s1
    s2 = s2
    Absent = Absent
    Nothing = Nothing
    Unset = Unset
    Configs <- EveryDeployment
    Task = {t1, t2}
    MaxTime = 6
    DueIn = {0, 2}
    PollInterval = 1
    PollBackoffMax = 3
    Multiplier = 2
    CancelInterval = 1
    CallerPoll = 2
    CallerTimeout = 3
    MaxRetries = 1
    Channel = topic
    MaxBytes = 3
    Window = 2
    Events <- Written
    Queries <- Asked
    Capacity = 3
    LastDay = 3
    Delivery = {1, 2}
    Scanner = {s1, s2}
    RepairLimit = 1
    MaxPages = 7
    MaxReturns = 1
SPECIFICATION Spec
INVARIANTS
    LatenessIsBounded
    ResultIsSeen
    StreamShowsOnce
    HistoryAnswersAlike
    RepairReachesAll
PROPERTIES
    FirstRuleGoverns
CHECK_DEADLOCK FALSE
