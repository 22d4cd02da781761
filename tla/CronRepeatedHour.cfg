CONSTANTS
    n1 = n1
    n2 = n2
    n3 = n3
    w1 = w1
    p1 = p1
    c1 = c1
    c2 = c2
    e1 = e1
    e2 = e2
    None = None
    Key = {n1, n2, n3}
    Worker = {w1}
    Process = {p1}
    Coordinator = {c1, c2}
    Caller = {e1, e2}
    Year <- FoldYear
    Days = 2
    SlotsPerDay = 2
    WeekLength = 2
    SearchDays = 4
    Declared <- Schedulings
    Options <- OccurrenceOptions
    Backoff <- OneBackoff
    Horizon = 2
    Configs <- EveryDeployment
    SchedulesLimit = 2
    MaxTasks = 3
    MaxEpochs = 1
SPECIFICATION Spec
INVARIANTS
    NextRunIsLater
CHECK_DEADLOCK FALSE
