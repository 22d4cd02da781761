SPECIFICATION ExternalSpec
CONSTANTS
    Worker = {}
    Key = {}
    None = None
    Dispatcher = {d1}
    Reconciler = {r1}
    Runner = {c1, c2}
    Options <- EveryTransport
    MaxCarriers = 3
    MaxFaults = 1
PROPERTIES
    LivesThePromisedLife
    EveryTaskSettles
CHECK_DEADLOCK FALSE
