SPECIFICATION Spec
CONSTANTS
    map = map
    c1 = c1
    Series = {map}
    Interval <- MCInterval
    Delays <- MCDelays
    PollInterval = 2
    IdleStep = 1
    Drains = {3}
    Stretches = {0, 1}
    MaxTime = 4
    MaxEvents = 2
    Clients = {c1}
    MaxRequests = 2
    RequestTimeout = 2
    Scales = {0}
CHECK_DEADLOCK FALSE
INVARIANTS LoopSound RequestsRight
PROPERTIES KeepsTime GoesOn
