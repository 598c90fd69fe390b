\* Two channels and an operator who moves the modem while it is online;
\* MAPs may come late.
CONSTANTS
    Channels = {1, 2}
    AdvancedChannels = {1, 2}
    ChangeCounts = {1}
    Sids = {1}
    Is20 = TRUE
    Concatenation = TRUE
    TimeServer = FALSE
    BootFile = TRUE
    MaxRetries = 2
    UccTargets = {1, 2}
    UccOnlyOnline = TRUE
    LateMaps = TRUE
    Lossy = TRUE
    SlowAnswers = TRUE
    MaxQueue = 0
    MaxBursts = 1
SPECIFICATION Spec
CHECK_DEADLOCK FALSE
INVARIANTS Attended
PROPERTIES StaysOnUpstream WaitsKept ImplementsService
