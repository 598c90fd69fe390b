\* One modem on one channel: no channel changes, a network that loses frames, MAPs that
\* come in time.
CONSTANTS
    Channels = {1}
    AdvancedChannels = {1}
    ChangeCounts = {1}
    Sids = {1}
    Is20 = TRUE
    Concatenation = TRUE
    TimeServer = TRUE
    BootFile = TRUE
    MaxRetries = 2
    UccTargets = {}
    UccOnlyOnline = TRUE
    LateMaps = FALSE
    Lossy = TRUE
    SlowAnswers = TRUE
    MaxQueue = 1
    MaxBursts = 1
SPECIFICATION Spec
CHECK_DEADLOCK FALSE
INVARIANTS Attended QueueAsksForBandwidth
PROPERTIES ImplementsService
