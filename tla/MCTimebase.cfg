\* A modem at the edge of the plant or beyond it, over two turns of the timestamp,
\* with traffic on the downstream, a lost frame and a re-initialisation at any moment.
CONSTANTS
    Modulus = 121
    Slot = 10
    Span = 8
    Delays <- MCDelays
    MaxReach = 12
    Burst = 8
    Jitter = 1
    Tolerance = 2
    SyncLen = 1
    UcdLen = 2
    MapLen = 2
    RspLen = 1
    TrafficLen = 14
    SyncInterval = 60
    UcdInterval = 150
    Advance = 70
    InitialInterval = 160
    RangingInterval = 80
    OnlineInterval = 160
    T3 = 200
    MaxOwners = 4
    MaxWait = 14
    MaxTraffic = 2
    MaxLosses = 1
    MaxReinits = 1
    MaxTime = 400
SPECIFICATION Spec
CHECK_DEADLOCK FALSE
INVARIANTS BurstsLand OffsetAgreed
PROPERTIES ClockSteady
