\* Two modems, four mini-slots to a MAP.  SID 1's poll fits beside an Initial
\* Maintenance region, SID 2's not beside both, so that data, maintenance and
\* contention compete and SID 2 may starve.  The interval is rounded up to
\* those four mini-slots, so a MAP outlasts it.
SPECIFICATION Spec
CONSTANTS
    Sids = {1, 2}
    Duration = 2
    MapInterval = 7
    MapAdvance = 3
    InitialMaintInterval = 10
    StationMaintIntervalRanging = 4
    StationMaintInterval = 20
    InitialNeed = 1
    StationNeed = 2
    RequestRegion = 1
    ShortLimit = 2
    ShortMaxBurst = 2
    LongMaxBurst = 0
    MaxGrant = 0
    FirstMap = 1
    RequestSizes = {1, 3}
    Grain = 4
    MaxTime = 17
CHECK_DEADLOCK FALSE
INVARIANTS RegionsDisjoint DataShare PollsOnTime
PROPERTIES MapsInTurn EveryRequestAnswered
