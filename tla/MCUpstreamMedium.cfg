\* A near and a far modem on two channels.  The delays differ by more than a
\* burst lasts, so bursts may arrive in another order than they were sent in.
SPECIFICATION MediumSpec
CONSTANTS
    near = near
    far = far
    Modems = {near, far}
    UsChannels = {1, 2}
    Delay <- MCDelay
    Durations = {1, 2}
    Linger = 0
    NoiseLengths = {2}
    MaxBursts = 3
    MaxNoise = 1
    MaxTime = 3
CHECK_DEADLOCK FALSE
INVARIANTS CollideAsOverlap VerdictStands
