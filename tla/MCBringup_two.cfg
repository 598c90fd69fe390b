SPECIFICATION Spec
CONSTANTS
    Macs = {m1, m2}
    NoMac = nomac
    Channels = {1, 2}
    MaxSid = 2
    TimeServer = TRUE
    Verdicts = {"ok"}
    Accesses = {TRUE}
    MaxLosses = 0
    MaxOrders = 1
CHECK_DEADLOCK FALSE
INVARIANTS SidsOwned PolledOnItsChannel
