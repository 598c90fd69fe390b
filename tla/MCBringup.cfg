SPECIFICATION FairSpec
CONSTANTS
    Macs = {m1}
    NoMac = nomac
    Channels = {1, 2}
    MaxSid = 2
    TimeServer = TRUE
    Verdicts = {"ok", "mic", "class"}
    Accesses = {TRUE, FALSE}
    MaxLosses = 1
    MaxOrders = 1
CHECK_DEADLOCK FALSE
INVARIANTS SidsAgree ForwardsAsConfigured InServiceTogether
PROPERTIES BringupEnds
