SPECIFICATION FairSpec
CONSTANTS
    Names <- MCNames
    Hosts <- MCHosts
    Modems <- MCModems
    Behind <- MCBehind
    OnLink <- MCOnLink
    Gateway <- MCGateway
    NetworkAccess <- MCAccess
    MaxCpe <- MCMaxCpe
    BridgeLimit <- MCBridgeLimit
    Targets <- MCTargets
    MaxFaults = 1
CHECK_DEADLOCK FALSE
INVARIANTS DeliveredRight KeptOut
PROPERTIES AnswerArrives
