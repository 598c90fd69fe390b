SPECIFICATION FairSpec
CONSTANTS
    Modems = {"cm"}
    Cpes = {"pc1", "pc2"}
    Hosts = 1
    Files <- MCFiles
    BlockSize = 2
    Ports = {"p1", "p2"}
    MaxLosses = 1
    MaxResets = 1
CHECK_DEADLOCK FALSE
INVARIANTS LeasesSound FileWhole
PROPERTIES ProvisioningEnds
