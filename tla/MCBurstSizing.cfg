SPECIFICATION SizingFairSpec
CONSTANTS
    SymbolsPerSlot = 64
    DataBits = 6
    Versions = {"1.x", "2.0"}
    Concatenation = TRUE
    Lengths = {74, 300, 390, 1528}
    Rooms = {0, 10, 74}
    MaxQueue = 2
    MaxMaps = 2
    MaxFaults = 2
INVARIANTS GrantsFit
PROPERTIES BurstFits DrainsUnlessShort
