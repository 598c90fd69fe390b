SPECIFICATION FairSpec
CONSTANTS
    m1 = m1
    m2 = m2
    Macs = {m1, m2}
    Is20 <- MCIs20
    Specs <- MCSpecs
    ConfigFile <- MCConfigFile
    FileSecrets = {"docsislab", "other"}
    Secret = "docsislab"
    MaxAdmitted <- MCMaxAdmitted
    Byte = 256
    Word = 65536
    Long = 1000
    MaxEdits = 1
    MaxFaults = 1
CHECK_DEADLOCK FALSE
INVARIANTS VerdictsRight ServedAsRead FlowsIdentified
PROPERTIES Settles
