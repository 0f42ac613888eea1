SPECIFICATION FairSpec
CONSTANTS
    Clients = {c1, c2}
    MaxRecords = 2
    MaxFaults = 1
    None = None
INVARIANTS
    ToolsAreHonest
    HistoryKept
    PurgeKeepsACopy
PROPERTIES
    RegistryKept
    StoreComesUp
