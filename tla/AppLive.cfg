SPECIFICATION FairSpec
CONSTANTS
    Rids = {r1, r2}
    Clients = {k1}
    PerClientDay = 1
    PerBoxDay = 2
    RefusalCap = 1
    RecoverEvery = 2
    MaxPerPass = 1
    MaxDay = 1
    MaxDeaths = 1
    MaxKills = 0
    Faults = FALSE
    Expiry = TRUE
    None = None
INVARIANTS
    AtMostOneStart
PROPERTIES
    ReservedIsAnswered
