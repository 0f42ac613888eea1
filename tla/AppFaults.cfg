SPECIFICATION Spec
CONSTANTS
    Rids = {r1, r2}
    Clients = {k1}
    PerClientDay = 1
    PerBoxDay = 2
    RefusalCap = 1
    RecoverEvery = 1
    MaxPerPass = 2
    MaxDay = 2
    MaxDeaths = 0
    MaxKills = 1
    Faults = TRUE
    Expiry = FALSE
    None = None
SYMMETRY Symmetry
INVARIANTS
    AnsweredIsOver
    LedgerInv
PROPERTIES
    KeepsPromise
