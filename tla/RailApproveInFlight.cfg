SPECIFICATION Spec
CONSTANTS
    Rids = {r1, r2}
    Cids = {c1}
    Versions = {v1}
    Brokers = {b1}
    BrokerRuns = {x1, x2}
    HandRuns = {}
    Actions = 1
    MaxPending = 2
    DailyQuota = 2
    MaxSpoolFiles = 2
    MaxTickets = 2
    MaxDay = 1
    MaxCrashes = 0
    Faults = FALSE
    BypassClient = FALSE
    None = None
SYMMETRY Symmetry
INVARIANTS
    ReservingIsSingleUse
