SPECIFICATION FairSpec
CONSTANTS
    Rids = {r1, r2}
    Cids = {c1}
    Versions = {v1}
    Brokers = {b1, b2}
    BrokerRuns = {x1}
    HandRuns = {}
    Actions = 1
    MaxPending = 1
    DailyQuota = 1
    MaxSpoolFiles = 2
    MaxTickets = 1
    MaxDay = 1
    MaxCrashes = 1
    Faults = FALSE
    BypassClient = FALSE
    None = None
INVARIANTS
    DailyQuotaHolds
PROPERTIES
    BurnedIsAnswered
