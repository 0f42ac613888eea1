SPECIFICATION FairSpec
CONSTANTS
    Rids = {r1, r2}
    Cids = {c1}
    Versions = {v1}
    Brokers = {b1}
    BrokerRuns = {x1}
    HandRuns = {}
    Actions = 1
    MaxPending = 2
    DailyQuota = 1
    MaxSpoolFiles = 1
    MaxTickets = 1
    MaxDay = 1
    MaxCrashes = 1
    Faults = TRUE
    BypassClient = TRUE
    None = None
INVARIANTS
    BurnedRefusalIsTrue
PROPERTIES
    KeepsPromise
    RequestIsConsumed
