SPECIFICATION Spec
CONSTANTS
    Rids = {r1, r2}
    Cids = {c1}
    Versions = {v1}
    Brokers = {b1}
    BrokerRuns = {x1, x2}
    HandRuns = {h1}
    Actions = 1
    MaxPending = 2
    DailyQuota = 1
    MaxSpoolFiles = 1
    MaxTickets = 2
    MaxDay = 2
    MaxCrashes = 1
    Faults = FALSE
    BypassClient = FALSE
    None = None
SYMMETRY Symmetry
INVARIANTS
    OneRunPerRequest
    ReservationSpentOnce
    ReservedRunsShareRequest
    
PROPERTIES
    AnswerIsFinal
