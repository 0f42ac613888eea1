SPECIFICATION FairSpec
CONSTANTS
    Runs = {r1, r2}
    Clients = {c1}
    MaxSignals = 1
    None = None
INVARIANTS
    StoredIsOwn
    AnswersAreTrue
    LockInv
    AtRest
PROPERTIES
    RunEnds
