SPECIFICATION Spec
CONSTANTS
    Runs = {r1, r2, r3, r4}
    Cids = {c1}
    Actions = 2
    AppliesPerDay = 1
    ActionsPerDay = 2
    MaxDay = 2
    AtOnce = 2
    Reissued = {2}
    None = None
SYMMETRY Symmetry
INVARIANTS
    LogTellsTheAccount
    ExitsAreHonest
    CapsHoldUpToOverlap
PROPERTIES
    UndoneInFull
