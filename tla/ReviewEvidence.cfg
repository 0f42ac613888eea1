SPECIFICATION MCSpec
CONSTANTS
    Jobs = {j1, j2}
    Short <- MCShort
    Named <- MCNamed
    MaxEvents = 2
    None = None
    Unknown = Unknown
INVARIANTS
    SecretsInv
    JobsInv
    ReachIsSearched
    StaleCodeIsSeen
