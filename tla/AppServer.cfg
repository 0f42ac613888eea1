SPECIFICATION FairSpec
CONSTANTS
    Lines = 3
    MaxWaiting = 2
    None = None
INVARIANTS
    ServerInv
    NoHalfLine
PROPERTIES
    NothingWaitsForACall
