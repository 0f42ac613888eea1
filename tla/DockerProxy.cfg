SPECIFICATION FairSpec
CONSTANTS
    Conns = {c1, c2}
    Mutator = m
    Gateway = g
    MaxRequests = 3
    MaxChunks = 1
    None = None
INVARIANTS
    StreamInv
    OnlyApproved
    GatewayUntouched
PROPERTIES
    WaitBlocksNobody
