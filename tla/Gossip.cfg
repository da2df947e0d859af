SPECIFICATION GossipSpec
CONSTANTS
    p = p
    q = q
    r = r
    Hosts = {p, q, r}
    Works <- SmallWorks
    MaxBlocksPerRequest = 2
    MaxBatches = 3
CHECK_DEADLOCK FALSE
INVARIANTS
    SeenIsComing
PROPERTIES
    LagIsBounded
    FloodsEnd
