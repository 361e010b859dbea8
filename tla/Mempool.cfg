CONSTANTS
    Tx = {i, j, k, r, q, s, c}
    Name = {A}
    Coins <- MCCoins
    vin <- MCvin
    vout <- MCvout
    issues <- MCissues
    reissues <- MCreissues
    Block <- MCBlock
    i = i
    j = j
    k = k
    r = r
    q = q
    s = s
    c = c
    A = A
    MaxHeight = 3
    LimitAncestors = 3
    LimitDescendants = 3
    MaxDisconnected = 3
    Restarts = 1
    None = None
SPECIFICATION Spec
INVARIANTS
    PoolIsConsistent
    ReissuesAreLocked
    NamesAreReserved
    QueueIsUnconfirmed
CHECK_DEADLOCK FALSE
