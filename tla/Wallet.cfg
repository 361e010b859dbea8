SPECIFICATION Spec
CONSTANTS
    a = a
    b = b
    x = x
    s = s
    Tx = {a, b, x, s}
    Sent = {b}
    CoinStake = {s}
    Coins <- MCCoins
    vin <- MCvin
    vout <- MCvout
    Block <- MCBlock
    HashOrder <- ParentFirst
    MaxHeight = 2
    MaxQueue = 2
    MaxSpends = 3
    Restarts = 1
    Null = Null
    ABANDON_HASH = ABANDON_HASH
INVARIANTS
    FlagsMatchPool
    DepthMatchesChain
    CoinsMatchSpends
CHECK_DEADLOCK FALSE
