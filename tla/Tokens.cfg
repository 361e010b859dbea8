SPECIFICATION Spec
CONSTANTS
    x = x
    y = y
    u = u
    x1 = x1
    x2 = x2
    y1 = y1
    r1 = r1
    r2 = r2
    r3 = r3
    u1 = u1
    h = h
    Name <- MCName
    Tx <- MCTx
    Kind <- MCKind
    strName <- MCstrName
    Data <- MCData
    ownerInput <- MCownerInput
    Blocks <- MCBlocks
    NoHash = NoHash
    NoToken = NoToken
    MAX_MONEY_TOKENS = 3
    MaxHeight = 3
INVARIANTS ExistsMatchesChain CacheIsCoherent MetadataMatchesChain
