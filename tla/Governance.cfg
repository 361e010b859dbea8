CONSTANTS
    m = m
    d = d
    a = a
    f = f
    root = root
    None = None
    Script <- MCScript
    MasterKey = m
    DummyScript = d
    ShortScript = {}
    CostType <- MCCostType
    Cost <- MCCost
    InitCost <- MCInitCost
    InitFee = f
    Block <- MCBlocks
    GovernanceHeight = 2
    Modulus = 8
    MaxHeight = 3
    FaultHeight = 2
    Faults = {"check", "verify", "crash", "reindex"}
SPECIFICATION Spec
INVARIANTS
    TypeOK
    NumberMatchesFrozen
    MasterKeyIsSafe
    CostsMatchChain
    FreezeListMatchesChain
