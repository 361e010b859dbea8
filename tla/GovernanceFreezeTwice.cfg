CONSTANTS
    m = m
    d = d
    a = a
    f = f
    root = root
    None = None
    Script <- MCScript
    MasterKey = m
    DummyScript = d
    ShortScript = {}
    CostType <- MCCostType
    Cost <- MCCost
    InitCost <- MCInitCost
    InitFee = f
    Block <- FreezeBlocks
    GovernanceHeight = 1
    Modulus = 8
    MaxHeight = 2
    FaultHeight = 2
    Faults = {}
SPECIFICATION Spec
INVARIANT
    FrozenByChainStaysFrozen
