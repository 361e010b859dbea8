SPECIFICATION Spec
CONSTANTS
    g = g
    a1 = a1
    a2 = a2
    a3 = a3
    b1 = b1
    b2 = b2
    Block = {g, a1, a2, a3, b1, b2}
    Genesis = g
    NoBlock = NoBlock
    pprev <- SnagParent
    nHeight <- SnagHeight
    GetBlockProof <- SnagProof
    Address <- SnagAddress
    Thread = {t1}
    MIN_BLOCKS_TO_KEEP = 1
    nMinimumChainWork = 2
    MinSequenceId <- LowestId
    MayFail = {a2, b2}
    Commands = {"invalidateblock", "preciousblock", "restart"}
    MaxCommands = 2
CHECK_DEADLOCK FALSE
INVARIANTS
    IndexIsConsistent
    ActiveChainIsValid
    BestChainIsActive
    
PROPERTIES
    WorkNeverDrops
