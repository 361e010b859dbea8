SPECIFICATION Spec
CONSTANTS
    g = g
    a1 = a1
    a2 = a2
    a3 = a3
    b1 = b1
    b2 = b2
    Block = {g, a1, a2, a3, b1}
    Genesis = g
    NoBlock = NoBlock
    pprev <- LadderParent
    nHeight <- LadderHeight
    GetBlockProof <- LadderProof
    Address <- LadderAddress
    Thread = {t1, t2}
    MIN_BLOCKS_TO_KEEP = 1
    nMinimumChainWork = 2
    MinSequenceId <- LowestId
    MayFail = {a2}
    Commands = {"reconsiderblock"}
    MaxCommands = 1
CHECK_DEADLOCK FALSE
INVARIANTS
    ActiveChainIsValid

    
