CONSTANTS
    Worker = {w1, w2}
    Master = {m1, m2}
    Check = {c1, c2, c3}
    nBatchSize = 2
    NoMaster = NoMaster
SPECIFICATION Spec
INVARIANTS
    CountersAreRight
    ResultIsRight
    NothingLeftBehind
    MasterWaitsForWork
PROPERTY ControlIsReleased
