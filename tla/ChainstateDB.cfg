CONSTANTS
    g = g
    p = p
    a1 = a1
    a2 = a2
    b1 = b1
    b2 = b2
    x = x
    y = y
    z = z
    w = w
    NoBlock = NoBlock
    Spent = Spent
    Block <- MCBlock
    OutPoint <- MCOutPoint
    pprev <- MCpprev
    nHeight <- MCnHeight
    vtx <- MCvtx
    MaxCrashes = 2
SPECIFICATION Spec
INVARIANTS
    CoinsMatchChain
    DatabaseIsConsistent
    RecoveryNeverFails
PROPERTY Recovers
