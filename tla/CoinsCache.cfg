CONSTANTS
    OutPoint = {o1, o2}
    Coin = {c1, c2}
    Spent = Spent
    Block = {b1, b2}
    NullHash = NullHash
    Absent = Absent
SPECIFICATION Spec
INVARIANTS
    TypeOK
    EntriesAreSound
    NoLogicError
PROPERTY
    ImplementsUtxoSet
