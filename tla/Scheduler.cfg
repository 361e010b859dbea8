CONSTANTS
    Worker = {w1, w2}
    Producer = {p1, p2}
    Main = Main
    Repeated = {job}
    MaxCallbacks = 3
SPECIFICATION FairSpec
INVARIANTS
    EmptyQueueIsAlone
    CallbackWillRun
PROPERTY ImplementsCallbackQueue
CHECK_DEADLOCK FALSE
