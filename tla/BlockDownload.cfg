CONSTANTS
    Peer = {p, q}
    Honest = {p}
    Headers = 3
    MaxInTransit = 2
    Window = 1
    None = None
SPECIFICATION FairSpec
INVARIANT InFlightIsConsistent
 
CHECK_DEADLOCK FALSE
