\* Three requests, fair goroutines and handlers that return.
SPECIFICATION FairSpec
CONSTANTS
    r1 = r1
    r2 = r2
    r3 = r3
    Requests = {r1, r2, r3}
INVARIANTS
    NoRequestCut
    SuccessIsAskedFor
PROPERTIES
    EveryShutdownEnds
