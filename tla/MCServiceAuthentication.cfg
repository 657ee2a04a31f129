\* Two payloads of a signer with another clock, and two requests.
SPECIFICATION Spec
CONSTANTS
    p1 = p1
    p2 = p2
    r1 = r1
    r2 = r2
    r3 = r3
    k1 = k1
    k2 = k2
    Payloads = {p1, p2}
    Requests = {r1, r2}
    Keys = {k1, k2}
    BadKey = BadKey
    KeyLists <- Configurations
    NoKey = NoKey
    NoPayload = NoPayload
    Skews <- AnySkew
    Duration = 1
    MaxTime = 4
SYMMETRY Symmetry
INVARIANTS
    SecondUseIsLate
    NoFalseReplay
