\* A gRPC and an HTTP request, with a payload of an allowed service, of another
\* one, or none.
SPECIFICATION ServiceSpec
CONSTANTS
    g1 = g1
    h1 = h1
    p1 = p1
    p2 = p2
    k1 = k1
    Requests = {g1, h1}
    GrpcRequests = {g1}
    Asked <- AskedOnes
    LimitOf <- Ones
    LimitPeriod = 1
    DefaultLimit = 1
    Headers = {"client"}
    NoHeader = "none"
    FirstAddress <- FirstAlone
    Peers = {"client"}
    MaxLostCounts = 1
    Payloads = {p1, p2}
    Keys = {k1}
    BadKey = BadKey
    KeyLists <- OneKey
    NoKey = NoKey
    NoPayload = NoPayload
    Skews <- Behind
    Duration = 1
    OfAllowed = {p1}
    MaxTime = 1
CONSTRAINT OneService
INVARIANTS
    ServiceTypeOK
    TrustIsVouchedFor
    ServicesAreLetThrough
    MethodsKeepTheirLimits
