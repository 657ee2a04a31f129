\* Three requests of one client to two processes
\* that start, stop and read their maps in any order.
SPECIFICATION Spec
CONSTANTS
    p1 = p1
    p2 = p2
    Processes = {p1, p2}
    g1 = g1
    g2 = g2
    h1 = h1
    Requests = {g1, g2, h1}
    GrpcRequests = {g1, g2}
    ProcessOf <- Spread
    Names = {"Refresh", "Revoke", "POST:refresh", "default_rate_limit"}
    DefaultName = "default_rate_limit"
    Identifiers = {"tokens", "default"}
    DefaultRate <- SmallDefault
    Rates <- SharedRates
    Headers = {"client"}
    NoHeader = "none"
    FirstAddress <- FirstAlone
    Peers = {"client"}
    MaxTime = 4
    MaxLostCounts = 1
INVARIANTS
    WindowIsNeverOverrun
    BurstIsAtMostTwofold
    RefusalIsEarned
    ConfiguredRateIsEnforced
