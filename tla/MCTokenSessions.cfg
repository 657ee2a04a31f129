\* Any four of two logins, a refresh, two revocations and a verification.
SPECIFICATION Spec
CONSTANTS
    l1 = l1
    l2 = l2
    r1 = r1
    k1 = k1
    k2 = k2
    v1 = v1
    u1 = u1
    u2 = u2
    Logins = {l1, l2}
    Refreshes = {r1}
    Revokes = {k1, k2}
    Verifies = {v1}
    Users = {u1, u2}
    NoToken = NoToken
    AccessDuration = 1
    RefreshDuration = 3
    MaxTime = 4
CONSTRAINT FourCalls
SYMMETRY Symmetry
INVARIANTS
    TokensDescendFromLogins
    RefreshNeedsLiveSession
    RevokeReachesEverySession
    SessionCountedOnce
    AccessEndsAfterRevocation
    AcceptedBriefly
