\* A listing of one or two users by pages of one, beside two creations
\* whose transactions start and end in any order.
SPECIFICATION Spec
CONSTANTS
    c1 = c1
    c2 = c2
    c3 = c3
    u1 = u1
    g1 = g1
    w1 = w1
    w2 = w2
    w3 = w3
    w4 = w4
    t1 = t1
    x = x
    y = y
    Creators = {c1, c2}
    Direct = {}
    Updaters = {}
    Pagers = {g1}
    Wallets = {w1, w2, w3, w4}
    Names = {}
    Null = Null
    Registered <- TwoUsers
    Limit = 1
    Start = 1
    MaxTime = 2
INVARIANTS
    ListingIsFaithful
