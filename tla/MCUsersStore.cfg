\* Three creations and an update race for two wallets and a tag.
SPECIFICATION FairSpec
CONSTANTS
    c1 = c1
    c2 = c2
    c3 = c3
    u1 = u1
    g1 = g1
    w1 = w1
    w2 = w2
    w3 = w3
    w4 = w4
    t1 = t1
    x = x
    y = y
    Creators = {c1, c2, c3}
    Direct = {c3}
    Updaters = {u1}
    Pagers = {}
    Wallets = {w1, w2}
    Names = {t1}
    Null = Null
    Registered = {}
    Limit = 1
    Start = 0
    MaxTime = 0
INVARIANTS
    UsersAreUnique
    AnswersAreTrue
    TaskAndUserAgree
PROPERTIES
    CreationsEnd
    ImplementsRegistry
