\* Two generators and two fetchers, two wallets and a clock of four ticks.
SPECIFICATION Spec
CONSTANTS
    g1 = g1
    g2 = g2
    f1 = f1
    f2 = f2
    prefixed = prefixed
    bare = bare
    other = other
    malformed = malformed
    k1 = k1
    k2 = k2
    Generators = {g1, g2}
    Fetchers = {f1, f2}
    Addresses = {prefixed, bare, other, malformed}
    Keys = {k1, k2}
    Normal <- Normalised
    NoKey = NoKey
    NoMessage = NoMessage
    Expiration = 2
    StoreLag = 1
    MaxTime = 4
SYMMETRY Symmetry
INVARIANTS
    SpentStaysSpent
    OnlyNewestIsStored
    AvailableUntilExpiration
    FetchedWithinLifetime
