\* Two calls, two messages and two wallets, one with a credential, on one
\* pooled connection.
SPECIFICATION Spec
CONSTANTS
    c1 = c1
    c2 = c2
    g1 = g1
    g2 = g2
    u1 = u1
    u2 = u2
    first = first
    second = second
    malformed = malformed
    k1 = k1
    k2 = k2
    w1 = w1
    w2 = w2
    Calls = {c1, c2}
    Users = {u1, u2}
    Addresses = {first, second, malformed}
    MaxConns = 1
    AfterCreates <- HandlerCallback
    Impatient = {}
    Operator = Operator
    Provisioned <- OneCredential
    Generators = {g1, g2}
    Keys = {k1, k2}
    Normal <- Normalised
    NoKey = NoKey
    NoMessage = NoMessage
    Expiration = 1
    StoreLag = 0
    MaxTime = 1
    Services = {"users", "none"}
    AllowedServices = {"users"}
    Wallets = {w1, w2}
    WalletOf <- Spells
CONSTRAINT OwnAddresses
SYMMETRY Symmetry
INVARIANTS
    MessageBurnsOnce
    SessionsProveWalletControl
    RegistrationsSpendTheirProof
