\* Three calls on two connections, one wallet already registered.
SPECIFICATION Spec
CONSTANTS
    c1 = c1
    c2 = c2
    c3 = c3
    u1 = u1
    u2 = u2
    a1 = a1
    a2 = a2
    Calls = {c1, c2, c3}
    Users = {u1, u2}
    Addresses = {a1, a2}
    MaxConns = 2
    AfterCreates <- BothCallbacks
    Impatient = {c1, c2, c3}
    Operator = Operator
    Provisioned <- OneCredential
SYMMETRY Symmetry
INVARIANTS
    SessionsBelongToCredentials
    OneCredentialPerUserAndWallet
    FailureLeavesNothing
    AlreadyExistsIsTrue
    WedgeIsNestedAcquire
PROPERTIES
    ImplementsRegistry
