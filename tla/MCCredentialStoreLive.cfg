\* A pool that two registrations can exhaust, and one caller with a deadline.
SPECIFICATION FairSpec
CONSTANTS
    c1 = c1
    c2 = c2
    c3 = c3
    u1 = u1
    u2 = u2
    a1 = a1
    a2 = a2
    Calls = {c1, c2}
    Users = {u1, u2}
    Addresses = {a1, a2}
    MaxConns = 2
    AfterCreates <- BothCallbacks
    Impatient = {c1}
    Operator = Operator
    Provisioned <- OneCredential
PROPERTIES
    EveryCallReturns
    RegisteredPairIsNotRefused
