\* The handler alone, no wallet registered yet.
SPECIFICATION Spec
CONSTANTS
    c1 = c1
    c2 = c2
    c3 = c3
    u1 = u1
    u2 = u2
    a1 = a1
    a2 = a2
    Calls = {c1, c2}
    Users = {u1, u2}
    Addresses = {a1, a2}
    MaxConns = 4
    AfterCreates <- HandlerCallback
    Impatient = {}
    Operator = Operator
    Provisioned <- NoCredential
INVARIANT
    NewCredentialSucceeds
