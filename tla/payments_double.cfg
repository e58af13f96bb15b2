SPECIFICATION Spec
CONSTANTS
    Calls = {c1, c2, c3}
    Requests = {r1}
    Users = {alice, bob}
    NoUser = NoUser
    NoRequest = NoRequest
    NoTx = NoTx
    Offered = {"create", "fulfill", "decline", "cancel", "get", "send"}
    Concurrent = TRUE
    Faults = FALSE
SYMMETRY CallSymmetry
INVARIANT AtMostOnePayment
CHECK_DEADLOCK FALSE
