SPECIFICATION LiveSpec
CONSTANTS
    c1 = c1
    c2 = c2
    c3 = c3
    b1 = b1
    b2 = b2
    Calls = {c1, c2, c3}
    Requests = {r1}
    Users = {alice, bob}
    NoUser = NoUser
    NoRequest = NoRequest
    NoTx = NoTx
    Offered = {"create", "fulfill", "get", "cancel"}
    Concurrent = TRUE
    Faults = TRUE
    Transfers = {t1, t2}
    MAX_POLL_ATTEMPTS = 3
    Blog = {b1, b2}
    Readers = {r1}
    FeedFaults = TRUE
INVARIANTS LiveInv
PROPERTIES ExpiryHappens CallsEnd TransferEnds AbstractSpec DeletedDisappears
CHECK_DEADLOCK FALSE
