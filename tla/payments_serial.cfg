SPECIFICATION ScreensSpec
CONSTANTS
    Calls = {c1, c2, c3, c4}
    Requests = {r1}
    Users = {alice, bob}
    NoUser = NoUser
    NoRequest = NoRequest
    NoTx = NoTx
    Offered = {"create", "fulfill", "decline", "cancel", "get", "send"}
    Concurrent = FALSE
    Faults = FALSE
    Participants = {alice, bob}
    Totals = {1, 3}
    Amounts = {1, 2}
    MaxAsked = 2
    SplitFaults = TRUE
    Queries = {q1, q2}
    MaxTxs = 3
    MaxShown = 3
    PageSize = 1
    Fetches = {q1, q2}
    MaxPayments = 3
SYMMETRY ScreenSymmetry
INVARIANTS AtMostOnePayment SplitSafety
PROPERTIES LifecycleSpec PaymentsPage
CHECK_DEADLOCK FALSE
