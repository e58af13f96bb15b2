SPECIFICATION FairSpec
CONSTANTS
    Calls = {c1, c2, c3, c4}
    Deliveries = {d1, d2, d3, d4}
    None = None
    Demo = Demo
    Offered = {"wallet", "submit", "profile"}
    MirsadConfigured = TRUE
    Concurrent = FALSE
    Faults = FALSE
INVARIANTS SettledIsRight
PROPERTIES ApprovalActivates
CHECK_DEADLOCK FALSE
