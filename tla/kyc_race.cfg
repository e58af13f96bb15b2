SPECIFICATION Spec
CONSTANTS
    Calls = {c1, c2, c3}
    Deliveries = {d1, d2}
    None = None
    Demo = Demo
    Offered = {"wallet", "submit", "profile"}
    MirsadConfigured = TRUE
    Concurrent = TRUE
    Faults = TRUE
SYMMETRY HandlerSymmetry
INVARIANTS ActiveIsVouched RowIsBacked
PROPERTIES DemotedOnlyByStaleHandler
CHECK_DEADLOCK FALSE
