SPECIFICATION AccountsSpec
CONSTANTS
    ann = ann
    bob = bob
    h1 = h1
    h2 = h2
    h3 = h3
    h4 = h4
    t1 = t1
    t2 = t2
    Logins = {h1, h2, h3, h4}
    MaxAttempts = 1
    NoCode = nocode
    OtpFaults = TRUE
    Calls = {h1, h2, h3, h4}
    Deliveries = {d1}
    None = none
    Demo = demo
    Offered = {"wallet", "submit", "profile"}
    MirsadConfigured = FALSE
    Concurrent = TRUE
    Faults = FALSE
    Followers = {ann, bob}
    Watched = ann
    Requests = {h1, h2, h3}
    GraphFaults = TRUE
    Clicks = {h1, h2, h3}
    MaxElsewhere = 1
    Tabs = {t1, t2}
    MaxLikes = 2
SYMMETRY AccountSymmetry
INVARIANTS LoginInv NamedNftLives ButtonsInv
PROPERTIES GraphSafety
CHECK_DEADLOCK FALSE
