SPECIFICATION FairSpec
CONSTANTS
    Sends = {s1}
    Posts = {p1, p2}
    Passes = {q1}
    Users = {alice, bob}
    Operator = operator
    KeyExchange = keys
    MIRROR_NODE_BATCH_SIZE = 2
    MirrorFirst = FALSE
    Faults = FALSE
PROPERTIES PlaceholderReleased SyncCatchesUp
