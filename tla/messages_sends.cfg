SPECIFICATION MessagesSpec
CONSTANTS
    Sends = {s1, s2}
    Posts = {p1}
    Passes = {q1, q2}
    Users = {alice, bob}
    Operator = operator
    KeyExchange = keys
    MIRROR_NODE_BATCH_SIZE = 2
    MirrorFirst = TRUE
    Faults = TRUE
    Chats = {ta, tb}
    EventReads = {e1}
    MyTexts = {m1}
    TheirTexts = {o1}
    PageLimit = 1
    NoChat = nochat
    Handles = {u1}
    NoHandle = nohandle
    Updates = {r1, r2}
    Checks = {k1}
SYMMETRY Symmetry
INVARIANT MessagesInv
PROPERTIES NumberedOnce
