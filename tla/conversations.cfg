SPECIFICATION AllSpec
CONSTANTS
    ann = ann
    bob = bob
    cat = cat
    c1 = c1
    c2 = c2
    c3 = c3
    Accounts = {ann, bob, cat}
    Founders = {ann, bob}
    Creator = ann
    Calls = {c1, c2, c3}
    Founding = founding
    Nobody = nobody
    Faults = TRUE
    Pair = {ann, bob}
    Creations = {c1, c2, c3}
    None = none
    CreationFaults = TRUE
    d1 = d1
    d2 = d2
    Devices = {d1, d2}
    MaxKeys = 3
    b1 = b1
    f1 = f1
    f2 = f2
    OldTexts <- Before
    Theirs = {b2}
    Mine = {b3}
    Silence = silence
    Channels = {own}
    Own = own
    Fetches = {f1, f2}
    PageSize = 1
    MaxMessages = 3
    MaxRotations = 2
    Submits = {d1, d2}
    Rooms = {ta, tb}
    MaxEvents = 2
    NoRoom = noroom
SYMMETRY Symmetry
INVARIANT ScreensInv
PROPERTIES MembershipSafety DirectSafety KeySafety
CHECK_DEADLOCK FALSE
