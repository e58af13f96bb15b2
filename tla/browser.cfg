SPECIFICATION BrowserSpec
CONSTANTS
    r1 = r1
    r2 = r2
    ann = ann
    bob = bob
    w1 = w1
    w2 = w2
    Requests = {r1, r2}
    Nobody = nobody
    Users = {ann, bob}
    MaxTokens = 3
    MaxComments = 3
    PageSize = 2
    Precision = 2
    Loads = {r1, r2}
    Members = {ann, bob}
    Windows = {w1, w2}
    Events = {r1, r2}
    MaxSeq = 2
    Offline = offline
    RedisFails = TRUE
    KycOffered = FALSE
    MaxPolls = 2
    Refreshes = {r1, r2}
    Marks = {w1}
    MaxNotices = 2
    Limit = 2
    Chosen = {"all", "social"}
SYMMETRY BrowserSymmetry
INVARIANTS CommentsInv WizardInv NoticesInv
PROPERTIES SessionSafety ChatSafety
CHECK_DEADLOCK FALSE
