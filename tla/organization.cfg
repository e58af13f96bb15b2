SPECIFICATION MCSpec
CONSTANTS
    ann = ann
    bob = bob
    cat = cat
    h1 = h1
    h2 = h2
    h3 = h3
    l1 = l1
    l2 = l2
    w1 = w1
    w2 = w2
    Users = {ann, bob, cat}
    Founder = ann
    Handlers = {h1, h2, h3}
    FirstOrg = first
    NoOne = noone
    Granted = {"viewer"}
    OrgFaults = TRUE
    Others = {member}
    Loads = {l1, l2}
    Nobody = nobody
    Words = {w1, w2}
    Blank = blank
SYMMETRY MCSymmetry
INVARIANTS OrgInv PagesInv
PROPERTIES OrgSteps PagesSteps
CHECK_DEADLOCK FALSE
