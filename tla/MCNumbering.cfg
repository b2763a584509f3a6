CONSTANTS
    w1 = w1
    w2 = w2
    d1 = d1
    d2 = d2
    s1 = s1
    s2 = s2
    Browsers = {w1, w2}
    Kinds = {"invoice", "quote"}
    Ids = {d1, d2}
    Slots = {s1, s2}
    Typed = {1}
    MaxClicks = 5
    MaxFailures = 1
    None = None
SPECIFICATION Spec
SYMMETRY Symmetry
INVARIANTS
    TypeOK
    FreshProposalIsNew
    LoadersHaveACause
PROPERTIES
    CopyNeverOlder
    SaveKeepsTheRest
CHECK_DEADLOCK FALSE
