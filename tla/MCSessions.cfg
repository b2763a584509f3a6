CONSTANTS
    u1 = u1
    u2 = u2
    t1 = t1
    t2 = t2
    s1 = s1
    s2 = s2
    Users = {u1, u2}
    Tabs = {t1, t2}
    Slots = {s1, s2}
    MaxSecond = 1
    MaxLinks = 1
    MaxClicks = 5
    MaxRefusals = 1
    None = None
SPECIFICATION Spec
SYMMETRY Symmetry
INVARIANTS
    TypeOK
    ActsAsShown
    StoredLoginIsUsable
    LinkIsUsedOnce
PROPERTIES
    NoEntryAfterLogout
CHECK_DEADLOCK FALSE
