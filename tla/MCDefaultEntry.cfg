SPECIFICATION Spec
CONSTANTS
    NEntries = 3
    NSlots = 2
    Unset = Unset
    MaxRequests = 4
    Failures = TRUE
INVARIANTS
    TypeOK
    OnlyEntryIsDefault
    DefaultAmongSeveral
PROPERTY
    DefaultAsRequested
CHECK_DEADLOCK FALSE
