SPECIFICATION Spec
CONSTANTS
    NEntries = 3
    NSlots = 1
    Unset = Unset
    MaxRequests = 4
    Failures = FALSE
PROPERTY
    ReplacedAsDefault
CHECK_DEADLOCK FALSE
