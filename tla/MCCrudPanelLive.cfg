SPECIFICATION FairSpec
CONSTANTS
    NItems = 2
    NStored = 1
    NCalls = 2
    MaxCalls = 2
    Queries <- MCQueries
    Texts <- MCText
    None = None
    Losses = TRUE
PROPERTIES
    LoadersStop
CHECK_DEADLOCK FALSE
