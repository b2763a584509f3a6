SPECIFICATION Spec
CONSTANTS
    NItems = 3
    NStored = 2
    NCalls = 2
    MaxCalls = 2
    Queries <- MCQueries
    Texts <- MCTexts
    None = None
    Losses = TRUE
INVARIANTS
    TypeOK
    TableIsCurrent
    ActsOnWhatIsShown
CHECK_DEADLOCK FALSE
