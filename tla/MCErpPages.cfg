CONSTANTS
    Invoices = {i1, i2}
    Payments = {p1}
    Stored = {i1, p1}
    NCalls = 2
    MaxMishaps = 1
    None = None
    Losses = TRUE
SPECIFICATION Spec
INVARIANTS TypeOK EditsItsDocument ShowsItsDocument ActsOnWhatIsShown RowsOfItsEntity RemovedLeaveTheTable
PROPERTIES ClosedBySave
CHECK_DEADLOCK FALSE
