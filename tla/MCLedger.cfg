SPECIFICATION Spec
CONSTANTS
    Invoices = {i1, i2}
    NoInvoice = NoInvoice
    NPayments = 2
    NSlots = 3
    Amounts <- MCAmounts
    Totals <- MCTotals
    MaxInFlight = 3
    MaxRequests = 5
    Failures = TRUE
SYMMETRY MCSymmetry
INVARIANTS
    DashboardAddsUp
    TypeOK
    BooksBalance
    StatusIsCurrent
    ListNamesLivePayments
    NoOrphanPayments
PROPERTY
    RemovedStaysAsItWas
CHECK_DEADLOCK FALSE
