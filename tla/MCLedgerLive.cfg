SPECIFICATION FairSpec
CONSTANTS
    Invoices = {i1}
    NoInvoice = NoInvoice
    NPayments = 2
    NSlots = 2
    Amounts <- MCAmounts
    Totals <- MCTotals
    MaxInFlight = 2
    MaxRequests = 4
    Failures = TRUE
PROPERTY
    RemovalReachesPayments
CHECK_DEADLOCK FALSE
