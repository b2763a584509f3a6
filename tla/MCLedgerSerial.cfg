SPECIFICATION FairSpec
CONSTANTS
    Invoices = {i1, i2}
    NoInvoice = NoInvoice
    NPayments = 2
    NSlots = 1
    Amounts <- MCAmounts
    Totals <- MCTotals
    MaxInFlight = 1
    MaxRequests = 6
    Failures = FALSE
INVARIANTS
    SerialIsFlawless
PROPERTIES
    ImplementsAccountBook
    OverpaidOnlyByEdit
CHECK_DEADLOCK FALSE
