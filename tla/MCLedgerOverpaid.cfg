SPECIFICATION Spec
CONSTANTS
    Invoices = {i1}
    NoInvoice = NoInvoice
    NPayments = 2
    NSlots = 2
    Amounts <- MCAmounts
    Totals = {2}
    MaxInFlight = 2
    MaxRequests = 3
    Failures = FALSE
PROPERTY
    OverpaidOnlyByEdit
CHECK_DEADLOCK FALSE
