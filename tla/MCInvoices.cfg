SPECIFICATION Spec
CONSTANTS
    inv = inv
    InFull = InFull
    NoRequest = NoRequest
    Workers = {w1, w2, w3}
    Invoices <- MCInvoices
    Total <- MCTotal
    Amounts <- MCAmounts
SYMMETRY MCSymmetry
INVARIANTS
    TypeOK
    LedgerCoherent
    PaymentsCounted
PROPERTY SettledStays
CHECK_DEADLOCK FALSE
