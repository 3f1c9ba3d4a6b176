SPECIFICATION Spec
CONSTANTS
    p1 = p1
    p2 = p2
    p3 = p3
    inv1 = inv1
    inv2 = inv2
    NoInvoice = NoInvoice
    Pieces <- OnePiece
    Banded = {}
    Worked = {}
    Invoices <- TwoInvoices
    MaxCredit = 3
    MaxPayments = 4
    MaxMoves = 4
INVARIANTS
    NeverOvercollected
PROPERTIES
    ImplementsAccount
CHECK_DEADLOCK FALSE
