SPECIFICATION Spec
CONSTANTS
    p1 = p1
    p2 = p2
    p3 = p3
    inv1 = inv1
    inv2 = inv2
    NoInvoice = NoInvoice
    Pieces <- ThreePieces
    Banded <- BandedPieces
    Worked <- WorkedPieces
    Invoices <- TwoInvoices
    MaxCredit = 0
    MaxPayments = 0
    MaxMoves = 6
INVARIANTS
    ShopInv
    FinishedWorkIsComplete
    HistoryTellsTheStatus
    NobodyWaitsForEver
PROPERTIES
    SealedOnce
    ImplementsLifecycle
CHECK_DEADLOCK FALSE
