SPECIFICATION Spec
CONSTANTS
    s1 = s1
    s2 = s2
    Sessions <- TwoSessions
    MaxLinks = 2
    MaxEdits = 1
    MaxPrices = 1
    MaxOrders = 2
    MaxCrashes = 1
INVARIANTS
    OneActiveLink
    ConfirmationsAgree
PROPERTY TerminalIsFinal
SYMMETRY SessionSymmetry
CHECK_DEADLOCK FALSE
