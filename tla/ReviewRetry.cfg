SPECIFICATION Spec
CONSTANTS
    s1 = s1
    s2 = s2
    Sessions <- OneSession
    MaxLinks = 1
    MaxEdits = 1
    MaxPrices = 1
    MaxOrders = 2
    MaxCrashes = 1
INVARIANT OneOrderPerQuote
CHECK_DEADLOCK FALSE
