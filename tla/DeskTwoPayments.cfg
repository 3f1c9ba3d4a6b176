SPECIFICATION Spec
CONSTANTS
    c1 = c1
    c2 = c2
    here = here
    there = there
    q1 = q1
    q2 = q2
    Clients <- TwoClients
    Branches <- OneBranch
    Quotes <- OneQuote
    OneAtATime = FALSE
    Credit = 1
    MaxOrders = 1
INVARIANT NeverOvercollected
CHECK_DEADLOCK FALSE
