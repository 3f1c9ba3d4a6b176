SPECIFICATION FrontSpec
CONSTANTS
    c1 = c1
    c2 = c2
    here = here
    there = there
    q1 = q1
    q2 = q2
    Clients <- TwoClients
    Branches <- TwoBranches
    Quotes <- TwoQuotes
    OneAtATime = TRUE
    Credit = 2
    MaxOrders = 2
    order1 = order1
    order2 = order2
    seller1 = seller1
    seller2 = seller2
    shop1 = shop1
    shop2 = shop2
    counter = counter
    name1 = name1
    name2 = name2
    Sales <- TwoOrders
    SoldBy <- OneSellerEach
    Shops <- TwoShops
    Terms <- InFullOrOnCredit
    MaxReceipts = 2
    LastDay = 1
    Counters <- OneCounter
    Carts <- FourRequests
    Policies <- TwoPolicies
    BoardRows <- FourBoardRows
    TapeRows <- TwoTapeRows
    Height = 10
    Width = 8
    MaxRevisions = 2
    MaxCached = 1
    MaxMinted = 1
INVARIANTS
    TypeOK
    OneActivePerBranch
    
PROPERTIES
    NobodyOvertakes
    ArrivalsGoLast
SYMMETRY DeskSymmetry
CHECK_DEADLOCK FALSE
