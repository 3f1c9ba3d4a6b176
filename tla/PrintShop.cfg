SPECIFICATION FairSpec
CONSTANTS
    a1 = a1
    a2 = a2
    b1 = b1
    None = None
    Agents <- TwoAgents
    Home <- SameShop
    MaxJobs = 1
    MaxAttempts = 3
INVARIANTS
    TypeOK
    OneAgentPerDelivery
    DeliverableHasItsPayload
PROPERTIES
    ClosedStaysClosed
    LapsedLeaves
    DeliveryComesBack
CHECK_DEADLOCK FALSE
