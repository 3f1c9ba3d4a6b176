SPECIFICATION Spec
CONSTANTS
    thread1 = thread1
    thread2 = thread2
    p1 = p1
    p2 = p2
    p3 = p3
    Threads <- TwoThreads
    Jobs = 2
    MaxExecutors = 3
    MaxFaults = 2
    Kerf = 2
    MinRect = 1
    MinUsable = 2
    Pieces <- ThreePieces
    Width <- Widths
    Height <- Heights
    Turns <- Turnable
    Usable <- WholeUsable
    Configs <- Portfolio
    Bins <- SheetKinds
    BinWidth <- SheetWidth
    BinHeight <- SheetHeight
    Trims <- FourTrims
    Inputs <- QuoteInputs
    Plenty = 9
    MaxSheets = 2
    MaxEdits = 2
    MaxRequotes = 1
    Parts = {1, 2, 3, 4, 5, 6, 9}
    Span <- Lengths
    Blade = 2
    Shops <- FourShops
    List <- Lists
    Endless = 9
    MaxBoards = 4
    MaxPasses = 3
    Slats <- ThreeSlats
    Lying <- SlatsLying
    Upright <- SlatsUpright
    Revolving = {1}
    Pools <- EightPools
    Loss = 1
    MostSheets = 4
INVARIANTS
    TypesOK
    NoPoolIsLeaked
    PackedApart
    SheetsAreCuttable
    PlansLoseNothing
    PoolsLoseNothing
PROPERTIES
    EveryBatchEnds
    BillOnlyFalls
CHECK_DEADLOCK FALSE
