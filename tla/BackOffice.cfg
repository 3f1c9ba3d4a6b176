SPECIFICATION Spec
CONSTANTS
    order1 = order1
    order2 = order2
    sheet1 = sheet1
    sheet2 = sheet2
    slip1 = slip1
    slip2 = slip2
    slip3 = slip3
    operator1 = operator1
    operator2 = operator2
    user1 = user1
    user2 = user2
    client1 = client1
    client2 = client2
    key1 = key1
    key2 = key2
    key3 = key3
    name1 = name1
    name2 = name2
    name3 = name3
    board = board
    band = band
    code1 = code1
    code2 = code2
    byHand = byHand
    design = design
    tablet1 = tablet1
    tablet2 = tablet2
    press1 = press1
    press2 = press2
    Users <- TwoUsers
    Clients <- TwoClients
    MaxTokens = 2
    MaxClosings = 1
    Tablets <- TwoTablets
    Managers <- OneManager
    Working <- WorkingInstants
    Early = 2
    UndoWindow = 1
    MaxChanges = 3
    LastInstant = 3
    Keys <- ThreeKeys
    Desks <- TwoClients
    Articles = {1, 2, 3}
    Category <- ThreeCategories
    Codigo <- ThreeCodes
    Handmade <- OneByHand
    Names <- ThreeNames
    Designs <- OneDesign
    NoDesign = NoDesign
    Syncers <- TwoPresses
    MaxMoves = 2
    DayTicks = 8
    Week <- EveryDay
    Overtime = 1
    MinClocked = 1
    Orders <- TwoOrders
    Banding <- SmallOrder
    Sheets <- TwoSheets
    Slips <- ThreeSlips
    SheetOf <- SlipSheets
    OrderOf <- SheetOrders
    SheetKind <- SheetKinds
    Staff <- TwoOperators
    Instants <- SixInstants
    IdleGap = 1
    Numbers <- FiveNumbers
    Phones <- OnePhone
    Mails <- OneMail
    VendorRows <- SixListRows
    Listed = {1, 2}
    Importers <- OneManager
    MinDigits = 2
    MaxTouches = 2
INVARIANTS
    TypesOK
    OldSessionsStayClosed
    SomeoneManagesUsers
    ConsumablesRecord
    FilesFollowRows
    FloorFiguresAgree
PROPERTIES
    CatalogFollowsTheVendor
    ClientsFollowTheVendor
CHECK_DEADLOCK FALSE
