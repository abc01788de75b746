\* Two tables with ON DELETE SET NULL, production sequences ahead of the rows.
SPECIFICATION MergeSpec
CONSTANTS
    users = users
    orders = orders
    lines = lines
    Null = Null
    Absent = Absent
    Tables = {users, orders}
    ProdIds = {1, 2, 3}
    LocalIds = {11, 12}
    Vals = {a, b}
    OrdersRule = "SET NULL"
    LinesRule = "CASCADE"
    FK <- ShopFK
    StartBase <- OneUser
    StartSeq <- SeqAhead
    StartLocal = 11
    StartView <- AllOverlay
    ExplicitIds = {}
    HasUpdatedAt = {users, orders}
    MaxWrites = 3
    MaxMerges = 1
    Order <- ReplayOrder
PROPERTIES
    MergeIsFaithful
    ProductionUpdateSurvives
    ValidatedBranchReplays
CHECK_DEADLOCK FALSE
