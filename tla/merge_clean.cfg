\* Two tables with ON DELETE CASCADE, production sequences ahead of the rows.
SPECIFICATION MergeSpec
CONSTANTS
    users = users
    orders = orders
    lines = lines
    Null = Null
    Absent = Absent
    Tables = {users, orders}
    ProdIds = {1, 2, 3, 4}
    LocalIds = {11}
    Vals = {a, b}
    OrdersRule = "CASCADE"
    LinesRule = "CASCADE"
    FK <- ShopFK
    StartBase <- OneUser
    StartSeq <- SeqAhead
    StartLocal = 11
    StartView <- AllOverlay
    ExplicitIds = {}
    HasUpdatedAt = {users, orders}
    MaxWrites = 3
    MaxMerges = 2
    Order <- ReplayOrder
INVARIANTS
    MergeTypeOK
    NoBranchIdInBase
    RemapTargetsFresh
PROPERTIES
    MergeIsFaithful
    ProductionUpdateSurvives
    ValidatedBranchReplays
    InsertThenDeleteIsNoOp
CHECK_DEADLOCK FALSE
