\* A branch write between the snapshot and the DROP SCHEMA of a merge.
SPECIFICATION MergeSpec
CONSTANTS
    users = users
    orders = orders
    lines = lines
    Null = Null
    Absent = Absent
    Tables = {users}
    ProdIds = {1, 2}
    LocalIds = {11}
    Vals = {a, b}
    OrdersRule = "CASCADE"
    LinesRule = "CASCADE"
    FK <- ShopFK
    StartBase <- OneUser
    StartSeq <- SeqAhead
    StartLocal = 11
    StartView <- AllOverlay
    ExplicitIds = {}
    HasUpdatedAt = {users}
    MaxWrites = 1
    MaxMerges = 1
    Order <- ReplayOrder
PROPERTIES
    NoBranchWriteLost
CHECK_DEADLOCK FALSE
