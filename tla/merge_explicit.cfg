\* Ids named by the application, local ones too, sequences behind the rows, views
\* not yet upgraded.
SPECIFICATION MergeSpec
CONSTANTS
    users = users
    orders = orders
    lines = lines
    Null = Null
    Absent = Absent
    Tables = {users, orders}
    ProdIds = {1, 2, 3}
    LocalIds = {11, 12}
    Vals = {a, b}
    OrdersRule = "CASCADE"
    LinesRule = "CASCADE"
    FK <- ShopFK
    StartBase <- TwoUsers
    StartSeq <- SeqBehind
    StartLocal = 11
    StartView <- AllPassthrough
    ExplicitIds = {1, 3, 12}
    HasUpdatedAt = {}
    MaxWrites = 2
    MaxMerges = 2
    Order <- ReplayOrder
INVARIANTS
    LocalIdsStayNew
CHECK_DEADLOCK FALSE
