\* All views upgraded, production sequences ahead of the rows.
SPECIFICATION UpgradedSpec
CONSTANTS
    users = users
    orders = orders
    notes = notes
    invoices = invoices
    Null = Null
    Absent = Absent
    Tables = {users, orders, notes, invoices}
    ProdIds = {1, 2, 3}
    LocalIds = {11, 12}
    Vals = {a, b}
    FK <- ShopFK
    StartBase <- OneRowEach
    StartSeq <- SeqAhead
    StartLocal = 11
    StartView <- AllOverlay
    ExplicitIds = {}
    HasUpdatedAt = {}
    MaxWrites = 3
INVARIANTS
    TypeOK
    LocalIdsStayNew
PROPERTIES
    ImplementsPrivateCopy
    DeleteLeavesNoOrphans
    UpdateChangesOneColumn
CHECK_DEADLOCK FALSE
