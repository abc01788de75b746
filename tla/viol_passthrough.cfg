\* Two UPDATEs of one row before the listener has upgraded its view.
SPECIFICATION Spec
CONSTANTS
    users = users
    orders = orders
    notes = notes
    invoices = invoices
    Null = Null
    Absent = Absent
    Tables = {users, orders}
    ProdIds = {1, 2}
    LocalIds = {11}
    Vals = {a, b}
    FK <- ShopFK
    StartBase <- OneRowEach
    StartSeq <- SeqAhead
    StartLocal = 11
    StartView <- AllPassthrough
    ExplicitIds = {}
    HasUpdatedAt = {}
    MaxWrites = 2
PROPERTIES
    UpdateChangesOneColumn
CHECK_DEADLOCK FALSE
