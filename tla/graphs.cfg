\* Three tracked tables and an untracked one.
SPECIFICATION Spec
CONSTANTS
    users = users
    orders = orders
    Null = Null
    Names = {users, orders, lines, archive, nobody}
    Tracked = {users, orders, lines}
    Untracked = archive
    Nobody = nobody
    Ids = {1, 2}
    MaxSortFKs = 3
    MaxGraphFKs = 3
    MaxRuledFKs = 3
INVARIANTS
    EachTableOnce
    ParentsFirst
    GraphHasAllPaths
    DeleteMatchesProduction
CHECK_DEADLOCK FALSE
