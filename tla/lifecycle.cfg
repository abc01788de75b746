\* Two names, one client that drops.
SPECIFICATION Spec
CONSTANTS
    ann = ann
    bob = bob
    Nothing = Nothing
    Clients = {ann, bob}
    Commands <- OneDrops
    Names = {x, y}
    Apps = {app}
    MaxBranches = 3
INVARIANTS
    TypeOK
    LiveNamesDiffer
    SchemasMatchBranches
PROPERTIES
    StatusOnlyAdvances
CHECK_DEADLOCK FALSE
