\* A branch is merged under an open session.
SPECIFICATION Spec
CONSTANTS
    ann = ann
    bob = bob
    Nothing = Nothing
    Clients = {ann}
    Commands <- AllMerge
    Names = {x}
    Apps = {app}
    MaxBranches = 1
INVARIANTS
    SessionStaysOnBranch
CHECK_DEADLOCK FALSE
