\* Two committers beside one client of the branch commands.
SPECIFICATION CommitSpec
CONSTANTS
    ann = ann
    carl = carl
    dora = dora
    Nothing = Nothing
    Clients = {ann}
    Commands <- AllCommands
    Names = {x, y}
    Apps = {}
    MaxBranches = 2
    Committers = {carl, dora}
    TableCount = 1
    RowKeys = {r}
    MaxCommits = 2
    MaxWrites = 2
SYMMETRY CommitterSymmetry
INVARIANTS
    CommitTypeOK
    ParentInLineage
    ForksOverlap
    QuietCountsAreExact
CHECK_DEADLOCK FALSE
