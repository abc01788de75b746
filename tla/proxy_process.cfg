\* One client that starts and stops the proxy, one branch name used twice.
SPECIFICATION ProcessSpec
CONSTANTS
    Clients = {ann}
    MaxPids = 2
    MaxCommands = 3
    MaxMishaps = 2
    Names = {x}
    Tables = {t}
    Slots = {s1, s2}
    MaxCreated = 2
    MaxQueue = 2
    MaxFaults = 1
    Malformed = Malformed
    Nothing = Nothing
INVARIANTS
    ProcessTypeOK
    DaemonIsKnown
    NothingForgotten
PROPERTIES
    ImplementsViewUpgrade
    WrittenTablesUpgrade
    RequestsAreServed
CHECK_DEADLOCK FALSE
