\* Clients that begin with a start-up packet or with an SSL request.
SPECIFICATION Spec
CONSTANTS
    Schemas = {"public", "chuck_x", "chuck_y"}
    Greetings = {"plain", "ssl"}
    AuthKinds = {"auth"}
    MaxRounds = 2
    MaxQueries = 2
    MaxSwitches = 1
INVARIANTS
    TypeOK
    QueriesAreRouted
    ClientSeesOwnAnswers
PROPERTIES
    OneSideEndsAll
    ClientIsServed
CHECK_DEADLOCK FALSE
