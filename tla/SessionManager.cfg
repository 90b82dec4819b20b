SPECIFICATION Spec
CONSTANTS
    Clients = {c1, c2}
    NoClient = NoClient
    Displays = {0}
    Conns = {x1}
    MaxConns = 1
    MaxOpened = 1
INVARIANTS TypeOK RegistryConsistent GoneOwnsNothing
PROPERTIES EndsComeTrue
CHECK_DEADLOCK FALSE
