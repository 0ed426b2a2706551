CONSTANTS
    N = 3
    Points = {1}
    c1 = c1
    c2 = c2
    Clients <- MCClients
SPECIFICATION Spec
SYMMETRY Swappable
INVARIANTS TypeOK PermitsKept PointsKept
PROPERTY GameFrozen
CHECK_DEADLOCK FALSE
