CONSTANTS
    Programs = {"knights"}
    N = 3
    M = 2
    Suits = 3
    Capacity = 2
    W1 = 1
    W2 = 2
    W3 = 1
    MaxCopies = 2
    Batch = 2
    MaxKills = 2
    roland = roland
    oliver = oliver
    marsile = marsile
    Franks <- MCFranks
    Saracens <- MCSaracens
    Health <- MCHealth
    Attack <- MCAttack
    MaxPending = 1
    Shelf = 3
    Team = {1, 2}
    NoOne = NoOne
    TURNS = 1
    Kids = 3
    Samplers = 3
    MaxFails = 1
SPECIFICATION Spec
INVARIANTS LeavesOnlyWhenAlone
CHECK_DEADLOCK FALSE
