CONSTANTS
    Clients = {c1, c2, c3}
    Nobody = Nobody
    MAX_CLIENTS = 2
    Cities = {1}
    MaxCommands = 1
    MaxBytes = 2
    Ritual = 2
SPECIFICATION Spec
SYMMETRY Swappable
INVARIANTS TypeOK NobodyForgotten CountExact TurnedAwayLeak EndsForAReason
CHECK_DEADLOCK FALSE
