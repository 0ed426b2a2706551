CONSTANTS
    CLIENT_COUNT = 3
    MIN_ITEMS = 1
    MAX_ITEMS = 3
    OPEN_FOR = 3
    MAX_MSG_COUNT = 2
    Workers = {1, 2, 3}
    Share = 2
    MAX_MSG = 2
    MaxSigints = 2
    CHILD_COUNT = 2
    ROUNDS = 6
    Children = {1, 2, 3}
    MAX_NUM = 2
    Guests = {1, 2, 3}
    MAX_CLIENTS = 2
    Room = 3
    Texts = 1
    Askers = {1, 2}
    MaxRuns = 2
SPECIFICATION Spec
INVARIANT BadDescriptorHandled
CHECK_DEADLOCK FALSE
