CONSTANTS
    N = 3
    w1 = w1
    w2 = w2
    Workers <- MCWorkers
    Nobody = Nobody
    MaxDeaths = 0
SPECIFICATION FairSpec
PROPERTIES ShiftEnds
