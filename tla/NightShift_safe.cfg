CONSTANTS
    N = 3
    w1 = w1
    w2 = w2
    Workers <- MCWorkers
    Nobody = Nobody
    MaxDeaths = 2
SPECIFICATION Spec
SYMMETRY Swappable
INVARIANTS TypeOK LocksOwned NoAbandonedLock NothingElseLost
PROPERTIES NeverLessSorted Implements
