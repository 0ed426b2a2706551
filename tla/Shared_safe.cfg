CONSTANTS
    Procs = {p1, p2, p3}
    Nobody = Nobody
    Batches = 1
    Length = 4
    MAX_MOVEMENT = 2
SPECIFICATION Spec
SYMMETRY Swappable
INVARIANTS TypeOK OneInside CountsExact NothingLeaks KilledByARace MarksSound SomeoneRuns
