\* Three runs, from counts at every boundary of the text.
SPECIFICATION Spec
CONSTANTS
    p1 = p1  p2 = p2  p3 = p3
    Runs = {p1, p2, p3}
    StartCounts <- Counts
    MaxInt <- INT_MAX
    LockfResults = {0}
SYMMETRY Symmetry
INVARIANTS OnlyWhileLocked NumberFits
PROPERTY ImplementsCounter
CHECK_DEADLOCK FALSE
