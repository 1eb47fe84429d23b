\* A run with two threads and up to two points, next to another run in the
\* same directory; texts that fit the pipe and texts that do not.
SPECIFICATION ProgramSpec
CONSTANTS
    N = 2
    MaxPoints = 2
    r1 = r1  r2 = r2
    Runs = {r1, r2}
    Threaded = r1
    Old = Old
    None = None
    Capacity = 1
    MaxLength = 2
INVARIANTS NoUseAfterReturn NumberPrinted NeverStale
PROPERTIES ImplementsAtomic Finishes
CHECK_DEADLOCK FALSE
