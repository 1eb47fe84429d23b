\* All four programs: two lines, three events through a queue of one, two
\* signals, two failing reads of SigReader.
SPECIFICATION FairSpec
CONSTANTS
    Programs <- MCPrograms
    Sigs <- MCSigs
    MaxSignals = 2
    MaxEvents = 3
    MaxQueued = 1
    MaxLines = 2
    MaxFailures = 2
INVARIANTS EventsInOrder ReportsInOrder
PROPERTIES EventsPrinted SignalEnds PendingReported
CHECK_DEADLOCK FALSE
