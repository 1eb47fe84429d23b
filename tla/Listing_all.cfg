\* Four directories, two of which need two batches of 06.3, and up to two
\* failing calls.
SPECIFICATION ListSpec
CONSTANTS
    Entries <- MCEntries
    Children <- MCChildren
    Roots <- MCRoots
    Unknown <- MCUnknown
    Offset <- MCOffset
    Garbage = "garbage"
    BUF_SIZE = 5
    MaxPrinted = 6
    MaxFailures = 2
INVARIANTS NoHoles CompleteUnlessFailed
CHECK_DEADLOCK FALSE
