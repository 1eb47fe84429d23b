\* Originals of up to five bytes, in blocks of up to two: two whole blocks and
\* a rest, short reads and writes, and growth at any time.
SPECIFICATION FairSpec
CONSTANTS
    MaxLength = 5
    BLCSZ = 2
INVARIANTS TypeOK AlwaysPrefix CompleteOnSuccess AttributesOnSuccess
PROPERTY Ends
CHECK_DEADLOCK FALSE
