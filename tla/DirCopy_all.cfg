\* A first copy, copies over older ones and one into the directory itself;
\* every call but readdir may fail, one entry may vanish.
SPECIFICATION Spec
CONSTANTS
    Names <- MCNames
    OldDir <- MCOldDir
    NewDirs <- MCNewDirs
    Trees <- MCTrees
    Failing <- MCFailing
    MaxOpen = 6
    MaxFailures = 1
    MaxChanges = 1
INVARIANTS TypeOK SuccessMeansEqual NoFailureNoError
CHECK_DEADLOCK FALSE
