\* The three programs, and any number of signals of any kind.
SPECIFICATION Spec
INVARIANT Current
PROPERTY EndNoticed
CHECK_DEADLOCK FALSE
