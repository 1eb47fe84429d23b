\* Two servers and one client.
SPECIFICATION Spec
CONSTANTS
    s1 = s1  s2 = s2  s3 = s3  c1 = c1  c2 = c2  u1 = u1
    Servers = {s1, s2}
    Clients = {c1}
    Summers = {}
    Threads = 1
    MaxTime = 2
    None = None
SYMMETRY Symmetry
INVARIANTS OneHolder NoTornAccess NoUnsizedRead
PROPERTY TimeNeverGoesBack
CHECK_DEADLOCK FALSE
