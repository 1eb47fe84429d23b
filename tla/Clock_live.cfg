\* One server, one client, a run of 19.3-semaphores_2 with two threads: what
\* eventually happens when every started process keeps running.
SPECIFICATION FairSpec
CONSTANTS
    s1 = s1  s2 = s2  s3 = s3  c1 = c1  c2 = c2  u1 = u1
    Servers = {s1}
    Clients = {c1}
    Summers = {u1}
    Threads = 2
    MaxTime = 1
    None = None
PROPERTIES InterruptedCallExits TokenComesBack
CHECK_DEADLOCK FALSE
