SPECIFICATION FairSpec
CONSTANTS
    Socks = {s1}
    Procs = {p1, p2, p3}
    MaxRequests = 2
PROPERTY RequestServed
CHECK_DEADLOCK FALSE
