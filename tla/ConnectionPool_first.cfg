SPECIFICATION FairSpec
CONSTANTS
    Socks = {s1}
    Procs = {p1, p2, p3}
    MaxRequests = 1
PROPERTY FirstRequestServed
PROPERTY PollStops
CHECK_DEADLOCK FALSE
