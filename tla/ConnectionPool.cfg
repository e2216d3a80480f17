SPECIFICATION Spec
CONSTANTS
    Socks = {s1, s2}
    Procs = {p1, p2, p3}
    MaxRequests = 2
SYMMETRY Symmetry
INVARIANT IdleWhenReplaced
INVARIANT StopIsFinal
INVARIANT OwnedOnce
INVARIANT FaultsOnlyWhere
PROPERTY UsesLife
\* An assert, a join that never returns or the end of stop() end everything.
CHECK_DEADLOCK FALSE
