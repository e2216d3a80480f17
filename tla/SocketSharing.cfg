SPECIFICATION Spec
CONSTANTS
    Holders = {h1, h2, h3, h4}
    MaxBlocks = 3
    Fds = {3, 4}
SYMMETRY Symmetry
INVARIANT OwnConnection
INVARIANT LeakOnlyByRace
\* All sockets destroyed and all connections used up.
CHECK_DEADLOCK FALSE
