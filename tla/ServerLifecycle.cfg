SPECIFICATION FairSpec
CONSTANTS
    MaxConns = 3
    MaxCommands = 4
INVARIANT TypeOK
INVARIANT ClosedForGood
INVARIANT FlagInLiveAccepter
INVARIANT TaskSeesAll
PROPERTY InterruptEndsAccept
CHECK_DEADLOCK FALSE
