SPECIFICATION Spec
CONSTANTS
    Files = {f1, f2}
    Hosts = {h1}
    MaxVersion = 2
INVARIANT NothingConfirmedLost
INVARIANT UnsavedOffered
PROPERTY ImplementsStore
