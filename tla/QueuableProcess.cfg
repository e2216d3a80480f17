SPECIFICATION FairSpec
CONSTANT MaxTasks = 4
INVARIANT TypeOK
INVARIANT InOrderOnce
INVARIANT NoStrandedTask
INVARIANT AtMostOneLateTask
INVARIANT BusyWhileRunning
INVARIANT NoSleeperInDestroyedCv
PROPERTY ImplementsLife
PROPERTY TaskServed
\* A destroyed process, or one blocked on its own mutex, really stops.
CHECK_DEADLOCK FALSE
