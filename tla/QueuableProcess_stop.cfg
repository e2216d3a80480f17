SPECIFICATION FairSpec
CONSTANT MaxTasks = 1
PROPERTY StopTerminates
CHECK_DEADLOCK FALSE
