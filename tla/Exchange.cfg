SPECIFICATION FairSpec
CONSTANT MaxRequests = 3
INVARIANT OneWorker
INVARIANT ResultFresh
INVARIANT ReadyResultIsNew
PROPERTY CallReturns
\* request(timeout) to a silent server never returns, a caller may stop.
CHECK_DEADLOCK FALSE
