CONSTANTS
    x1 = x1
    o = o
    NoProc = NoProc
    NoResult = NoResult
    Executors = {o}
    Operators = {o}
    MaxJobs = 2
    MaxIngests = 1
SPECIFICATION Spec
INVARIANT InterruptedIsRetryable
CHECK_DEADLOCK FALSE
